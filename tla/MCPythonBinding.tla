--------------------------- MODULE MCPythonBinding ---------------------------
(***************************************************************************)
(* PythonBinding for TLC, with two configurations, one the decoder takes   *)
(* and one without persistence, and the functions of the binding on small  *)
(* inputs: what PythonProofs proves of them for all.                       *)
(***************************************************************************)
EXTENDS PythonBinding, ImageBlocks

\* A configuration with the sections given, each an object with some or all of
\* its fields.
Configuration(given, whole, persistence) ==
    [keys |-> given \cap Tops, objects |-> given,
     fields |-> [s \in Sections |->
        IF s \notin given THEN {}
        ELSE (IF whole THEN SectionDefaults[s] ELSE {"dlq_enabled", "max_depth"}
                   \cap SectionDefaults[s])
             \cup (IF "delivery" \in given /\ s = "event_bus" THEN {"delivery"} ELSE {})],
     persistence |-> persistence,
     providers |-> [openai : {TRUE}, cache_key : {FALSE}]]

MCConfigs == {Configuration({"event_bus"}, FALSE, p) : p \in {"tagged", "absent"}}

\* A program that calls every method.
MCUsed == Method

MCMediaTypeOf == [s \in Suffix |-> IF s = "png" THEN "image/png" ELSE NoType]

ASSUME ConfigurationsDecode ==
    \A given \in SUBSET Sections, whole \in BOOLEAN, p \in Persistence :
        LET c == Configuration(given, whole, p)
        IN  WellFormed(c) =>
                /\ IsConfig(normalize_config(c))
                /\ Decodes(normalize_config(c))
                /\ Keeps(c, normalize_config(c))
                /\ normalize_config(normalize_config(c)) = normalize_config(c)

ASSUME ImagesWithinLimit ==
    \A n \in 0 .. 8, max \in -1 .. 8, type \in MediaType :
        /\ image_base64(Encoded(n), type, max).built <=> n \in 1 .. max /\ type \in Supported
        /\ \A suffix \in Suffix :
              image_file(n, suffix, type, max) = image_base64(Encoded(n), type, max)

ASSUME BothEncodingsDecode ==
    \A tag \in Tags, fields \in SUBSET {"text", "name", "tool_call_id"} :
        decode_event(Pair(tag, fields)) = decode_event(Object(tag, fields))
=============================================================================
