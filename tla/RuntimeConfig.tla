---------------------------- MODULE RuntimeConfig ----------------------------
(***************************************************************************)
(* Runtime._normalize_config: what the Python binding adds to the caller's *)
(* configuration so that the decoder of runtime_config accepts it.         *)
(*                                                                         *)
(* A configuration is the fields it has, not their values: the fields of   *)
(* the object, those among them that are objects, the fields of each       *)
(* section, and how persistence and the provider entries are written.      *)
(***************************************************************************)
EXTENDS FiniteSets

TopDefaults ==
    {"default_quota", "shutdown", "eval_limits", "llm_providers",
     "parallel_tool_execution", "event_retention_seconds", "event_bus"}

SectionDefaults ==
    [default_quota |-> {"max_concurrent_tasks", "max_concurrent_tools_per_agent",
                        "max_tokens_per_turn", "max_total_tokens"},
     shutdown      |-> {"drain_timeout", "cancel_grace_period", "flush_batch_size"},
     eval_limits   |-> {"max_depth", "max_node_visits"},
     event_bus     |-> {"buffer_capacity", "delivery", "dlq_enabled",
                        "dlq_max_size", "critical_event_types"},
     delivery      |-> {"max_delivery_attempts", "initial_retry_delay",
                        "retry_backoff", "delivery_timeout"},
     vector_store  |-> {"backend"}]

\* The sections of the configuration itself, those of them with a default,
\* and the section inside event_bus.
Sections == DOMAIN SectionDefaults
Default  == Sections \ {"delivery", "vector_store"}
Tops     == TopDefaults \cup {"persistence", "vector_store"}

\* How persistence is written: not at all, as the variant the decoder reads,
\* as an object with a tag and its contents, or as anything else.
Persistence == {"absent", "variant", "tagged", "other"}

\* A provider entry: does it name the Openai provider by a pair with an
\* object, and does that object have prompt_cache_key?
ProviderEntry == [openai : BOOLEAN, cache_key : BOOLEAN]

Config ==
    [keys : SUBSET (Tops \ {"persistence"}),
     objects : SUBSET Sections,
     fields : [Sections -> SUBSET UNION {SectionDefaults[s] : s \in Sections}],
     persistence : Persistence,
     providers : SUBSET ProviderEntry]

\* A configuration a caller may write. A section that is no object has no
\* fields, and delivery is looked for in event_bus only.
IsConfig(c) ==
    /\ c \in Config
    /\ c.objects \ {"delivery"} \subseteq c.keys
    /\ \A s \in Sections : c.fields[s] \subseteq SectionDefaults[s]
    /\ \A s \in Sections \ c.objects : c.fields[s] = {}
    /\ "delivery" \in c.objects => "delivery" \in c.fields["event_bus"]

---------------------------------------------------------------------------
(* One step of the function after the other. *)

\* A key that is missing gets its default whole; a section that is an object
\* gets the fields it has not, the delivery of event_bus whole too.
Filled(c, s) ==
    \/ s \in Default \ c.keys
    \/ s \in c.objects
    \/ s = "delivery" /\ "event_bus" \in (Default \ c.keys) \cup c.objects
                      /\ "delivery" \notin c.fields["event_bus"]

WithDefaults(c) ==
    [c EXCEPT !.keys = @ \cup TopDefaults,
              !.objects = @ \cup {s \in Sections : Filled(c, s)},
              !.fields = [s \in Sections |->
                  IF Filled(c, s) THEN SectionDefaults[s] ELSE c.fields[s]]]

\* An object with a tag becomes the pair the decoder reads.
TagPersistence(c) ==
    [c EXCEPT !.persistence = IF @ = "tagged" THEN "variant" ELSE @]

WithCacheKeys(c) ==
    [c EXCEPT !.providers = {[e EXCEPT !.cache_key = @ \/ e.openai] : e \in c.providers}]

normalize_config(c) == WithCacheKeys(TagPersistence(WithDefaults(c)))

---------------------------------------------------------------------------
(* The decoder, runtime_config_of_yojson: it reads every field of the      *)
(* record but the three that its wrapper makes up for, and every field of  *)
(* a section. What else a provider entry needs is the caller's to write.   *)

Decodes(c) ==
    /\ c.persistence = "variant"
    /\ TopDefaults \ {"event_retention_seconds"} \subseteq c.keys
    /\ \A s \in Default \cup {"delivery"} : c.fields[s] = SectionDefaults[s]
    /\ \A e \in c.providers : e.openai => e.cache_key

\* The caller wrote persistence, and each section it wrote is an object.
WellFormed(c) ==
    /\ IsConfig(c)
    /\ c.persistence \in {"variant", "tagged"}
    /\ c.keys \cap Default \subseteq c.objects
    /\ "delivery" \in c.fields["event_bus"] => "delivery" \in c.objects

\* Nothing the caller wrote is taken away.
Keeps(c, d) ==
    /\ c.keys \subseteq d.keys
    /\ \A s \in Sections : c.fields[s] \subseteq d.fields[s]
=============================================================================
