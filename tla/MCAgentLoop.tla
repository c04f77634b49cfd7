---------------------------- MODULE MCAgentLoop ----------------------------
(***************************************************************************)
(* AgentLoop with two agents, one with tools and one without, on an        *)
(* invocation of a new conversation or of one that already holds a batch.  *)
(***************************************************************************)
EXTENDS AgentLoop

CONSTANTS Worker, Talker

MCAgents == {Worker, Talker}
MCWithTools == {Worker}
MCMaxIterations == [a \in MCAgents |-> IF a = Worker THEN 2 ELSE 1]

\* A continued conversation, whose batch is answered.
MCStored == {<< SystemMessage, UserMessage(2),
                AssistantMessage(<< << 0, 0, 1 >> >>, 2), ToolMessage(<< 0, 0, 1 >>, 2) >>}
=============================================================================
