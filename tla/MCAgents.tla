------------------------------ MODULE MCAgents ------------------------------
(* Small sets for model checking Agents.                                    *)
EXTENDS Agents

CONSTANTS read, send

\* A wide scope and a narrow one.
MCScopes == {{read, send}, {send}}
=============================================================================
