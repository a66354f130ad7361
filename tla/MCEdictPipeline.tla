--------------------------- MODULE MCEdictPipeline ---------------------------
(* An instance of EdictPipeline for TLC: the report and three stages before it, of    *)
(* which two are looked for in the opposite order.                                   *)
EXTENDS EdictPipeline
MCStages == <<"completed", "chief_assistant", "tech_lead_summary", "tech_lead_dispatch">>
=============================================================================
