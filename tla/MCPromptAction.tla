--------------------------- MODULE MCPromptAction ---------------------------
(* PromptAction on small instances. *)
EXTENDS PromptAction
=============================================================================
