---------------------------- MODULE MCDrawState ----------------------------
(* Instances of DrawState for TLC: inputs that between them raise every way a *)
(* flag is raised and reach every part of what a draw binds.                  *)
EXTENDS DrawState

MCInputs == {"target", "viewport", "view", "tex0", "address_u", "stream", "lighting_mode"}
MCPrims == {"list", "strip"}
=============================================================================
