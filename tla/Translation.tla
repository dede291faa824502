------------------------------ MODULE Translation ------------------------------
(***************************************************************************)
(* The translating parts checked side by side, each on its own cases: the  *)
(* state tables, texture stages, vertex declarations, shader programs,     *)
(* texture formats and layouts, draw calls, the file of settings.  Every   *)
(* case is an initial state; nothing happens to it.                        *)
(***************************************************************************)
EXTENDS RenderStateCases, FixedFunctionStages, VertexDeclaration, ShaderTokens,
        TextureFormats, DrawCalls, ConfigFile

Init ==
  \/ given \in InputCases
  \/ given \in StageCases
  \/ given \in DeclarationCases
  \/ given \in FormatCases
  \/ given \in ProgramCases
  \/ given \in MaskCases
  \/ given \in FormatQueryCases
  \/ given \in LayoutCases
  \/ given \in DrawCases
  \/ given \in SessionCases
Next == UNCHANGED given
Spec == Init /\ [][Next]_given
==============================================================================
