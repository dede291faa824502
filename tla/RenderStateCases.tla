--------------------------- MODULE RenderStateCases ---------------------------
(***************************************************************************)
(* The tables of what is read and what is announced, one input at a time.  *)
(***************************************************************************)
EXTENDS RenderStateTables, TranslationCase

InputsRead == UNION {ReadBy[part] : part \in DOMAIN ReadBy}
InputCases == [kind : {"input"}, input : InputsRead]

\* Nothing a part of the bindings is made from can change without the flag that
\* has the part made again (SetRenderState, SetTextureStageState against
\* CreatePSO, PixelShaderState, SamplerDesc and the constant buffers), the
\* unannounced inputs apart; and what SetRenderState keeps from DIRTY_FLAG_PSO
\* is out of the cache key, which is out of the pipeline description.
EveryReadIsAnnounced ==
  given.kind = "input" =>
    /\ given.input \notin Unannounced =>
         \A part \in DOMAIN ReadBy :
            given.input \in ReadBy[part] => MadeAgainFor[part] \in Raises(given.input)
    /\ given.input \in NotPsoStates => given.input \in NormalizedStates
    /\ given.input \in NormalizedStates => given.input \notin DescStates \cup ShaderStates
===============================================================================
