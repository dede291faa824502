-------------------------- MODULE FixedFunctionStages --------------------------
(***************************************************************************)
(* From texture stage states to a generated pixel shader: the cache key    *)
(* (PixelShaderState, render_state.cpp, and its use in CreatePSO) and the  *)
(* code generated from the key (ff_pixel_shader.cpp).  A stage has a color *)
(* and an alpha operation with three arguments each; what an operation     *)
(* computes is left out, what it reads and whether it runs is not.         *)
(***************************************************************************)
EXTENDS Naturals, FiniteSets, TranslationCase

CONSTANT kMaxTexStages  \* how many texture stages there are

ASSUME kMaxTexStagesAssumption == kMaxTexStages \in Nat \ {0}

Stages == 0 .. kMaxTexStages - 1
Channels == {"color", "alpha"}

\* Texture operations by the arguments they read: "disable", "select1", "select2",
\* "binary", "ternary"; "unset" is the 0 of a field nothing has been copied to.
UsesArg1(op) == op \notin {"disable", "select2"}
UsesArg2(op) == op \notin {"disable", "select1"}

\* An operation and its arguments.  "texture_modified" is D3DTA_TEXTURE with
\* D3DTA_COMPLEMENT or D3DTA_ALPHAREPLICATE.
Operation(op, arg1, arg2, arg0) == [op |-> op, arg1 |-> arg1, arg2 |-> arg2, arg0 |-> arg0]
Unset == Operation("unset", "diffuse", "diffuse", "diffuse")
Cleared == [color |-> Unset, alpha |-> Unset]

-----------------------------------------------------------------------------
\* CreatePSO: a stage counts as textured while every stage before it is.
StageHasTexture(s, i) == \A j \in 0 .. i : s.textured[j]

\* A texture asked for by an argument the operation reads is not there.
Lacks(s, i, o) ==
  /\ ~StageHasTexture(s, i)
  /\ \/ UsesArg1(o.op) /\ o.arg1 = "texture"
     \/ UsesArg2(o.op) /\ o.arg2 = "texture"

\* PixelShaderState's constructor: the first stage without a color operation
\* ends the loop, before its alpha operation is copied.
Stops(s, i) == s.ts[i].color.op = "disable" \/ Lacks(s, i, s.ts[i].color)
OrDiffuse(s, i, used, arg) ==
  IF used /\ arg = "texture" /\ ~StageHasTexture(s, i) THEN "diffuse" ELSE arg

AlphaKeyUnchecked(s, i) ==  \* fault: only the first argument is looked at
  LET o == s.ts[i].alpha
  IN [o EXCEPT !.arg1 = OrDiffuse(s, i, UsesArg1(o.op), @)]
AlphaKey(s, i) ==
  LET o == s.ts[i].alpha
  IN [o EXCEPT !.arg1 = OrDiffuse(s, i, UsesArg1(o.op), @),
               !.arg2 = OrDiffuse(s, i, UsesArg2(o.op), @)]

PixelShaderState(s) ==
  [i \in Stages |->
     IF \E j \in 0 .. i : j < i /\ Stops(s, j) THEN Cleared
     ELSE IF Stops(s, i) THEN [Cleared EXCEPT !.color.op = "disable"]
     ELSE [color |-> s.ts[i].color, alpha |-> AlphaKey(s, i)]]

-----------------------------------------------------------------------------
\* CreatePixelShaderFromState: each channel's operations are applied up to the
\* first disabled or unset one.
Active(key, c, i) == \A j \in 0 .. i : key[j][c].op \notin {"unset", "disable"}
Applied(key, c) == {<<i, key[i][c]>> : i \in {j \in Stages : Active(key, c, j)}}

\* ApplyOperation: the textures whose values the operation uses.
Samples(o) ==
  {a \in {"arg1", "arg2", "arg0"} :
     /\ o[a] \in {"texture", "texture_modified"}
     /\ a = "arg1" => UsesArg1(o.op)
     /\ a = "arg2" => UsesArg2(o.op)
     /\ a = "arg0" => o.op = "ternary"}

-----------------------------------------------------------------------------
\* The two channels as D3D8 runs them: each ends at its own first disabled
\* operation; a color operation whose texture is missing counts as disabled, an
\* alpha operation then reads the diffuse color.
Runs(s, c, i) ==
  \A j \in 0 .. i : /\ s.ts[j][c].op # "disable"
                    /\ c = "color" => ~Lacks(s, j, s.ts[j].color)
MeantOperations(s, c) ==
  {<<i, IF c = "color" THEN s.ts[i].color ELSE AlphaKey(s, i)>> :
     i \in {j \in Stages : Runs(s, c, j)}}

\* A small set of operations per channel that has every kind.
ColorChoices ==
  {Operation("disable", "texture", "diffuse", "diffuse"),
   Operation("select1", "texture", "diffuse", "diffuse"),
   Operation("select2", "texture", "diffuse", "diffuse"),
   Operation("binary", "diffuse", "texture", "diffuse"),
   Operation("ternary", "diffuse", "diffuse", "texture")}
AlphaChoices ==
  {Operation("disable", "texture", "diffuse", "diffuse"),
   Operation("select1", "texture", "diffuse", "diffuse"),
   Operation("binary", "texture_modified", "texture", "diffuse")}
StageCases ==
  [kind : {"stages"},
   ts : [Stages -> [color : ColorChoices, alpha : AlphaChoices]],
   textured : {[i \in Stages |-> i < n] : n \in 0 .. kMaxTexStages}]

IsStages == given.kind = "stages"

\* The generated shader runs the game's color operations exactly, and its alpha
\* operations for as long as the color channel lasts (PixelShaderState's
\* constructor, CreatePixelShaderFromState); and it uses no value of a texture
\* that is not bound, except through arg0 and through modified arguments, which
\* PixelShaderState does not look at.
StagesAreTranslated ==
  IsStages =>
    LET key == PixelShaderState(given)
    IN /\ Applied(key, "color") = MeantOperations(given, "color")
       /\ Applied(key, "alpha") = {m \in MeantOperations(given, "alpha") : Runs(given, "color", m[1])}
       /\ \A c \in Channels : \A a \in Applied(key, c) : \A arg \in Samples(a[2]) \ {"arg0"} :
            a[2][arg] = "texture" => StageHasTexture(given, a[1])
==============================================================================
