--------------------------- MODULE MCTextureContents ---------------------------
(* An instance of TextureContents for TLC. *)
EXTENDS TextureContents, TLC

MCLevels == [t \in System \cup Managed \cup Default |-> IF t \in Managed THEN 1 ELSE 2]
Colours == Permutations(Values)
=============================================================================
