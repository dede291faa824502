----------------------------- MODULE ShaderTokens -----------------------------
(***************************************************************************)
(* From the tokens of a vs.1.x or ps.1.x program to HLSL statements        *)
(* (shader_parser.cpp).  A token is a record that says what it would be    *)
(* read as: an opcode, or a parameter.  Statements keep what they assign   *)
(* from what; their text is left out, except where a component's way       *)
(* through write mask and swizzle is followed.                             *)
(***************************************************************************)
EXTENDS Naturals, SequencesExt, TranslationCase

Unary == {"mov", "rcp", "rsq"}
Binary == {"add", "sub", "mul", "sge", "dp3", "dp4", "min", "max"}
Ternary == {"mad", "lrp"}
Sources(op) == CASE op \in Unary -> 1 [] op \in Binary -> 2 [] op \in Ternary -> 3
                 [] OTHER -> 0
HasDest(op) == op \in Unary \cup Binary \cup Ternary \cup {"tex"}

Opcode(op) == [is |-> op]
CommentToken(n) == [is |-> "comment", size |-> n]
EndToken == [is |-> "end_of_program"]

\* Parameters.  A register is refused (FAIL), or its number asserted on, when it
\* is not one of these.
DestRegisters(op) ==
  {<<"temp", n>> : n \in 0 .. 11} \cup {<<"rastout", 0>>, <<"rastout", 1>>}
  \cup {<<"attrout", n>> : n \in 0 .. 1} \cup {<<"texcrdout", n>> : n \in 0 .. 7}
  \cup (IF op = "tex" THEN {<<"addr", n>> : n \in 0 .. 3} ELSE {<<"addr", 0>>})
SourceRegisters ==
  {<<"temp", n>> : n \in 0 .. 11} \cup {<<"input", n>> : n \in 0 .. 15}
  \cup {<<"const", n>> : n \in 0 .. 95} \cup {<<"addr", n>> : n \in 0 .. 3}
  \cup {<<"attrout", n>> : n \in 0 .. 1} \cup {<<"texcrdout", n>> : n \in 0 .. 7}
  \cup {<<"rastout", 0>>, <<"rastout", 1>>}
Modifiers == {"none", "neg", "bias", "biasneg", "sign", "signneg", "comp", "x2", "x2neg"}
DestAccepted(op, t) == t.register \in DestRegisters(op)
SourceAccepted(t) == t.register \in SourceRegisters /\ t.modifier \in Modifiers
                     /\ (t.relative => t.register[1] # "addr")

\* What one opcode makes of the tokens after it: its statement, and where the
\* next opcode is.
Statement(w, i) ==
  LET op == w[i].is
      n == Sources(op)
  IN [op |-> op, dest |-> w[i + 1], sources |-> SubSeq(w, i + 2, i + 1 + n)]
StatementAccepted(s) ==
  DestAccepted(s.op, s.dest) /\ \A k \in DOMAIN s.sources : SourceAccepted(s.sources[k])

CommentRead(w, i) == i + 1  \* fault: the comment's own words are read as opcodes
CommentSkipped(w, i) == i + 1 + w[i].size

\* ParseShader.  A NOP is followed by its write mask and a semicolon like any
\* statement, which is no statement of HLSL: the compiler refuses it.
RECURSIVE Statements(_, _, _)
Statements(w, i, done) ==
  LET op == w[i].is
  IN CASE op = "end_of_program" -> [statements |-> done, at |-> i + 1, failed |-> FALSE]
       [] op = "comment" -> Statements(w, CommentSkipped(w, i), done)
       [] HasDest(op) /\ StatementAccepted(Statement(w, i)) ->
            Statements(w, i + 2 + Sources(op), Append(done, Statement(w, i)))
       [] OTHER -> [statements |-> done, at |-> i, failed |-> TRUE]
ParseShader(w) == Statements(w, 2, <<>>)

\* ParseProgrammableVertexShader, ParsePixelShader: the copy kept for
\* GetVertexShaderFunction and GetPixelShaderFunction.
FunctionTokens(w) == SubSeq(w, 1, ParseShader(w).at - 1)
\* CopyOutTokenBuffer, for a caller with room for n words.
CopyOutTokenBuffer(tokens, n) == SubSeq(tokens, 1, IF n < Len(tokens) THEN n ELSE Len(tokens))

-----------------------------------------------------------------------------
\* Components are numbered 0 .. 3.  The destination is written with the mask's
\* components named in order; the expression has the mask's components picked
\* out of it, unless the mask is full; a source's component is the one its
\* swizzle has at that place.
InOrder(mask) == SetToSortSeq(mask, <)
EmitWriteMask(mask) == IF mask = 0 .. 3 THEN <<0, 1, 2, 3>> ELSE InOrder(mask)
Assigned(mask, swizzle) ==
  {<<InOrder(mask)[k], swizzle[EmitWriteMask(mask)[k]]>> : k \in DOMAIN InOrder(mask)}

-----------------------------------------------------------------------------
Dest(type, n) == [is |-> "parameter", register |-> <<type, n>>]
Source(type, n, m, rel) ==
  [is |-> "parameter", register |-> <<type, n>>, modifier |-> m, relative |-> rel]
\* A comment may hold anything, the end of a program included.
Comments == {<<CommentToken(1), EndToken>>,
             <<CommentToken(2), Opcode("nop"), Opcode("mov")>>, <<CommentToken(0)>>}
Instructions ==
  {<<Opcode("mov"), d, s>> : d \in {Dest("temp", 0), Dest("addr", 0), Dest("rastout", 0)},
                             s \in {Source("const", 95, "none", TRUE), Source("input", 3, "comp", FALSE)}}
  \cup {<<Opcode(op), Dest("attrout", 1), Source("temp", 11, "neg", FALSE), Source("const", 0, "x2", FALSE)>> :
          op \in {"add", "sge", "dp3"}}
  \cup {<<Opcode(op), Dest("texcrdout", 7), Source("addr", 3, "bias", FALSE), Source("temp", 0, "none", FALSE),
          Source("input", 15, "sign", FALSE)>> : op \in Ternary}
  \cup {<<Opcode("tex"), Dest("addr", 3)>>}
Refused ==
  {<<Opcode("nop")>>, <<Opcode("slt"), Dest("temp", 0)>>,
   <<Opcode("mov"), Dest("rastout", 2), Source("temp", 0, "none", FALSE)>>,
   <<Opcode("mov"), Dest("addr", 1), Source("temp", 0, "none", FALSE)>>,
   <<Opcode("mov"), Dest("temp", 0), Source("temp", 0, "dw", FALSE)>>}
ProgramCases ==
  [kind : {"program"}, items : SeqOf(Instructions \cup Comments \cup Refused, 2)]
MaskCases ==
  [kind : {"mask"}, mask : SUBSET (0 .. 3) \ {{}}, swizzle : [0 .. 3 -> 0 .. 3]]

Tokens(items) == <<Opcode("version")>> \o FlattenSeq(items) \o <<EndToken>>

\* A program's instructions come out one by one, with their own operands,
\* whatever the comments between them hold, and what is kept of it for the game
\* to read back is the program, no more and no less; a program with an
\* instruction that is not supported does not get through.  A statement assigns
\* the components of its write mask and no others, each from the component its
\* own place of the swizzle names (ParseGenericDestinationParamToken,
\* ParseSourceParamToken, EmitWriteMask).
ProgramsAreRead ==
  /\ given.kind = "mask" =>
       Assigned(given.mask, given.swizzle) = {<<c, given.swizzle[c]>> : c \in given.mask}
  /\ given.kind = "program" =>
    LET items == given.items
        w == Tokens(items)
        real == SelectSeq(items, LAMBDA x : x \notin Comments)
    IN IF \E k \in DOMAIN items : items[k] \in Refused THEN ParseShader(w).failed
       ELSE /\ ParseShader(w).statements =
                 [k \in DOMAIN real |-> [op |-> real[k][1].is, dest |-> real[k][2],
                                         sources |-> SubSeq(real[k], 3, Len(real[k]))]]
            /\ CopyOutTokenBuffer(FunctionTokens(w), Len(w)) = w
==============================================================================
