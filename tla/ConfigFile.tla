------------------------------ MODULE ConfigFile ------------------------------
(***************************************************************************)
(* The settings and the INI file they are read from when the DLL is loaded *)
(* and written back to when a mod has changed them (config.cpp).  A case   *)
(* is a session: the file as the player left it, and the settings mods     *)
(* change.  Two integer settings, one number and three booleans stand for  *)
(* the twenty-eight: every kind of rule between them is among these.  A    *)
(* number is counted in ten-millionths, a boolean is 0 or 1.               *)
(***************************************************************************)
EXTENDS Integers, SequencesExt, TranslationCase

kFields == <<"LightingMode", "TemporalAA", "RenderScale", "TemporalJitter",
             "MotionVectors", "MotionVectorDebug">>
Diagnostics == {"MotionVectorDebug"}                \* persist is false
Persistent == ToSet(kFields) \ Diagnostics
kHighestImplementedLightingMode == 1

Defaults == [LightingMode |-> 0, TemporalAA |-> 0, RenderScale |-> 10000000,
             TemporalJitter |-> 0, MotionVectors |-> 0, MotionVectorDebug |-> 0]

\* What a setter takes, and what it keeps of it.
Legal == [LightingMode |-> 0 .. 4, TemporalAA |-> 0 .. 2, RenderScale |-> 5000000 .. 10000000,
          TemporalJitter |-> 0 .. 1, MotionVectors |-> 0 .. 1, MotionVectorDebug |-> 0 .. 1]
Kept(key, value) ==
  IF key = "LightingMode" /\ value > kHighestImplementedLightingMode
  THEN kHighestImplementedLightingMode ELSE value

\* SetConfigValueInt, SetConfigValueFloat, SetConfigValueBool: the upscaler turns
\* its inputs on, the overlay does so with what it draws and goes with it.
SetConfigValue(config, key, value) ==
  LET set == [config EXCEPT ![key] = Kept(key, value)]
  IN CASE value \notin Legal[key] -> config
       [] key = "TemporalAA" /\ value # 0 -> [set EXCEPT !.TemporalJitter = 1, !.MotionVectors = 1]
       [] key = "MotionVectors" /\ value = 0 -> [set EXCEPT !.MotionVectorDebug = 0]
       [] key = "MotionVectorDebug" /\ value = 1 -> [set EXCEPT !.MotionVectors = 1]
       [] OTHER -> set

\* A line sets a key, or is a comment, a section or a key nobody knows.
Line(key, value) == [key |-> key, value |-> value]
ForeignLine == Line("other", 0)
Comment == Line("; Written by Dx8to12.", 0)

LoadConfig(file) ==
  FoldLeft(LAMBDA config, line : IF line.key \in ToSet(kFields) THEN SetConfigValue(config, line.key, line.value) ELSE config,
           Defaults, file)

\* CurrentValueAsString writes six digits of a number.
SixDigits(n) == ((n + 5) \div 10) * 10
CurrentValue(config, key) == IF key = "RenderScale" THEN SixDigits(config[key]) ELSE config[key]

\* SaveConfig writes the value into each line that sets a persistent key, and
\* adds those no line sets.
RewritesFirst(file, i) ==  \* fault: a line that sets a key again is left as it is
  file[i].key \in Persistent /\ \A j \in 1 .. i - 1 : file[j].key # file[i].key
Rewrites(file, i) == file[i].key \in Persistent
SaveConfig(config, file) ==
  LET Now(key) == Line(key, CurrentValue(config, key))
      missing == SelectSeq(kFields, LAMBDA key : key \in Persistent /\ \A i \in DOMAIN file : file[i].key # key)
  IN [i \in DOMAIN file |-> IF Rewrites(file, i) THEN Now(file[i].key) ELSE file[i]]
     \o IF missing = <<>> THEN <<>> ELSE <<Comment>> \o [i \in DOMAIN missing |-> Now(missing[i])]

\* MarkConfigDirty: a setter that changes a persistent setting asks for a save,
\* which happens when the process ends at the latest (FlushConfigIfDirty, forced
\* by DllMain).
Session(config, calls) ==
  FoldLeft(LAMBDA s, call :
             LET after == SetConfigValue(s.config, call.key, call.value)
             IN [config |-> after, dirty |-> s.dirty \/ \E k \in Persistent : after[k] # s.config[k]],
           [config |-> config, dirty |-> FALSE], calls)
FileAfter(session, file) == IF session.dirty THEN SaveConfig(session.config, file) ELSE file

-----------------------------------------------------------------------------
Lines == {ForeignLine}
  \cup {Line("LightingMode", v) : v \in {0, 3, 9}} \cup {Line("TemporalAA", v) : v \in {0, 2, 3}}
  \cup {Line("RenderScale", v) : v \in {6666667, 20000000}}
  \cup {Line(k, v) : k \in {"TemporalJitter", "MotionVectors", "MotionVectorDebug"}, v \in 0 .. 1}
Calls == {<<line>> : line \in Lines \ {ForeignLine}} \cup
         {<<Line("TemporalAA", 2), Line(k, 0)>> : k \in {"TemporalJitter", "MotionVectors"}} \cup
         {<<Line("MotionVectorDebug", 1), line>> : line \in Lines \ {ForeignLine}} \cup {<<>>}
SessionCases ==
  [kind : {"session"}, file : {<<a, b, c>> : a, b, c \in Lines} \cup {<<>>}, calls : Calls]

\* The settings a line of the file overrides again on the next start: the inputs
\* of the upscaler when it is on without them, which a mod can bring about, and
\* the motion vectors under an overlay the player has asked for in the file.
Overridden(config, file) ==
  (IF config.TemporalAA # 0 THEN {"TemporalJitter", "MotionVectors"} ELSE {})
  \cup IF \E i \in DOMAIN file : file[i] = Line("MotionVectorDebug", 1) THEN {"MotionVectors"} ELSE {}

\* A persistent setting is after a restart what it was before, six digits of it
\* if it is a number, whatever the file looked like, lines that set a key twice or
\* to a value refused included; saving again changes nothing; and the player's
\* other lines and diagnostics stay as they were (SaveConfig, LoadConfig).
SettingsSurviveARestart ==
  given.kind = "session" =>
    LET session == Session(LoadConfig(given.file), given.calls)
        file == FileAfter(session, given.file)
        restarted == LoadConfig(file)
    IN /\ \A key \in Persistent :
            \/ CurrentValue(restarted, key) = CurrentValue(session.config, key)
            \/ key \in Overridden(session.config, file) /\ restarted[key] = 1
       /\ session.dirty => SaveConfig(session.config, file) = file
       /\ \A i \in DOMAIN given.file :
            given.file[i].key \notin Persistent => file[i] = given.file[i]
==============================================================================
