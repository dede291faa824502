CONSTANT
  kMaxTexStages = 3
SPECIFICATION Spec
INVARIANTS
  EveryReadIsAnnounced
  StagesAreTranslated
  DeclarationsAreRead
  ProgramsAreRead
  TexturesAreMadeAndFilled
  PrimitivesAreDrawn
  SettingsSurviveARestart
