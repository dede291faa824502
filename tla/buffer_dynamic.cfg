CONSTANTS
  Size = 3
  NumBackBuffers = 2
  MaxFrame = 3
  MaxWrites = 3
  MaxDraws = 1
  HabitSets = {
    {"append first", "plain"},
    {"relock", "undrawn"}}
SPECIFICATION Spec
INVARIANTS
  WrongReadsAreRaces
  PersistedWhenIdle
  CopiesStayInsideWithoutRelock
  DrawnBufferOutlivesCommands
CHECK_DEADLOCK FALSE
