SPECIFICATION SpaceSpec
CONSTANTS
  Spaces <- Shapes
  Enumerations = {0, 1, 2, 3, 5, 6, 12, 13}
  Proposals <- Asked
  MaxProduct = 13
  MaxCount = 13
  MaxReserve = 12
INVARIANT AnswersAreSound
CHECK_DEADLOCK FALSE
