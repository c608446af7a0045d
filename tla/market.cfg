SPECIFICATION Spec
CONSTANTS
  Prices = {10, 11, 13}
  TicksPerBar = 2
  OhlcvLimit = 4
  Settings <- MCSettings
  MaxMove = 2
  MaxTicks = 8
INVARIANTS
  UnflaggedIsCurrent
  NoRepaint
  IndicatorsInRange
  LevelsApart
