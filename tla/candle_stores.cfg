SPECIFICATION FairSpec
CONSTANTS
  Timeframes = {"5m", "1h"}
  Order <- MCOrder
  Interval <- MCInterval
  Published <- MCPublished
  PageLimit = 2
  Sources <- MCSources
  Starts = {0, 1}
  Retries = 1
  MaxNow = 5
  MaxAhead = 0
  MaxKills = 1
INVARIANTS
  StoredCandlesAreFinal
  ManifestTellsTheGaps
  ReadableUnlessKilled
PROPERTIES
  KeepsTheCandleLog
  FetchEnds
