\* A node and a lot; two outages, restarts or commands.
SPECIFICATION FeedSpec
CONSTANTS
  Device = {node}
  Lot = {crate}
  OfflineAfter = 2
  MaxBacklog = 1
  MaxChanges = 2
  MaxPolls = 2
  MaxEvents = 2
INVARIANT
  OnlineIsRecent
PROPERTIES
  SilenceShows
  LotsArrive
  SummaryCatchesUp
CHECK_DEADLOCK FALSE
