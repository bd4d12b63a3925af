CONSTANTS
  a = a
  b = b
  Albums <- MCAlbums
  Entries <- MCEntries
  Nothing = Nothing
SPECIFICATION FairSpec
CHECK_DEADLOCK FALSE
INVARIANTS OwnersRight ToldTrue
PROPERTIES SettleLooksUpAll EveryCoverResolved
