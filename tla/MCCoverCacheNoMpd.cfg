CONSTANTS
  a = a
  b = b
  Albums <- MCAlbums
  Entries <- MCEntries
  Nothing = Nothing
SPECIFICATION Spec
CHECK_DEADLOCK FALSE
INVARIANT NoneHasNoArt
