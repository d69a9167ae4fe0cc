CONSTANTS
  f1 = f1
  f2 = f2
  d1 = d1
  d2 = d2
  Full = 2
  MinAge = 2
  Debounce = 1
  Interval = 3
  ScanTime = 1
  MaxTime = 12
  ExportEnd = 2
  MaxFaults = 1
  Root = Root
  NoRow = NoRow
  Never = Never
  Nothing = Nothing
  Files <- MCFiles
  Folders <- MCFolders
  FolderOf <- MCFolderOf
  Unparseable <- MCUnparseable
SPECIFICATION Spec
INVARIANTS TypeOK RowsWhole IndexedInTime FoldersWatched
CHECK_DEADLOCK FALSE
