CONSTANTS
  c1 = c1
  c2 = c2
  c3 = c3
  Types = {"person"}
  DefaultLimit = 2
  MaxLimit = 3
  PageLimits = {1, 4}
  MaxFetches = 2
  MaxIndex = 3
  All = All
  Failure = Failure
  NoRow = NoRow
  Nothing = Nothing
  Clips <- MCClips
  StartOf <- MCStartOf
  CameraOf <- MCCameraOf
  DayOf <- MCDayOf
SPECIFICATION Spec
CONSTRAINT TwoClipsFetched
INVARIANTS TypeOK LinksResolve SettledListMatches PagesMissNothing
