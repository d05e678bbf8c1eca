SPECIFICATION MCSpec
CONSTANTS
  Tabs = {t, u}
  States = {s1, s2}
  OneTab = t
  OneState = s1
  NoState = NoState
  Executions = {1, 2}
  MaxWire = 2
  None = None
INVARIANT OnlyTheSelectedStreams
PROPERTIES SignInCountsOnce RefusalIsExplained BadgeGoesBackOnlyWhenTheyCross StreamsEnd
