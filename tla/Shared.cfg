SPECIFICATION SharedSpec
CONSTANTS
  a = a
  b = b
  c = c
  Key = {a, b, c}
  Limit = 2
  Slack = 1
  MaxTTL = 2
  MaxWrites = 5
  MaxClock = 2
  hub = hub
  echo = echo
  Other = {hub, echo}
  Closers = {hub}
  Refuses = TRUE
  Breaks = TRUE
  MaxCalls = 3
  user = user
  feed = feed
  fetch = fetch
  layout = layout
  page = page
  Handle = {user, feed}
  Call = {fetch}
  Clause = {layout, page}
  Setting <- All
INVARIANTS QueueIsSound AnswersAreLastWrites CloseFrameIsLast SomebodyTells AnswersAreOwn ClausesAgree
PROPERTIES IsEvictingStore FramesDoNotInterleave ServeEnds RenderedScopeIsFinal SettledWins EndedClausesLetGo
