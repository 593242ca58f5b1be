SPECIFICATION FairSpec
CONSTANTS
  me = me
  bob = bob
  grp = grp
  news = news
  mega = mega
  Users = {me, bob}
  Chats = {grp}
  Channels = {news}
  Megagroups = {}
  Msgs <- HoleMsgs
  PeerId <- MCPeerId
  SendReadNotifications = TRUE
  MinIdIncluded = TRUE
  HistoryLimit = 2
  MemberCounts = {}
  MaxSessions = 2
INVARIANTS
  ChannelLoadedFirst
  LoadAlive
  LastServerIdCovers
PROPERTIES
  PrintsLog
CHECK_DEADLOCK FALSE
