SPECIFICATION Spec
CONSTANTS
  me = me
  bob = bob
  grp = grp
  news = news
  mega = mega
  Users = {me, bob}
  Chats = {grp}
  Channels = {news}
  Megagroups = {}
  Msgs <- HoleMsgs
  PeerId <- MCPeerId
  SendReadNotifications = TRUE
  MinIdIncluded = TRUE
  HistoryLimit = 2
  MemberCounts = {}
  MaxSessions = 2
CHECK_DEADLOCK FALSE
INVARIANT ChannelOrder
