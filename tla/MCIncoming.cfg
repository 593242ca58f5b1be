SPECIFICATION Spec
CONSTANTS
  me = me
  bob = bob
  grp = grp
  news = news
  mega = mega
  Users = {me, bob}
  Chats = {grp}
  Channels = {mega}
  Megagroups = {mega}
  Msgs <- MixedMsgs
  PeerId <- MCPeerId
  SendReadNotifications = TRUE
  MinIdIncluded = TRUE
  HistoryLimit = 2
  MemberCounts = {0, 1}
  MaxSessions = 1
INVARIANTS
  TypeOK
  FirstInFirstOut
  PendingExact
  HeadWaits
  NamesBeforeChat
  ReceiptDebt
CHECK_DEADLOCK FALSE
