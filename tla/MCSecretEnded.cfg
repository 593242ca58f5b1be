SPECIFICATION Spec
CONSTANTS
  Users = {"me", "u"}
  Groups = {"g"}
  Channels = {}
  SecretChats = {"e"}
  Self = "me"
  Partner <- MCPartner
  Numbers = {"me", "u", "g", "e"}
  Num <- MCNum
  Words = {"A"}
  Titles <- MCTitles
  NoPeer = NoPeer
  MaxNumber = 4
  MaxChanges = 1
  MaxSessions = 2
INVARIANT EndedForgotten
CHECK_DEADLOCK FALSE
