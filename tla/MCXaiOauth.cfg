SPECIFICATION Spec
CONSTANTS
  chat1 = chat1
  chat2 = chat2
  poll = poll
  Chat = {chat1, chat2}
  Poll = {poll}
  MaxTokens = 2
INVARIANTS
  NoReplay
PROPERTIES
  OnlyWornRefreshed
  KeepsLiveTokens
  CallsEnd
