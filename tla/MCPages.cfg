SPECIFICATION PagesSpec
CONSTANTS
  Case = {k1}
  Owner = owner
  Admin = admin
  Specialist = {s1, s2}
  Reader = {}
  Slot = {r1, r2}
  MaxMessages = 2
  PageTake = 500
  PageScenarios <- MCPageScenarios
  ChatClient = {"u1", "u2"}
  ChatTake = 1
  MaxAsk = 4
  ChatScenarios <- MCChatScenarios
  Purchase = {p1}
  MaxPolls = 2
  ReturnScenarios <- MCReturnScenarios
INVARIANT SeenMessagesStay
PROPERTIES
  RecipientsAreNotified
  BadgeClears
  ChatCatchesUp
  ReturnIsAnswered
CHECK_DEADLOCK FALSE
