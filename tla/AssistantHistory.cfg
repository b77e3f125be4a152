CONSTANTS
  Messages = {m1, m2}
  MaxConversations = 1
  MaxFamilyRows = 1
  FactLimit = 1
SPECIFICATION AssistantSpec
INVARIANT ExchangesAreKept
