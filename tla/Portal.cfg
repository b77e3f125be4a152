CONSTANTS
  Ticks = 4
  Home = 1
  FirstDay = 515
  LastDay = 517
  Offsets <- MCOffsets
  Form <- MCForm
  Request <- MCRequest
  Fields <- MCFields
  Vevent <- MCVevent
  GoogleZone = 2
  MaxRows = 2
  Dishes = {d1}
  Names = {soup, stew}
  Tags = {quick, cheap}
  Browsers = {b1, b2}
  Weeks = {0}
  PlanDates = {0, 7}
  FirstDate = 0
  LastDate = 1
  MaxMeals = 1
  Messages = {m1, m2}
  MaxConversations = 2
  MaxFamilyRows = 2
  FactLimit = 1
SPECIFICATION PortalSpec
INVARIANT PortalTypeOK
INVARIANT MealsOutliveDishes
INVARIANT DishIsOneEdit
INVARIANT AssistantKnows
INVARIANT ShownAsAsked
INVARIANT BadgeIsWeekly
INVARIANT MonthIsWhole
INVARIANT NextMonthFollows
PROPERTY ToggleKeepsDay
