CONSTANTS
  Tabs = {a, b}
  Calls = {c1, c2, c3}
  NoTab = NoTab
  NoCall = NoCall
  Turns = {t1, t2}
  Users = {u}
  MaxDay = 1
  OldOn <- MCOldOn
  NewcomerCap = 4
  EstablishedCap = 8
  PriceIn = 100
  PriceOut = 150
  MaxOutput = 1
  MaxBody = 8
  BodySizes = {8, 9}
  MaxTokens = 100
  Missing = Missing
  Reports <- MCReports
  NoReport = NoReport
SPECIFICATION AnswersSpec
INVARIANTS Exclusion LedgerTypeOK CapHeld HangUpNotFree LedgerAgrees SettleStorable
PROPERTIES EveryCallAnswered HangUpSettles LedgerImplements
CHECK_DEADLOCK FALSE
