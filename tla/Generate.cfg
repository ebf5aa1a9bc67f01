\* Documents, answers of the web and requests, each to its end.
CONSTANTS
  Upper <- UpperTexts
  Components <- Resolved
  ValidMethods = {"GET", "POST", "PUT", "DELETE", "PATCH", "OPTIONS", "HEAD", "TRACE"}
  KeyOrder <- Keys
  KeyWords <- WordsOfKeys
  NumberOf <- Numbers
  Digits <- HeaderDigits
  JsonType <- TypeOf
  Capitals <- PathCapitals
  Mentions <- Said
  Extensions <- ExtensionList
  JunkSuffixes <- Junk
  Traversals <- UpAndOver
  Sources <- AllSources
  Hinting = {"api.json", "swagger.json"}
SPECIFICATION Spec
INVARIANTS
  FirstOperationWins
  EveryVisitAccounted
  ResultIsFirstFound
  NoChangeLost
  TenantSwapsStayGravest
  SeverityIsHighestWord
CHECK_DEADLOCK FALSE
