SPECIFICATION FairSpec
CONSTANTS
  n1 = n1
  n2 = n2
  n3 = n3
  c1 = c1
  c2 = c2
  Member = {n1, n2, n3}
  Conn = {c1, c2}
  Keys = {"news", "*"}
  Patterns = {"*"}
  Messages = {"news"}
  Home <- MCHome
  Matches <- MCMatches
  Max <- MCMax
PROPERTIES PublishReaches SubscriptionsEnd
CHECK_DEADLOCK FALSE
