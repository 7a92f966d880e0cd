CONSTANTS
  u1 = u1
  u2 = u2
  t1 = t1
  t2 = t2
  Users = {u1, u2}
  Tabs = {t1, t2}
  Nothing = Nothing
  MaxTokens = 2
  MaxEvents = 3
SPECIFICATION FairSpec
INVARIANTS TabsFollowStorage TokenIsTheUsers
PROPERTIES OldTabEndsNobody InvalidSessionsEnd
