CONSTANTS
  t1 = t1
  t2 = t2
  d1 = d1
  d2 = d2
  Users = {u1, u2}
  Devices = {d1, d2}
  Tabs = {t1, t2}
  Keys = {k1}
  DeviceOf <- TabPerDevice
  Pushes = {1}
  Nothing = Nothing
  MaxEdits = 2
  MaxLogins = 2
  MaxFaults = 1
SPECIFICATION FairSpec
INVARIANTS BaseWasOnServer AccountsStayApart
PROPERTIES UnsentChangesSurvive Converges
