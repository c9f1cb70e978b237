SPECIFICATION Spec
CONSTANTS
  phoneA = phoneA
  first = first
  loop = loop
  e1 = e1
  e2 = e2
  e3 = e3
  Installations = {phoneA}
  Callbacks = {first}
  ReminderLoop = loop
  Levels = {0, 1, 3}
  SeverePercent = 1
  EnterPercent = 2
  RearmPercent = 3
  Messages <- MCCharging
  SnoozeDelay = 1
  Episodes = {e1, e2, e3}
  MaxOrphans = 1
  Faults = {}
PROPERTIES
  OneSevereAlertPerDescent
