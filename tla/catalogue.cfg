SPECIFICATION Spec
CONSTANTS
  c1 = c1
  c2 = c2
  Callers = {c1, c2}
  Menu <- MCMenu
  EventMenu <- MCEventMenu
  Labels = {l1}
  Times = {1, 2}
  Page = 2
  Limit = 2
  MaxEvents = 3
INVARIANTS
  LabelsPoint
  NotifiedEvent
  OutputAgrees
  LiveIsJustified
  TimeAnswers
  ScanLikeQuery
