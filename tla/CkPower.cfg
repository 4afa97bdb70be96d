SPECIFICATION Spec
INVARIANTS
  TypeOK
  NewsOnItsWay
  NoLateWork
PROPERTIES
  ReportsInTheEnd
