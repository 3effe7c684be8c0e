CONSTANTS
  e1 = e1
  c1 = c1
  c2 = c2
  t1 = t1
  Entries <- One
  MalIds <- Known
  Calls <- OneCall
  Retriers <- Retrying
  BatchLimit = 2
  MaxChanges = 3
SPECIFICATION Spec
INVARIANTS
  TypeOK
  SavedChangesArrive
PROPERTIES
  OnlyTheWantedIsSent
