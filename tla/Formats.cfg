CONSTANTS
  Base = 4
  Word = 1024
  MaxGroups = 6
  MaxDepth = 2
  Now = 11
  MaxLog = 2
  Raised = Raised
  Absent = Absent
  NoFile = NoFile
  Entries <- MCEntries
  Unknown <- MCUnknown
  Foreign <- MCForeign
SPECIFICATION Spec
CHECK_DEADLOCK FALSE
INVARIANTS
  TypeOK
  EntrySurvives
  UnknownFields
  PlainKept
  NeverReencoded
PROPERTIES
  RestartSaves
