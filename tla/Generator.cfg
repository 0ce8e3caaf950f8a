SPECIFICATION Spec
CONSTANTS
  Names = {"a", "b"}
  Tables = {"T", "U"}
  NoName = "none"
  Types = {"LONG", "STRING", "UNKNOWN"}
  MaxFiles = 3
  MaxDecls = 5
INVARIANTS TypeOK InsertLinesUp TableAsDeclared StubComplete
