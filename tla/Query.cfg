SPECIFICATION Spec
CONSTANTS
  Columns = {"id", "name"}
  Comparisons = {"Eq", "Like"}
  NullTests = {"IsNull"}
  Values = {"v", "w"}
  NoValue = NoValue
  WhereOffset = 4
  SetOffset = 6
  MaxTerms = 4
INVARIANTS QueryInv SaysWhatWasAsked PreparedUnlessNullFirst MisuseIsRefused
