SPECIFICATION Spec
CONSTANTS
  Thread = {1}
  Handle = {1, 2}
  Entries = 3
  NameOf <- MCNameOf
  Size <- MCSize
  Final <- MCFinal
  BuiltIn = {2}
  Undecodable = {}
  Absent = "x"
  MaxRead = 2
  ReadFirst = TRUE
INVARIANTS
  TypeOK
  OwnContent
  LocateFinds
PROPERTIES
  ImplementsResourceReader
