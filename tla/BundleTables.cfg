SPECIFICATION Spec
CONSTANTS
  Thread = {Main, Worker}
  File = {Bundle, Text, Gone}
  Openable = {Bundle, Text}
  Tagged = {Bundle}
  Output = Output
  Handle = {h1, h2, h3, h4, h5}
  None = None
  TakeTurns = TRUE
INVARIANTS
  TypeOK
  HandlesOwned
