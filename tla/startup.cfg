\* A database with none, some or all of two columns, two commands beside the server.
SPECIFICATION LiveSpec
CONSTANTS
  usual = usual
  other = other
  c1 = c1
  c2 = c2
  Service = Service
  Command = {a, b}
  Path = {usual, other}
  Usual = usual
  Columns <- ColumnsIn
  Texts <- TextsIn
  Envs <- EnvsIn
  MaxEdits = 1
  MaxMishaps = 1
  None = None
  Broken = Broken
INVARIANT NoStrayDatabase
PROPERTY EventuallyServes
