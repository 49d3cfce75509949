SPECIFICATION FairSpec
CONSTANTS
  Clients = {c1}
  Tasks = {t1, t2}
  MaxExtras = 1
  Careful = TRUE
  Fragile = TRUE
  None = None
INVARIANTS TypeOK BooksAgree ClientsServed
PROPERTY ClientsEnd
CHECK_DEADLOCK FALSE
