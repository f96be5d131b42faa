SPECIFICATION Spec
CONSTANTS
  Hosts = {h1, h2}
  Proxies = {p1, p2}
  Blocks = {b1, b2}
  NULL = NULL
  MaxStanzas = 2
  MaxAttempts = 4
INVARIANTS EntriesSound EntryOfServer AskedTwice NamedProxy
PROPERTIES RequestEnds
CHECK_DEADLOCK FALSE
