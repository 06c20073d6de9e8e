SPECIFICATION CatalogSpec
CONSTANTS
  a = a
  b = b
  Contents = {a, b}
  MaxGen = 3
INVARIANT AtMostOneAhead
PROPERTY ServedAdvances
