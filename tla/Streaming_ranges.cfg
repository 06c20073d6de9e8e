SPECIFICATION StreamSpec
CONSTANTS
  Sources = {s1, s2}
  Parts = 3
  Gone = gone
  MaxVersion = 3
INVARIANT OneVersion
