SPECIFICATION ParseSpec
CONSTANTS
  Documents <- MCDocuments
  Decoded <- MCDecoded
  Origin = origin
  Number <- MCNumber
  Blank = blank
  None = none
CHECK_DEADLOCK FALSE
INVARIANT ReadsWhatIsWritten
