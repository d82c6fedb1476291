\* Five lines: two entries with an option between, a skipped one before another.
SPECIFICATION Spec
CONSTANTS
  Headers = {referer, cookie}
  OptHeaders = {referer}
  MaxLines = 5
INVARIANT EntriesAreAsDeclared
