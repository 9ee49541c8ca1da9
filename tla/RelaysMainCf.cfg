\* One change of the SMTP integrator, nothing fails.
SPECIFICATION Spec
CONSTANTS
  Offers <- PlainOffers
  MaxLines = 8
  MaxChanges = 1
  MaxFaults = 0
INVARIANT OtherLinesKept
CHECK_DEADLOCK FALSE
