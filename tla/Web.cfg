SPECIFICATION BoundedSpec
CONSTANTS
  a1 = a1
  a2 = a2
  b1 = b1
  p = p
  ann = ann
  bob = bob
  host = host
  page = page
  None = None
  Keys = {host, page}
  WindowMs = 1
  MaxRequests = 1
  Requests = {a1, a2, b1, p}
  KeyOf <- Addresses
  MaxLinks = 3
  MaxNow = 4
  Faults = 2
  Users = {ann, bob}
  First <- Firsts
  Second <- Seconds
INVARIANT WebTypeOK
INVARIANT AnswersTrue
INVARIANT ReportIsComplete
PROPERTY RefusedForCause
PROPERTY PublishHeals
PROPERTY HarnessEnds
CHECK_DEADLOCK FALSE
