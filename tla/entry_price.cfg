CONSTANTS
  CaseRequests = {g}
  Bookings = {b1}
  Swept = {}
  MaxPersons = 1
  FeeEntries = {"single", "multiple"}
  MaxAttempts = 1
  MaxBills = 1
  Operators = {}
  Assigners = {}
  MaxDays = 0
  MaxCaseFaults = 0
  CaseOffers = {{"create", "addApplicant", "submit", "pay"}}
SPECIFICATION CaseSpec
CHECK_DEADLOCK FALSE
INVARIANT
  ChargedTheEntryPrice
