CONSTANTS
  AdminRequests = {g, h}
  Users = {root, ann}
  Root = root
  Roles = {super, role}
  SystemRoles = {super}
  SuperRole = super
  Keys = {superkey, k}
  SuperKey = superkey
  SystemKeys = {superkey}
  SeedKeys <- MCSeedKeys
  Perms = {p, q}
  SeedPerms = {p}
  MaxSessions = 2
  MaxTokens = 2
  MaxPasswords = 1
  MaxAdminFaults = 1
  AdminOffers <- MCAdminOffers
  PortalRequests = {g, h}
  MaxPerHour = 2
  MaxCodes = 2
  MaxPortalSessions = 2
  MaxPortalFaults = 1
  CaseRequests = {g, h}
  Bookings = {b1, b2}
  Swept = {b2}
  MaxPersons = 2
  FeeEntries = {single}
  MaxAttempts = 2
  MaxBills = 2
  Operators = {ann, bob}
  Assigners = {ann}
  MaxDays = 2
  MaxCaseFaults = 1
  CaseOffers <- MCCaseOffers
  FileRequests = {g, h}
  MaxFiles = 2
  MaxFileFaults = 1
  FileOffers <- MCFileOffers
  BackRequests = {g, h}
  MaxRows = 2
  CacheTTL = 1
  MaxClock = 2
  Letters = {n}
  Jobs = {j}
  MaxRetryCount = 1
  MaxRestarts = 1
  BackOffers <- MCBackOffers
  MailRequests = {g, h}
  TemplateRows = {r1, r2}
  MailSystemKeys = {"application", "raw_email"}
  OwnKeys = {"own"}
  InstalledKeys = {"application"}
  DefaultKeys = {}
  KeyOf <- MCKeyOf
  Addresses = {x, y}
  MaxCalls = 2
  MaxMailFaults = 1
  MailOffers <- MCMailOffers
  IssueRequests = {g, h}
  Travellers = {v, w}
  Mailboxes = {"x", "X", "y"}
  Plain <- MCPlain
  Account = "y"
  MaxVisas = 2
  MaxHour = 2
  MaxLinks = 1
  Verdicts = {"APPROVED", "REJECTED"}
  Day = 2
  MaxIssueFaults = 1
  IssueOffers <- MCIssueOffers
SPECIFICATION Spec
SYMMETRY MCSymmetry
CHECK_DEADLOCK FALSE
INVARIANTS
  TypeOK
  RootKeepsAccess
  PermissionsAgree
  SessionsAreCurrent
  HourlyBounded
  OneSessionPerCode
  OnlyNewestCode
  OneAmount
  RetriesAreRaces
  FilesBehindRows
  MaintenanceIsFresh
  RetriesBounded
  
  ReadyWhenAllIssued
  LinksAreGood
PROPERTIES
  ImplementsLetterLog
  RevokedForGood
