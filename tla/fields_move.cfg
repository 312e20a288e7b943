CONSTANTS
  CatRequests = {g, h}
  Templates = {t, u}
  SectionKeys = {"documents", "other"}
  FieldKeys = {"passport", "extra"}
  SystemHome <- MCSystemHome
  MaxSections = 3
  MaxFields = 3
  CatOffers <- MCCatOffers
  Nationalities = {a, b}
  Entries = {single}
  MaxCatFaults = 1
  SiteRequests = {g, h}
  Categories = {general, topic}
  SystemCategories = {general}
  Rescue = general
  Questions = {p}
  Articles = {a, b}
  Slugs = {s}
  MaxSingles = 2
  SiteOffers = {{}}
  OrderRequests = {g, h}
  Items = {i, j, k}
  MaxPlace = 2
  ListOffers <- MCListOffers
SPECIFICATION Spec
CHECK_DEADLOCK FALSE
PROPERTIES
  FieldsStayInTemplate
