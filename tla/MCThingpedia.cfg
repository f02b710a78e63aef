SPECIFICATION Spec
SYMMETRY ReqSymmetry
CONSTANTS
  None = None
  weather = weather
  base = base
  root = root
  dev = dev
  trusted = trusted
  other = other
  k1 = k1
  k2 = k2
  Kinds = {k1, k2}
  Users = {root, dev, trusted, other}
  OrgOf <- MCOrgOf
  Admins = {root}
  Trusted = {trusted}
  RootOrg = "org1"
  TagForm <- MCTagForm
  Uploads <- MCUploads
  Imports <- MCImports
  BaseEntities = {base}
  StringTypes = {}
  Languages = {"it"}
  Reqs = {r1, r2}
  r1 = r1
  r2 = r2
  MaxVersion = 1
  MaxId = 2
  MaxSnapshots = 1
  MaxTranslations = 1
INVARIANTS
  TypeOK
  NoUnapprovedCode
  RowsConsistent
PROPERTIES
  SnapshotImmutable
