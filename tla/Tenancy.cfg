\* Leases, documents, inventory, memberships, sessions, lists, residents, owners, gateway.
SPECIFICATION Spec
CONSTANTS
  l1 = l1
  l2 = l2
  l3 = l3
  U1 = U1
  u1 = u1
  u2 = u2
  home1 = home1
  staff1 = staff1
  \* requests in flight
  Requests = {q1, q2}
  Uploads = {q1, q2}
  Editors = {q1, q2}
  Admissions = {q1, q2}
  Callers = {q1, q2}
  Visits = {q1, q2}
  \* leases
  Leases = {l1, l2, l3}
  AssetKeys = {k1}
  Items = {i1}
  Nobody = Nobody
  MaxVersion <- MCMaxVersion
  SequencedOutbox = TRUE
  \* documents
  Documents = {d1}
  Residents = {r1}
  Tenancies = {t1}
  Sites = {h1}
  NoSite = NoSite
  AtomicPut = TRUE
  \* inventory
  Properties = {P1}
  Buildings = {}
  Units = {U1, U2}
  Beds = {b1}
  Codes = {c1}
  Organization = Organization
  NoBuilding = NoBuilding
  MaxRowVersion <- MCMaxRowVersion
  \* memberships
  People = {u1, u2}
  Invites = {i1}
  NoUser = NoUser
  RoleLists <- MCRoleLists
  MaxReplacements <- MCMaxReplacements
  \* sessions
  SessionIds = {s1, s2}
  RefreshTokens = {t1, t2}
  Challenges = {g1}
  MaxTokenVersion = 2
  \* lists
  NumRows = 3
  MaxRank = 2
  Limit = 1
  MaxChanges = 2
  ListsWalked <- KeysetLists
  \* residents
  Persons = {p1}
  ContactValues = {c1}
  Identifiers = {id1}
  HashOf <- MCHashOf
  Held = {}
  Staff = {staff1}
  OverrideStaff = {staff1}
  Reach <- MCReach
  NoHome = NoHome
  Entries = {e1}
  Drafts = {l1}
  Parties <- MCParties
  Flags = {f1, f2}
  Desks = {q1, q2, q3}
  \* owners
  Owners = {p1, p2}
  Holdings = {h1, h2}
  Agreements = {a1, a2}
  Grants = {n1}
  Estates = {e1}
  Members = {staff1}
  OrgWide = {staff1}
  Shares = {500000, 500001}
  NumDays = 2
  Overlapping = FALSE
  \* gateway
  Users = {staff1}
  Orgs = {g1, g2}
  NoOrg = NoOrg
  Home = g1
  CustomKeys = {"finance.billing_run.preview"}
  RoleSets <- MCRoleSets
  MaxRightsChanges = 1
INVARIANTS
  TenancyTypeOK
  LeasesSafe
  ListedIsDownloadable
  RolesEarned
  SessionsSafe
  WalkComplete
  InterestsFit
  HandledWasAllowed
  ClientsFit
PROPERTY
  FlagsSeenBlock
CONSTRAINT InterestsInScope
SYMMETRY RequestSymmetry
\* bounds on versions, changes and requests stop every part
CHECK_DEADLOCK FALSE
