SPECIFICATION ReportsSpec
CONSTANTS
  QAs = {q1, q2}
  Leaders = {l1, l2}
  Superuser = Superuser
  NoReview = NoReview
  Nobody = Nobody
  MaxReserved = 2
  MaxActions = 6
  Unscored = Unscored
  NoBound = NoBound
  Attributes = {"team"}
  Values = {"north"}
  fa = fa
  fb = fb
  b1 = b1
  b2 = b2
  u1 = u1
  u2 = u2
  g1 = g1
  k1 = k1
  k2 = k2
  j1 = j1
  j2 = j2
  Firms = {fa, fb}
  Branches = {b1, b2}
  Users = {u1, u2}
  Teams = {g1}
  Dialers = {k1, k2}
  Projects = {j1, j2}
  Admins = {a1, a2}
  Busy = {}
  NoOne = NoOne
  Kept = Kept
  NoRequest = NoRequest
  MaxRequests = 3
  DialerOf <- MCDialerOf
  FirstFirm <- MCFirm
  FirstAccount <- MCAccount
  FirstTeam <- MCTeam
  FirstDialer <- MCDialer
  FirstAssigned <- MCAssigned
  ha = ha
  hb = hb
  xa1 = xa1
  xa2 = xa2
  xb1 = xb1
  xb2 = xb2
  Headings = {ha, hb}
  Criteria = {xa1, xa2, xb1, xb2}
  HeadingOf <- MCHeadingOf
  Maximum <- MCMaximum
  Marks <- MCMarks
  Intervals <- MCIntervals
  Duration = 3
  Tolerance = 1
  LastMoment = 100
  MaxPatches = 3
  NoMark = NoMark
  NoScore = NoScore
  Unset = Unset
SYMMETRY Interchangeable
INVARIANTS
  ReturnedTogether
  StampsAgree
  LeaderNoticeFits
  CardsMatchLists
  OrganisationCoherent
  ScopesAgree
  ReportIsWhole
  RatingIsFair
PROPERTIES
  SubmittedKept
CHECK_DEADLOCK FALSE
