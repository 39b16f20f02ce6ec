SPECIFICATION Spec
CONSTANTS
  d1 = d1
  s1 = s1
  v1 = v1
  p1 = p1
  Turns = {t1, t2}
  Conversations = {d1, d2}
  Scopes = {s1, s2}
  Revoked = Revoked
  NoConversation = NoConversation
  Unlocked = Unlocked
  MaxScopeChanges = 2
  MaxExpiries = 1
  MaxKills = 1
  Workers = {w1, w2}
  Logins = {v1, v2}
  Passwords = {p1, p2}
  NoValue = NoValue
  MaxSaves = 1
  MaxFaults = 1
  MaxAccounts = 4
  e1 = e1
  e2 = e2
  y1 = y1
  y2 = y2
  o1 = o1
  Leaders = {e1, e2}
  Dialers = {y1, y2}
  Places = {o1}
  Nothing = Nothing
  Contracts <- MCContracts
  MaxRounds = 2
  MaxCalls = 5
  MaxBatch = 2
  MaxActive = 4
  MaxSelected = 1
  lea = lea
  dep = dep
  boss = boss
  report = report
  teams = teams
  news = news
  People = {lea, dep, boss}
  StaffOf <- MCStaffOf
  Notices = {report, teams, news}
  CategoryOf <- MCCategoryOf
  RecipientsOf <- MCRecipientsOf
  Announcements <- MCAnnouncements
  MaxCommits = 3
  MaxReloads = 1
  MaxMarks = 1
  Browsers = {b1, b2}
  SignedOut = SignedOut
  NoPicture = NoPicture
  NoWork = NoWork
  NoLink = NoLink
  MaxPasswords = 2
  MaxPictures = 2
  MaxAdminSaves = 1
PROPERTIES
  ResetTakesEffect
CHECK_DEADLOCK FALSE
