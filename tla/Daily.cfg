\* Two days of alerts; two members, chats and tokens; two days of jobs; two
\* imports; three ticks of a show day; two questions to the Manager; two versions
\* of a show with three approvals; briefs of every pair of matters.
SPECIFICATION Spec
SYMMETRY Tabs
CONSTANTS
  Workers = {w1, w2}  Days = {1, 2}  ScanSignals = {"overdue_cluster"}  MaxPatches = 1
  Chats = {c1}  NoChat = NoChat
  Requests = {r1, r2}  Hooks = {h1, h2}  Tokens = {t1, t2}  NoToken = NoToken
  Senders = {c1, c2}  Unlinked = Unlinked
  Versions = {i1, i2}  MaxAttempts = 2  MaxPrepared = 3  Preparers = {o1}  NoHold = Nil
  Consumers = {w1, w2}  Operators = {o1}  Occurrences = {e1}  Invites = {i1}
  Repeating = {"overdue", "weekly"}  MaxDays = 2  DaysPerWeek = 2  MaxJobs = 3  MaxStalls = 1
  Calls = {q1, q2}  Legacy = o1  Started = {"new", "bound", "unbound", "note"}
  Questions = {{"remember"}, {"follow_up"}, {}, {"feedback", "event"}, {"secret"}, {"feedback"}, {"task"}, {"write"}, {"desk"}}
  HistoryTake = 3  PageTake = 4  ScanLimit = 3  MaxByHand = 2
  q1 = q1  q2 = q2  w2 = w2
  o1 = o1  i1 = i1  i2 = i2  a = a  b = b  c = c  Nil = Nil
CHECK_DEADLOCK FALSE
INVARIANTS AlertedOnce TokenLinksOnce HoldsAccountedFor ToldOnce CatalogKept ChatPrivate BriefKept
PROPERTIES ShowKept
