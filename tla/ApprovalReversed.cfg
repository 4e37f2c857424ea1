\* One batch of drafts, whose executor cannot read back the row it committed.
SPECIFICATION Spec
CONSTANTS
  a1 = a1  a2 = a2  r1 = r1  e1 = e1  e2 = e2  e3 = e3  o1 = o1  o2 = o2  k1 = k1  k2 = k2
  Approvals = {a1}
  ActionOf <- DraftBatch
  Recommendations = {r1}
  NoRecommendation = NoRecommendation
  RecOf <- Alone
  Keyed = {}
  CallsOf <- TwoCalls
  Executors = {e1}
  Observers = {o1}
  Keys = {k1}
  NoApproval = NoApproval
  SlowProviders = FALSE
  ReadMayFail = TRUE
  MistakenHumans = {}
PROPERTIES OutcomeIsFinal
CHECK_DEADLOCK FALSE
