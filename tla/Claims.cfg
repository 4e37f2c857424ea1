\* Two executors for a send batch of two and for a hold, a mistaken and an honest
\* observer; three deliveries of one event; two scans over two periods of briefs.
SPECIFICATION ClaimsSpec
CONSTANTS
  mail = mail  hold = hold  o1 = o1  o2 = o2  r1 = r1
  Approvals = {mail, hold}
  ActionOf <- Kind
  Recommendations = {r1}
  NoRecommendation = NoRecommendation
  RecOf <- Prepared
  Keyed = {hold}
  CallsOf <- Calls
  Executors = {e1, e2}
  Observers = {o1, o2}
  Keys = {k1, k2}
  NoApproval = NoApproval
  SlowProviders = FALSE
  ReadMayFail = TRUE
  MistakenHumans = {o1}
  Deliveries = {d1, d2, d3}
  MaxFailures = 3
  Nobody = Nobody
  Workers = {w1, w2}
  Owners = {m1}
  Members = {m2}
  MaxPeriods = 2
  MaxEdits = 1
  MaxFaults = 1
  NoPeriod = 0
  NoClaim = nobody
CHECK_DEADLOCK FALSE
INVARIANTS
  OneAttempt OneConclusion CountsMatchStages KnownEffectKept NoContradictoryReceipt
  UnknownReceiptIsTrue
  AppliedOnce AckedIsApplied OneHandler BriefedOnce
PROPERTIES
  ConclusionFreezes OutcomeIsKept RefinesOneShot AttemptResolves EventDelivered DueIsBriefed
