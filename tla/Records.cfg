\* Three tasks, drafts or recipients; see README for the other bounds.
SPECIFICATION RecordsSpec
CONSTANTS
  x1 = x1  x2 = x2  x3 = x3
  Tasks = {x1, x2, x3}
  Requests = {q1}
  Changes <- OneField
  MaxDue = 2
  ScanLimit = 3
  Keep = Keep
  OpenEditors = {e1}
  Drafts = {x1, x2, bad}
  Unfit = {bad}
  MaxVersion = 4
  MaxLate = 1
  Shaky = {e1}
  None = None
  Garbled = Garbled
  b1 = b1  b2 = b2  m1 = m1  m2 = m2  d1 = d1
  Nobody = Nobody
  Recipients = {x1, x2, x3}
  MaxRecipients = 2
  Batches = {b1, b2}
  Adders = {m1, m2}
  Editors = {}
  Modes = {"draft_only", "send_on_execution"}
  WritesMayFail = TRUE
  Invoices = {i1, i2}
  Keys = {k1, k2}
  InvoiceCurrencies = {"usd", "eur"}
  MaxInvoice = 2
  AsIs = AsIs
  Members = {m1, m2}
  Splits <- SomeSplits
  Currencies = {"usd", "eur"}
  MaxMinor = 2
  Events = {v1}
  Expenses = {c1, c2}
  Nowhere = Nowhere
  Chunks = 3
  MaxPolls = 3
SYMMETRY RowSymmetry
CHECK_DEADLOCK FALSE
INVARIANTS
  Acyclic PrerequisitesHold PitchedOnce
  InvoiceTellsPayments FinalBooksBalance
  PublishIsTrue SignalsAgree CompletedMeansExecuted
PROPERTIES
  DraftsSurvive
