\* A member marks a recipient while the batch is sent.
SPECIFICATION CampaignSpec
CONSTANTS
  Recipients = {r1, r2}
  MaxRecipients = 2
  Batches = {b1}
  Adders = {m1}
  Editors = {d1}
  Modes = {"send_on_execution"}
  WritesMayFail = FALSE
  Nobody = Nobody
INVARIANTS AcknowledgedHasTask
CHECK_DEADLOCK FALSE
