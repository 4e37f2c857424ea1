\* Two requests in each component; the instances say which rows they race over.
SPECIFICATION RequestsSpec
CONSTANTS
  q1 = q1  q2 = q2  x1 = x1  x2 = x2  t1 = t1  t2 = t2
  ann = ann  bob = bob  n1 = n1  p1 = p1  Nobody = Nobody
  Targets = {t1, t2}
  Requests = {q1, q2}
  Edits <- OwnerEdits
  Replies = {"posted", "private_upload", "draft_only", "processing", "unknown", "failed"}
  MaxAccounts <- OneReconnection
  Proposals = {"create_task", "create_path_task", "create_conversation_task",
    "update_conversation_task", "assign_conversation_task", "assign_task",
    "create_conversation_project", "create_conversation_event",
    "update_conversation_event_availability", "remember_fact", "profile_context",
    "prepare_event_logistics_approvals", "generate_event_advance", "generate_project_plan",
    "create_decision"}
SYMMETRY Pairs
CHECK_DEADLOCK FALSE
INVARIANTS
  SentAsReviewed DropToldTruly ResolvedWithinTheHour ReceiptHonest
PROPERTIES
  InvitesHonoured ActsOnReviewed MadeOnce
