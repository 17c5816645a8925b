SPECIFICATION FairSpec
CONSTANTS
  Req = {"r1", "r2", "r3"}
  Ops <- MCOps
  Errors = {"sqlalchemy", "adapter", "driver"}
  Raised = "sqlalchemy"
  Names = {"uq_products_sku", "fk_products_created_by_id_users"}
  SkuConstraint = "uq_products_sku"
  ErrorGraphs <- MCErrorGraphs
  PoolSize = 2
  HashSlots = 1
  MaxRestarts = 1
  None = None
INVARIANTS TypeOK WaitersHoldNothing NothingKept AnswersTellTheOutcome ConflictIsNamed
PROPERTIES AnsweredOnce EveryRequestAnswered
