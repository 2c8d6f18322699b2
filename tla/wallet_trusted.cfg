SPECIFICATION Spec
CONSTANTS
  r1 = r1  r2 = r2  u1 = u1  u2 = u2  t1 = t1  t2 = t2  n1 = n1  n2 = n2
  Requests = {r1, r2}  Users = {u1}  Tokens = {t1}  Nodes = {n1}
  UserOf <- OneUser  TokenOf <- OneToken  NodeOf <- OneNode
  Playground = {r2}  Unlimited = {}
  PreQuotas = {1}  Actuals = {0, 3}  Targets = {3}
  InitQuota = 4  InitRemain = 5
  TrustThreshold = 2  BatchNodes = {n1}  LostAcks = FALSE
  StaleAfter = 1  SweepBatch = 2
INVARIANTS ChargeMatchesRecord BalanceAccounted
