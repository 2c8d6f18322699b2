SPECIFICATION Spec
CONSTANTS
  r1 = r1  r2 = r2  u1 = u1  u2 = u2  t1 = t1  t2 = t2  n1 = n1  n2 = n2
  Requests = {r1, r2}  Users = {u1}  Tokens = {t1}  Nodes = {n1, n2}
  UserOf <- OneUser  TokenOf <- OneToken  NodeOf <- TwoNodes
  Playground = {}  Unlimited = {}
  PreQuotas = {0, 2}  Actuals = {0, 3}  Targets = {}
  InitQuota = 4  InitRemain = 5
  TrustThreshold = 0  BatchNodes = {}  LostAcks = TRUE
  StaleAfter = 0  SweepBatch = 1
INVARIANTS ChargeMatchesRecord TokenFollowsWallet BalanceAccounted NoOverdraft NoOrphanReservation ChargeHasRecord SettledPaysMetered
PROPERTY ImplementsAccount
