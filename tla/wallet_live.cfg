SPECIFICATION FairSpec
CONSTANTS
  r1 = r1  r2 = r2  u1 = u1  u2 = u2  t1 = t1  t2 = t2  n1 = n1  n2 = n2
  Requests = {r1, r2}  Users = {u1, u2}  Tokens = {t1}  Nodes = {n1}
  UserOf <- TwoUsers  TokenOf <- OneToken  NodeOf <- OneNode
  Playground = {}  Unlimited = {t1}
  PreQuotas = {1}  Actuals = {2}  Targets = {}
  InitQuota = 2  InitRemain = 0
  TrustThreshold = 1  BatchNodes = {}  LostAcks = FALSE
  StaleAfter = 0  SweepBatch = 1
PROPERTY ReservationsClose
