SPECIFICATION Spec
CONSTANTS
  r1 = r1  r2 = r2  u1 = u1  u2 = u2  t1 = t1  t2 = t2  n1 = n1  n2 = n2
  Requests = {r1}  Users = {u1}  Tokens = {t1}  Nodes = {n1}
  UserOf <- SoloUser  TokenOf <- SoloToken  NodeOf <- SoloNode
  Playground = {}  Unlimited = {}
  PreQuotas = {2}  Actuals = {3}  Targets = {}
  InitQuota = 4  InitRemain = 5
  TrustThreshold = 0  BatchNodes = {n1}  LostAcks = FALSE
  StaleAfter = 1  SweepBatch = 1
INVARIANT AnsweredIsNotRefunded
