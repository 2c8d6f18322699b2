SPECIFICATION FairSpec
CONSTANTS
  quota = quota  usedQuota = usedQuota  remainQuota = remainQuota  user = user  other = other
  o1 = o1  o2 = o2  o3 = o3  o4 = o4  NoOp = NoOp
  Cells = {quota, usedQuota}  Groups = {user}  GroupOf <- OneRow
  Channels = {}  Legacy = {user}
  Deltas <- Signed  OpIds = {o1, o2}
  MaxInt = 5  MaxAdds = 2
INVARIANT GoneRowsAbsorb
PROPERTIES StopCompletes OperationsConfirm
CHECK_DEADLOCK FALSE
