SPECIFICATION Spec
CONSTANTS
  quota = quota  usedQuota = usedQuota  remainQuota = remainQuota  user = user  other = other
  o1 = o1  o2 = o2  o3 = o3  o4 = o4  NoOp = NoOp
  Cells = {quota, usedQuota, remainQuota}  Groups = {user, other}  GroupOf <- TwoRows
  Channels = {other}  Legacy = {}
  Deltas = {0, 2}  OpIds = {o1, o2, o3, o4}
  MaxInt = 3  MaxAdds = 2
INVARIANTS ExactlyOnce StoppedIsWritten OperationsKeepIdentity SumsFit
CHECK_DEADLOCK FALSE
