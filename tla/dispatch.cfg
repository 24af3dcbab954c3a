SPECIFICATION Spec
CONSTANTS
  p1 = p1  m1 = m1  c1 = c1  c2 = c2
  r0 = r0  r1 = r1  foreign = foreign
  Plans = {p1}
  Machines = {m1}
  Controllers = {c1, c2}
  Releases = {r0, r1}
  Adopted = r0
  Foreign = foreign
  MachineOf <- OneMachine
  ClusterOf <- OneCluster
  MaxAttempts = 2
  Limits <- MCLimits
SYMMETRY ControllerSymmetry
CHECK_DEADLOCK FALSE
INVARIANTS TypeOK OneOutstandingAttempt OneWriter UnchangedIsTrue AccountingStands DriftRecordBound NoSilentDivergence
PROPERTIES NoSendAfterAccounting DriftIsReal
