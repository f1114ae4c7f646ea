SPECIFICATION Spec
CONSTANTS
  m1 = m1
  t1 = t1
  t2 = t2
  t3 = t3
  h1 = h1
  h2 = h2
  Compared = {m1}
  Threads = {t1, t2, t3}
  Hosts = {h1, h2}
  HostOf <- Family
  Main = h1
  Erlang = {h1}
  MayFail = {"write", "erase", "list"}
SYMMETRY Alike
CHECK_DEADLOCK FALSE
INVARIANTS TypeOK DischargeNeedsAgreement AgreementSettles LostPartingExplained
