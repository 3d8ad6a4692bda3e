CONSTANTS
  MaxAsks = 2
  Hosted = {TRUE, FALSE}
  Sendable = {TRUE, FALSE}
  None = None
  Free = Free
  Requests = {put, get, list}
  Unbounded = {list}
  m1 = m1
  m2 = m2
  s1 = s1
  Mounts = {m1, m2}
  Keys = {s1}
  Lent = {}
  Names = {"secret", "file"}
  NameOf <- MCNameOf
  Hosts <- MCLiveHosts
  MaxVersion = 2
SPECIFICATION MCSpec
INVARIANTS AskSomewhere SettledTrue SilenceUnheard
PROPERTIES NothingPostedLate KeepsPromise AllEnds HandedOutWorks CredentialsSettle
CHECK_DEADLOCK FALSE
