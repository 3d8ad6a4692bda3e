CONSTANTS
  m1 = m1
  m2 = m2
  s1 = s1
  a1 = a1
  a2 = a2
  None = None
  Mounts = {m1, m2}
  Keys = {s1}
  Lent = {}
  Names = {"secret", "file"}
  NameOf <- Naming
  Hosts <- RaceHosts
  MaxVersion = 1
SPECIFICATION Spec
INVARIANT MountedHasSecret
CHECK_DEADLOCK FALSE
