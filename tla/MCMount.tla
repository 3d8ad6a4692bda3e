------------------------------- MODULE MCMount -------------------------------
(* Mount on small instances: two mounts of one S3 prefix; a mount of two      *)
(* prefixes that shares one of them; two Azure prefixes over one file; and a  *)
(* host that vends nothing to the second mount.                               *)
EXTENDS Mount

CONSTANTS m1, m2, s1, a1, a2

Host(first, second, s3, azure) ==
    [vends |-> [m \in Mounts |-> IF m = m1 THEN first ELSE second],
     lives |-> [k \in Keys |-> IF k \in Lent THEN azure ELSE s3]]

Shared  == Host(<<s1>>, <<s1>>, {"fresh"}, {"forever"})
TwoKeys == Host(<<s1, a1>>, <<s1>>, {"forever"}, {"fresh", "forever"})
Overlap == Host(<<a1>>, <<a2>>, {"fresh"}, {"fresh"})
Unvends == Host(<<s1>>, <<>>, {"fresh"}, {"fresh"})

Lasting == Host(<<s1>>, <<s1>>, {"forever"}, {"forever"})

AllHosts  == {Shared, TwoKeys, Overlap, Unvends}
RaceHosts == {Lasting}
Naming == [k \in Keys |-> IF k \in Lent THEN "file" ELSE "secret"]
=============================================================================
