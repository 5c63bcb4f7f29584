--------------------------- MODULE MCClusterTend ---------------------------
(* Instances of ClusterTend for TLC.                                        *)
EXTENDS ClusterTend

Two(sc, strict, readers, max) ==
    [name |-> <<1, 2, 0>>, sc |-> sc, strict |-> strict, reader |-> readers, max |-> max]
AllSetups == {Two(FALSE, TRUE, {}, 2), Two(TRUE, FALSE, {}, 2),
              Two(FALSE, FALSE, Reader, 1), Two(TRUE, TRUE, Reader, 1)}
ThreeEvents == {Two(FALSE, FALSE, {}, 3)}
SeedHosts == <<1, 2>>
Racks == [n \in Names |-> n % 2]
=============================================================================
