---------------------------- MODULE MCSkeeperServer ----------------------------
(* Instances of SkeeperServer for TLC. *)
EXTENDS SkeeperServer, TLC

CONSTANTS u1, u2

\* a row names its writer by its stamp
Version(v, stamp) == [version |-> v, stamp |-> stamp]
Rows == [version : 1..2, stamp : 1..2]

\* two devices that upload the same two entries, one of them with a newer version of u2, and a
\* device that only pulls
Uploads == {
  u1 :> Version(1, 1) @@ u2 :> Version(1, 1),
  u1 :> Version(1, 2) @@ u2 :> Version(2, 2),
  u1 :> NoRow @@ u2 :> NoRow}
==============================================================================
