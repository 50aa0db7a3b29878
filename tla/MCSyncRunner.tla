---------------------------- MODULE MCSyncRunner ----------------------------
(* Instances of SyncRunner for TLC: two jobs, one request or two. *)
EXTENDS SyncRunner

TwoWays == {"a-to-b", "b-to-a"}
OneWay == {"a-to-b"}
=============================================================================
