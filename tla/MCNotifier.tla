----------------------------- MODULE MCNotifier -----------------------------
(* One feed over one source that always has the same matching event, for TLC. *)
EXTENDS Notifier

OneSource == [f \in Feeds |-> {"k1"}]
OwnUrl == [k \in Keys |-> k]
Lasting == [k \in Keys |-> [v \in 0 .. MaxChanges |-> {"e1"}]]
=============================================================================
