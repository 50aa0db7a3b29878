---------------------------- MODULE MCMirrorSync ----------------------------
(* Instances of MirrorSync for TLC. *)
EXTENDS MirrorSync

Body(u, r, i, f) == [uid |-> u, rev |-> r, in |-> i, form |-> f]

\* destHref, telling the identities apart that meet in one run.
Apart == [k \in Keys |-> CASE k \in {"u1", "s1"} -> "d1" [] OTHER -> "d2"]
Spread == [k \in Keys |-> CASE k \in {"u1", "u2"} -> "d1" [] k = "s1" -> "d2" [] OTHER -> "d3"]

\* What source users write: two versions of u1, one of them outside the
\* window where the run is about it, and one version of u2.
SrcPlain == {Body("u1", 1, TRUE, "sent"), Body("u1", 2, TRUE, "sent"),
             Body("u2", 1, TRUE, "sent")}
SrcWindow == {Body("u1", 1, TRUE, "sent"), Body("u1", 1, FALSE, "sent"),
              Body("u2", 1, TRUE, "sent")}
\* An item without a UID beside one with.
SrcNoUid == {Body("u1", 1, TRUE, "sent"), Body(None, 1, TRUE, "sent"),
             Body(None, 2, TRUE, "sent")}

\* What destination users write.
DstPlain == {Body("u1", 3, TRUE, "kept")}

AllPcs == Pcs
\* Everywhere but between a PUT and its read-back.
NotInReadBack == Pcs \ {"readback"}
=============================================================================
