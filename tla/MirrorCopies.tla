---------------------------- MODULE MirrorCopies ----------------------------
(***************************************************************************)
(* MirrorSync with a witness of the copies the job must answer for: those  *)
(* it wrote, got an answer about and has had no reason to lose track of.   *)
(***************************************************************************)
EXTENDS MirrorSync

VARIABLE owned  \* hrefs of those copies

copyVars == <<vars, owned>>

Homes(m) == {m[k].dstHref : k \in DOMAIN m}

\* A copy is owned once its PUT is answered, until it is removed.  A crash or
\* a reset leaves the job with what its saved state names; a destination that
\* answers with nothing has told it that it has no copies.
NoteOwned ==
  owned' = DOMAIN dst' \cap
    CASE pc' = "idle" /\ (pc = "idle" \/ faults' # faults) -> owned \cap Homes(saved')
      [] pc = "listDst" /\ pc' = "next" /\ faults' # faults -> {}
      [] pc = "put" /\ pc' = "readback" -> owned \cup {item'.cur.dstHref}
      [] OTHER -> owned

CopiesInit == Init /\ owned = Homes(saved)
CopiesNext == Next /\ NoteOwned
CopiesSpec == CopiesInit /\ [][CopiesNext]_copyVars

\* The job forgets no copy it owns: between the runs the state names each,
\* also when a call failed, an answer was lost or a run stopped half-way (the
\* state of a failed run is persisted, runner.go:133 and 153-155).  A copy no
\* entry names outlives its source item for good.
NoOrphans == pc = "idle" => owned \subseteq Homes(saved)
=============================================================================
