-------------------------- MODULE MCMirrorVariants --------------------------
(* One run over the settings a mirror job meets: the plain one, a busier   *)
(* one, the servers' ways with ETags, the date window, a source that holds *)
(* one UID twice, items without a UID, a state written by an earlier       *)
(* release.  The setting is drawn once; its behaviours are those of        *)
(* MirrorSync under it, each at most as wide as the constants of the .cfg. *)
EXTENDS MCMirrorSync, MirrorCopies

VARIABLE setting

TwoHomes == {"d1", "d2"}

\* Two servers with stable ETags: with every fault, and with a third edit.
Plain == INSTANCE MirrorSync WITH DstHrefs <- TwoHomes, MaxEdits <- 2
Busy == INSTANCE MirrorSync WITH DstHrefs <- TwoHomes, FaultKinds <- {}
Reissuing == INSTANCE MirrorSync WITH DstHrefs <- TwoHomes, SrcMode <- "reissued",
               DstMode <- "reissued", PutMode <- "none", MaxEdits <- 2
Tagless == INSTANCE MirrorSync WITH DstHrefs <- TwoHomes, DstMode <- "none", PutMode <- "none",
             FaultKinds <- {"call", "lost"}, MaxEdits <- 2
Windowed == INSTANCE MirrorSync WITH DstHrefs <- TwoHomes, SrcBodies <- SrcWindow,
              FaultKinds <- {"call", "empty"}, MaxEdits <- 2
Doubled == INSTANCE MirrorSync WITH DstHrefs <- TwoHomes, UniqueUids <- FALSE, DstBodies <- {},
             FaultKinds <- {}, Resets <- FALSE, MaxEdits <- 2
Nameless == INSTANCE MirrorSync WITH Uids <- {"u1"}, DestHref <- Spread, SrcBodies <- SrcNoUid,
              DstBodies <- {}, FaultKinds <- {"call", "crash"}, Resets <- FALSE, MaxEdits <- 2
\* The first runs of the release that fingerprints, over a state without: an
\* edit made before them is taken for the state of things.
Upgraded == INSTANCE MirrorSync WITH DstHrefs <- TwoHomes, Legacy <- TRUE, MaxEdits <- 0

VariantInit ==
  /\ \/ setting = "plain" /\ Plain!Init
     \/ setting = "busy" /\ Busy!Init
     \/ setting = "reissuing" /\ Reissuing!Init
     \/ setting = "tagless" /\ Tagless!Init
     \/ setting = "windowed" /\ Windowed!Init
     \/ setting = "doubled" /\ Doubled!Init
     \/ setting = "nameless" /\ Nameless!Init
     \/ setting = "upgraded" /\ Upgraded!Init
  /\ owned = Homes(saved)

VariantNext ==
  /\ \/ setting = "plain" /\ Plain!Next
     \/ setting = "busy" /\ Busy!Next
     \/ setting = "reissuing" /\ Reissuing!Next
     \/ setting = "tagless" /\ Tagless!Next
     \/ setting = "windowed" /\ Windowed!Next
     \/ setting = "doubled" /\ Doubled!Next
     \/ setting = "nameless" /\ Nameless!Next
     \/ setting = "upgraded" /\ Upgraded!Next
  /\ NoteOwned
  /\ UNCHANGED setting

VariantSpec == VariantInit /\ [][VariantNext]_<<copyVars, setting>>
=============================================================================
