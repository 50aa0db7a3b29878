----------------------------- MODULE MCBidiSync -----------------------------
(* One run over three settings of a bidirectional job: a quiet one with    *)
(* two items under newest-wins, a racing one with one item under           *)
(* source-wins, and a renaming one where a server lists another ETag every *)
(* time.  The setting is drawn once; its behaviours are those of BidiSync  *)
(* under it, each at most as wide as the constants of the .cfg.            *)
EXTENDS BidiSync

VARIABLE setting

Body(u, r, i) == [uid |-> u, rev |-> r, in |-> i, form |-> "sent"]

\* Both servers name an item after its UID; one also after a name of its own.
Named == [k \in Keys |-> CASE k = "u1" -> "n1" [] k = "u2" -> "n2" [] OTHER -> k]
Homes == {<<"u1", "n1">>, <<"u1", "x1">>, <<"u2", "n2">>}

\* Three versions, the last two modified at the same time.
Times == [r \in Revs |-> IF r = 1 THEN 1 ELSE 2]

\* Two items, edited between the runs, and a call that fails.
TwoItems == {Body("u1", 1, TRUE), Body("u1", 2, TRUE), Body("u1", 3, TRUE), Body("u2", 1, TRUE)}
\* One item that leaves and enters the window, edited at any point of a run,
\* with every fault.
WithWindow == {Body("u1", 1, TRUE), Body("u1", 2, FALSE), Body("u1", 3, TRUE)}
\* One item, edited before, between and after the two listings.
OneItem == {Body("u1", 1, TRUE), Body("u1", 2, TRUE)}
AllBodies == TwoItems \cup WithWindow
RacingNames == [k \in {"u1", "n1", "x1"} |-> "n1"]
RacingHomes == {<<"u1", "n1">>, <<"u1", "x1">>}

\* How the two servers list: both name versions, or one of them never twice.
Stable == [s \in Sides |-> "stable"]
Reissuing(s) == [Stable EXCEPT ![s] = "reissued"]
AllLists == {Stable, Reissuing("A"), Reissuing("B")}
PutTags == [s \in Sides |-> "stable"]

\* The instances are as the proofs ask.
ASSUME HrefsNameItems /\ TagsListed

Quiet == INSTANCE BidiSync WITH ETags <- 1 .. 6, UserBodies <- TwoItems, Policies <- {FALSE},
           ListModes <- {Stable},
           EditPcs <- {"idle"}, FaultKinds <- {"call"}
Racing == INSTANCE BidiSync WITH Uids <- {"u1"}, Hrefs <- {"n1", "x1"}, DestHref <- RacingNames,
            UserHomes <- RacingHomes, UserBodies <- WithWindow, Policies <- {TRUE},
            ListModes <- {Stable}
Renaming == INSTANCE BidiSync WITH Uids <- {"u1"}, Hrefs <- {"n1", "x1"}, DestHref <- RacingNames,
             UserHomes <- RacingHomes, UserBodies <- OneItem, Policies <- {FALSE},
             ListModes <- {Reissuing("A"), Reissuing("B")}, Resets <- FALSE,
             EditPcs <- {"idle", "listB", "merge"}, FaultKinds <- {}

SettingInit ==
  \/ setting = "quiet" /\ Quiet!Init
  \/ setting = "racing" /\ Racing!Init
  \/ setting = "renaming" /\ Renaming!Init

SettingRunStep ==
  /\ \/ setting = "quiet" /\ Quiet!RunStep
     \/ setting = "racing" /\ Racing!RunStep
     \/ setting = "renaming" /\ Renaming!RunStep
  /\ UNCHANGED setting
SettingNext ==
  /\ \/ setting = "quiet" /\ Quiet!Next
     \/ setting = "racing" /\ Racing!Next
     \/ setting = "renaming" /\ Renaming!Next
  /\ UNCHANGED setting

settingVars == <<vars, setting>>
SettingSpec == SettingInit /\ [][SettingNext]_settingVars /\ WF_settingVars(SettingRunStep)
=============================================================================
