----------------------------- MODULE SyncPreview -----------------------------
(***************************************************************************)
(* The merge preview of a sync job: dav.PreviewMerge over what both sides  *)
(* hold now.  It reads every item, writes nothing and does not know the    *)
(* job's state, so it speaks of a first run.                               *)
(***************************************************************************)
EXTENDS DavCollection

CONSTANT Modified       \* Options.Modified: version -> time

\* A line of the preview: the UID and what stands for title and start.
Summarize(body) == [uid |-> body.uid, rev |-> body.rev]

\* Identity -> line, for the items in the window.  A side holds an identity
\* once (RFC 4791); of two the last listed would stay.
Collect(c) ==
  LET shown == {h \in DOMAIN c : c[h].body.in}
  IN  [uid \in {UidOf(c[h].body, h) : h \in shown} |->
         Summarize(c[CHOOSE h \in shown : UidOf(c[h].body, h) = uid].body)]

\* Mutation: the authoritative side keeps the item also when it is older.
YieldsNever(mine, other, sourceWins) == FALSE
\* Under newest-wins the other side's item is shown when it is strictly newer.
Yields(mine, other, sourceWins) == ~sourceWins /\ Modified[other.rev] > Modified[mine.rev]

\* What both sides of a bidirectional job are to hold after the run: the
\* union by identity, A's item where both have one, unless it yields.
PreviewMerge(a, b, sourceWins) ==
  LET primary == Collect(a)
      secondary == Collect(b)
  IN  [uid \in DOMAIN primary \cup DOMAIN secondary |->
         CASE uid \notin DOMAIN primary -> secondary[uid]
           [] uid \notin DOMAIN secondary -> primary[uid]
           [] OTHER -> IF Yields(primary[uid], secondary[uid], sourceWins)
                       THEN secondary[uid] ELSE primary[uid]]
=============================================================================
