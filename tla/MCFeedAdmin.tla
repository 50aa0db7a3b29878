----------------------------- MODULE MCFeedAdmin -----------------------------
(* Values for model checking FeedAdmin. *)
EXTENDS FeedAdmin, TLC

Source(url, password, clear) == [url |-> url, password |-> password, clear |-> clear]
Guard(user, password) == [user |-> user, password |-> password]
Channel(server, token) == [server |-> server, token |-> token]

\* An open feed of two sources, one of them with a password; the same two the
\* other way round, now protected; one that clears a password and gives the
\* protection up; one that is refused unless a password is stored.
FourForms == {
  [text |-> "t1", channel |-> Channel(TRUE, "p1"), guard |-> Guard(FALSE, None),
   sources |-> <<Source("a", None, FALSE), Source("b", "p1", FALSE)>>],
  [text |-> "t2", channel |-> None, guard |-> Guard(TRUE, "p1"),
   sources |-> <<Source("b", None, FALSE), Source("a", "p2", FALSE)>>],
  [text |-> "t1", channel |-> Channel(FALSE, None), guard |-> Guard(FALSE, None),
   sources |-> <<Source("b", None, TRUE)>>],
  [text |-> "t2", channel |-> Channel(TRUE, None), guard |-> Guard(TRUE, None),
   sources |-> <<Source("a", None, FALSE), Source("b", None, FALSE)>>] }

Tokens == Permutations(Secrets) \cup Permutations(Requests) \cup Permutations(Feeds)
=============================================================================
