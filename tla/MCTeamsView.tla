---------------------------- MODULE MCTeamsView ----------------------------
EXTENDS TeamsView

CONSTANTS t1, t2, chat1, d1, d2, o1, o2

Of(counts) == [k \in Kinds |-> IF k \in DOMAIN counts THEN counts[k] ELSE 0]
Start(root, chats, chosen, counts) ==
  [root |-> root, posted |-> FALSE, chats |-> chats, chosen |-> chosen, file |-> d1, left |-> Of(counts)]
Again(s) == [s EXCEPT !.posted = TRUE]

\* Each kind of evening on its own: what the user does and what goes wrong.
Replying ==
  { Start("up", {}, Post, [write |-> 3, send |-> 3, fault |-> 2, relabel |-> 1]),
    Start("up", {}, Post, [write |-> 1, send |-> 1, look |-> 1, poll |-> 1, fault |-> 1, elsewhere |-> 1]) }
Switching ==
  { Start("up", {chat1}, chat1, [write |-> 1, send |-> 1, pick |-> 2, poll |-> 1]),
    Start("up", {chat1}, chat1, [write |-> 1, send |-> 1, look |-> 1, elsewhere |-> 1]),
    Start("none", {chat1}, Unchosen, [postEdit |-> 1, postPress |-> 1, pick |-> 1, look |-> 1, fault |-> 1]) }
Changing ==
  { Start("up", {}, Post, [write |-> 1, send |-> 1, change |-> 1, fault |-> 1]),
    Start("up", {}, Post, [change |-> 2, cancel |-> 1, fault |-> 1, look |-> 1]),
    Start("up", {chat1}, Unchosen, [change |-> 3, cancel |-> 1]) }
Posting ==
  { Start("none", {}, Post, [postEdit |-> 2, postPress |-> 2, fault |-> 1, relabel |-> 1]),
    Start("none", {}, Post, [postPress |-> 3, fault |-> 2, elsewhere |-> 1]),
    Again(Start("none", {}, Post, [postEdit |-> 1, postPress |-> 2, fault |-> 1])),
    Start("none", {}, Unchosen, [postEdit |-> 1, postPress |-> 3, fault |-> 2]),
    Start("none", {}, Post, [postEdit |-> 2, rewrite |-> 1, reload |-> 1, look |-> 2]) }
Evenings == Replying \cup Switching \cup Changing \cup Posting
=============================================================================
