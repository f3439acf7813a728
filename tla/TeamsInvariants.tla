--------------------------- MODULE TeamsInvariants ---------------------------
(***************************************************************************)
(* What holds of the Teams tab at all times, from which TeamsView_proofs   *)
(* derives the properties of TeamsView: Inv (types, the conversation shown *)
(* and the warning before a second post), ReplyKnown (where a reply is),   *)
(* DraftKnown, ScreenNow (what the page will show), OwnOnly and FreshNow   *)
(* (where each change is that the user was told is done); and the          *)
(* relations between a host or page and what a handler makes of it.        *)
(***************************************************************************)
EXTENDS TeamsView

-----------------------------------------------------------------------------
(* What the host's calls may hold, and where the thread on screen belongs. *)

\* What Teams answered, or is about to: a thread found is of the conversation asked for.
ReadAnswer(h) ==
  /\ h.read.stage = "served" /\ h.read.result.state = "found" =>
       h.read.result.conv = ReadConv(h.read.conv) /\ h.read.result.listed
  /\ h.wait.stage = "served" /\ h.wait.result.state = "found" =>
       h.wait.result.conv = Post /\ h.wait.result.listed

\* The re-read after a change is of the conversation that was changed.
AfterAnswer(h) ==
  /\ h.send.after.state = "found" => h.send.after.conv = h.send.conv
  /\ h.change.after.state = "found" => h.change.after.conv = h.change.conv

\* A served call has its answer; a call that is not idle says what it is about.
CallsFilled(h) ==
  /\ h.read.stage = "served" => h.read.result.state # "null"
  /\ h.wait.stage = "served" => h.wait.result.state # "null"
  /\ Busy(h.send) => h.send.conv \in Convs /\ h.send.text \in Texts
  /\ h.send.stage = "served" => h.send.answer # ""
  /\ Busy(h.post) => h.post.text \in Posts
  /\ h.post.stage = "served" => h.post.answer # ""
  /\ Busy(h.change) => h.change.conv \in Convs /\ h.change.id \in Ids /\ h.change.what # ""
  /\ h.change.stage = "served" => h.change.answer # ""

\* The thread on screen is of a conversation.
FoundFilled(h) == h.found = NoThread \/ h.found.conv \in Convs

\* Until a conversation is chosen no thread is shown, and nothing is sent into one.
NothingChosen(h) ==
  h.chosen = Unchosen => h.found = NoThread /\ ~Busy(h.send) /\ ~Busy(h.change)

\* The read that will replace the thread of a chat that is gone.
Replaced(h) ==
  \/ Busy(h.wait)
  \/ Busy(h.read) /\ (h.readAgain \/ (h.read.conv = h.chosen /\ ~h.read.quiet))

\* The thread on screen is of the chosen conversation, but for a chat that is gone.
Right(h) ==
  h.found # NoThread /\ h.found.conv # h.chosen =>
    h.chosen = Post /\ h.found.conv \in Chats \ h.lastChats /\ Replaced(h)

\* A post of the user's may be in Teams and the user was not warned since: the next one warns.
Owed(h, p) ==
  /\ Busy(h.post) => h.warned = ""
  /\ p.posts > 0 /\ ~p.warned =>
       /\ h.post.stage # "asked" /\ h.warned = ""
       /\ \/ h.postedAt \/ h.postUncertain
          \/ h.post.stage = "served" /\ h.post.answer \in {"sent", "uncertain"}

-----------------------------------------------------------------------------
(* What a handler leaves alone. *)

\* g differs from h at most in what the page is told and in the states kept for a switch of language.
Same(g, h) ==
  /\ g.chosen = h.chosen /\ g.lastChats = h.lastChats /\ g.found = h.found
  /\ g.read = h.read /\ g.readAgain = h.readAgain /\ g.wait = h.wait
  /\ g.send = h.send /\ g.change = h.change /\ g.post = h.post
  /\ g.warned = h.warned /\ g.postUncertain = h.postUncertain /\ g.postedAt = h.postedAt
  /\ g.notPosted = h.notPosted

\* g differs from h at most in the conversation, its thread and the read of it.
Kept(g, h) ==
  /\ g.wait = h.wait /\ g.send = h.send /\ g.change = h.change /\ g.post = h.post
  /\ g.warned = h.warned /\ g.postUncertain = h.postUncertain /\ g.postedAt = h.postedAt

\* g's read is h's, or was asked just now.
ReadKept(g, h) == g.read = h.read \/ g.read.stage = "asked"

\* What the thread on screen is of, while the user's choice is another conversation.
Stray(h) == h.found # NoThread /\ h.found.conv # h.chosen
Settled(h) == Stray(h) => h.chosen = Post

\* g is h but for the chats, the choice, the thread and what the page is told.
ReadSame(g, h) == Kept(g, h) /\ g.read = h.read /\ g.readAgain = h.readAgain

\* What holds of the host alone.
Answering(h) == ReadAnswer(h) /\ AfterAnswer(h) /\ CallsFilled(h)
HostOK(h) == h \in Hosts /\ Answering(h) /\ FoundFilled(h) /\ NothingChosen(h)
PostKept(g, h) ==
  /\ g.post = h.post /\ g.warned = h.warned
  /\ g.postUncertain = h.postUncertain /\ g.postedAt = h.postedAt

\* g is reached from h without disturbing the post; the thread stays right where it was.
Handles(g, h) == HostOK(g) /\ PostKept(g, h) /\ (Right(h) => Right(g))

\* g is h but for readAgain.
AgainOnly(g, h) ==
  /\ g.read = h.read /\ g.wait = h.wait /\ g.send = h.send /\ g.change = h.change /\ PostKept(g, h)
  /\ g.chosen = h.chosen /\ g.lastChats = h.lastChats /\ g.found = h.found

\* What holds of the host whatever becomes of the post.
Keeps(g, h) == HostOK(g) /\ (Right(h) => Right(g))

-----------------------------------------------------------------------------
(* What may be typed, and what holds of the tab throughout. *)

TeamsStates ==
  [root : {"none", "unseen", "up"}, in : [Convs -> SUBSET Messages], chats : SUBSET Chats]

Pasts ==
  [written : SUBSET Texts, letGo : SUBSET Texts, copies : [Texts -> Nat], told : SUBSET Texts,
   misled : BOOLEAN, posts : Nat, warned : BOOLEAN, published : SUBSET Posts, risky : BOOLEAN,
   acked : SUBSET [conv : Convs, id : Ids, ver : {"first", "edited", "gone"}],
   overlap : BOOLEAN, crossed : BOOLEAN]

HostInv ==
  /\ HostOK(host) /\ past \in Pasts
  /\ ~past.crossed => ~Crossing(host) /\ Right(host)
  /\ Owed(host, past)

\* The types, and what holds of the host and of the post.
Inv == page \in Pages /\ teams \in TeamsStates /\ left \in [Kinds -> Nat] /\ HostInv

\* g is h but for the answers of its calls: none ends, none begins.
Served(g, h) ==
  /\ g.chosen = h.chosen /\ g.lastChats = h.lastChats /\ g.found = h.found /\ g.readAgain = h.readAgain
  /\ (Busy(g.read) <=> Busy(h.read)) /\ g.read.conv = h.read.conv /\ g.read.quiet = h.read.quiet
  /\ (Busy(g.send) <=> Busy(h.send)) /\ g.send.conv = h.send.conv
  /\ (Busy(g.change) <=> Busy(h.change)) /\ g.change.conv = h.change.conv
  /\ (Busy(g.wait) <=> Busy(h.wait)) /\ (Busy(g.post) <=> Busy(h.post))

-----------------------------------------------------------------------------
(* A reply on its way. *)

\* r holds the messages of this type that q holds, in the same places but for the k oldest of q.
Still(type, r, q, k) ==
  /\ \A i \in DOMAIN q : q[i].type = type => i - k \in DOMAIN r /\ r[i - k] = q[i]
  /\ \A i \in DOMAIN r : r[i].type = type => i + k \in DOMAIN q /\ q[i + k] = r[i]

\* A handler that has nothing to do with a send.
Mute(g, h) ==
  g.send = h.send /\ g.sendState = h.sendState /\ Still("sendState", g.out, h.out, 0)

\* g is a host that a handler without a send leads to from h.
Quiet(g, h) == g \in Hosts /\ Mute(g, h)

\* What a host's message says of a send: how it ended, or that one runs (also when repeated).
IsAnswer(m) == m.type = "sendState" /\ m.kind # "sending" /\ ~m.again
IsSending(m) == m.type = "sendState" /\ m.kind = "sending"
NoSend(q) == \A i \in DOMAIN q : q[i].type # "send"
OneSend(q, i) == i \in DOMAIN q /\ q[i].type = "send" /\ \A j \in DOMAIN q : q[j].type = "send" => j = i
NoAnswer(q) == \A i \in DOMAIN q : ~IsAnswer(q[i])
Calm(q) == \A i \in DOMAIN q : ~IsAnswer(q[i]) /\ ~IsSending(q[i])
OneAnswer(q, i) ==
  /\ i \in DOMAIN q /\ IsAnswer(q[i])
  /\ \A j \in DOMAIN q : (IsAnswer(q[j]) => j = i) /\ (j > i => ~IsSending(q[j]))

\* The replies that are in Teams.
InTeams(x) == {t \in Texts : x.copies[t] > 0}

\* The text that is sent is the one in the box, unless another was put over it.
Mine(p, x, t) == p.reply = t \/ p.reply \in x.letGo

\* Where the reply is.
Unsent(p, h) == ~p.replySending /\ NoSend(p.out) /\ ~Busy(h.send) /\ Calm(h.out)
Requested(p, h, x) ==
  /\ p.replySending /\ ~Busy(h.send) /\ Calm(h.out)
  /\ \E i \in DOMAIN p.out : OneSend(p.out, i) /\ Mine(p, x, p.out[i].text)

Underway(p, h, x) ==
  /\ p.replySending /\ Busy(h.send) /\ NoSend(p.out) /\ NoAnswer(h.out)
  /\ Mine(p, x, h.send.text)
  /\ h.send.stage = "served" /\ h.send.answer = "sent" => h.send.text \in InTeams(x)

Replied(p, h, x) ==
  /\ p.replySending /\ ~Busy(h.send) /\ NoSend(p.out)
  /\ \E i \in DOMAIN h.out :
       OneAnswer(h.out, i) /\ (h.out[i].kind = "sent" => p.reply \in InTeams(x) \cup x.letGo)

\* A reply that is in Teams, and the user was not told that it may be: it went up once, and goes no more.
OnlyOnce(p, h, x) ==
  \A t \in Texts : x.copies[t] > 0 /\ t \notin x.told =>
    /\ x.copies[t] = 1
    /\ \A i \in DOMAIN p.out : p.out[i].type = "send" => p.out[i].text # t
    /\ h.send.text = t => h.send.stage = "served" /\ h.send.answer \in {"sent", "uncertain"}
    /\ p.reply = t =>
         /\ p.replySending
         /\ h.send.text = t \/ \E i \in DOMAIN h.out : OneAnswer(h.out, i) /\ h.out[i].kind = "sent"

InOrder(p, h, x) ==
  /\ Unsent(p, h) \/ Requested(p, h, x) \/ Underway(p, h, x) \/ Replied(p, h, x)
  /\ OnlyOnce(p, h, x)

\* Every text the user wrote that is anywhere: nothing else is ever sent.
Covered(p, x) == Word(p.reply) \cup InTeams(x) \cup x.letGo

Accounted(p, h, x) ==
  /\ Covered(p, x) \subseteq x.written
  /\ \A i \in DOMAIN p.out : p.out[i].type = "send" => p.out[i].text \in Covered(p, x)
  /\ Busy(h.send) => h.send.text \in Covered(p, x)

\* A host that says it sends does, and one that does not send has no text.
SendKnown(h) == (h.sendState = "sending" => Busy(h.send)) /\ (~Busy(h.send) => h.send.text = "")

ReplyInv(p, h, x) == Accounted(p, h, x) /\ SendKnown(h) /\ (~x.misled => InOrder(p, h, x))
ReplyKnown == ReplyInv(page, host, past)

\* A step that has nothing to do with the reply: each side hears or says something else at most.
PageStill(q, p) ==
  /\ q.reply = p.reply /\ q.replySending = p.replySending
  /\ \E k \in {0, 1} : Still("send", q.out, p.out, k)
HostStill(g, h) ==
  /\ g.send = h.send /\ g.sendState = h.sendState
  /\ \E k \in {0, 1} : Still("sendState", g.out, h.out, k)
PastStill(y, x) ==
  /\ y.written = x.written /\ y.letGo = x.letGo /\ y.copies = x.copies
  /\ y.told = x.told /\ y.misled = x.misled
Apart == PageStill(page', page) /\ HostStill(host', host) /\ PastStill(past', past)

\* What the host's answer to a "send" is.
SendMessage(kind) == [type |-> "sendState", kind |-> kind, again |-> FALSE]

\* A switch of language: the host repeats what it said last of a send.
Repeated(kind) == [type |-> "sendState", kind |-> kind, again |-> TRUE]

-----------------------------------------------------------------------------
(* The box of the reply and the post draft, which most messages leave alone. *)

DraftSame(q, p) == q.draft = p.draft /\ q.postDirty = p.postDirty
BoxSame(q, p) == q.reply = p.reply /\ q.replySending = p.replySending /\ q.out = p.out
DraftKept ==
  DraftSame(page', page) /\ past.published \subseteq past'.published /\ past'.risky = past.risky

\* A text of the user's own that a draft may replace went up, or the page was told "sent" of another.
DraftKnown ==
  page.draft \in Own /\ ~page.postDirty => page.draft \in past.published \/ past.risky

-----------------------------------------------------------------------------
(* The screen: what the page will show when it has heard what the host says. *)

Waiting == {"loading", "waitingPost"}
IsPanel(m) == m.type = "state" /\ ~m.inline

\* The messages that take the page to another view, whatever it shows.
Moves(m) == m.type \in {"thread", "draft"} \/ (IsPanel(m) /\ m.kind # "loading")

\* Those after which the panel says that something goes on, and those after which it does not.
Begins(m) == IsPanel(m) /\ m.kind \in Waiting
Ends(m) == m.type \in {"thread", "draft"} \/ (IsPanel(m) /\ m.kind \notin Waiting)

\* The page shows this thread when it has heard the queue.
Shows(p, q, th) ==
  \/ p.mode = "thread" /\ p.thread = th /\ \A j \in DOMAIN q : ~Moves(q[j])
  \/ \E i \in DOMAIN q : q[i].type = "thread" /\ q[i].thread = th /\ \A j \in DOMAIN q : j > i => ~Moves(q[j])

\* It may say then that something goes on.
Waits(p, q) ==
  \/ p.panel \in Waiting /\ \A j \in DOMAIN q : ~Ends(q[j])
  \/ \E i \in DOMAIN q : Begins(q[i]) /\ \A j \in DOMAIN q : j > i => ~Ends(q[j])

\* q is what p becomes of a message.
Turns(q, p, m) ==
  /\ m.type = "thread" => q.mode = "thread" /\ q.thread = m.thread
  /\ ~Moves(m) /\ p.mode = "thread" => q.mode = "thread" /\ q.thread = p.thread
  /\ Ends(m) => q.panel \notin Waiting
  /\ ~Ends(m) /\ ~Begins(m) => q.panel = p.panel

\* The page is on its way to the host's thread, unless a read is sure to come; it says that
\* something goes on only while a read is, or after one that failed and kept the draft.
StateKnown(h) == (h.notPosted => h.found = NoThread) /\ (h.state \in Waiting => h.inline \/ Replaced(h))

Screen(p, h) ==
  /\ StateKnown(h)
  /\ h.found # NoThread => Shows(p, h.out, h.found) \/ Replaced(h)
  /\ Waits(p, h.out) => h.inline \/ Replaced(h)

\* g says no more of the view than h.
Murmurs(g, h) ==
  /\ g \in Hosts /\ g.found = h.found /\ g.notPosted = h.notPosted
  /\ g.state = h.state /\ g.inline = h.inline /\ (Replaced(h) => Replaced(g))
  /\ \A p \in Pages, th \in Threads : Shows(p, h.out, th) => Shows(p, g.out, th)
  /\ \A p \in Pages : Waits(p, g.out) => Waits(p, h.out)

\* The page shows the same, whatever else it keeps.
SamePane(q, p) == q.mode = p.mode /\ q.thread = p.thread /\ q.panel = p.panel
ScreenNow == Screen(page, host)

\* The host but for its calls is the same.
CallsOnly(g, h) ==
  /\ g.chosen = h.chosen /\ g.lastChats = h.lastChats /\ g.found = h.found /\ g.notPosted = h.notPosted
  /\ g.readAgain = h.readAgain /\ g.asking = h.asking
  /\ g.state = h.state /\ g.inline = h.inline /\ g.out = h.out

-----------------------------------------------------------------------------
(* Nobody changes another one's message. *)

\* g asks the user about the same messages as h, and changes the same one.
Meek(g, h) ==
  {"asking", "change"} \subseteq DOMAIN h =>
    DOMAIN g = DOMAIN h /\ g.asking = h.asking /\ g.change = h.change

\* Where a message of another's could be changed: the edit box and the asked changes.
OwnPage(p) ==
  /\ p.edit.id # "theirs"
  /\ \A i \in DOMAIN p.out : p.out[i].type \in {"edit", "delete"} => p.out[i].id # "theirs"
OwnHost(h) == "theirs" \notin h.asking /\ h.change.id # "theirs"
OwnOnly == OwnPage(page) /\ OwnHost(host)

\* The page says nothing, and opens no edit box.
TellsNothing(q, p) == q.out = p.out /\ q.edit.id \in {p.edit.id, ""}

-----------------------------------------------------------------------------
(* What the user was told is done. *)

\* These messages show every change of this conversation that was answered "sent".
Fits(acked, conv, msgs) == \A a \in acked : a.conv = conv => ShowsChange(a, msgs)

\* The thread on screen, and what a read brings, show them; or a read that will is sure to come.
FoundFits(h, acked) ==
  h.found # NoThread => Fits(acked, h.found.conv, h.found.msgs) \/ Replaced(h)
ResultFits(r, acked) == r.state = "found" => Fits(acked, r.conv, r.msgs)
ReadFits(h, acked) == h.read.stage = "served" => ResultFits(h.read.result, acked) \/ h.readAgain
WaitFits(h, acked) == h.wait.stage = "served" => ResultFits(h.wait.result, acked)
FreshReads(h, acked) == FoundFits(h, acked) /\ ReadFits(h, acked) /\ WaitFits(h, acked)

\* A handler that tells the user of no change: what was shown still is, and a read that was
\* sure to come still is.
Freshly(g, h) ==
  /\ \A acked : FreshReads(h, acked) => FreshReads(g, acked)
  /\ g.send = h.send \/ g.send.stage # "served"
  /\ g.change = h.change \/ g.change.stage # "served"

\* Teams has the changes the user was told are done.
TeamsShows(acked, threads) == \A a \in acked : ShowsChange(a, threads[a.conv])

\* A change that is about to be answered "sent" is in Teams, and in its re-read with the others.
Promised(c) == [conv |-> c.conv, id |-> c.id, ver |-> IF c.what = "edit" THEN "edited" ELSE "gone"]

SendHeld(s, acked, threads) ==
  s.stage = "served" /\ s.answer = "sent" =>
    /\ HasId(threads[s.conv], s.text)
    /\ s.after.state = "found" => Fits(acked, s.conv, s.after.msgs) /\ HasId(s.after.msgs, s.text)

ChangeHeld(c, acked, threads) ==
  c.stage = "served" /\ c.answer = "sent" =>
    /\ c.id # "root" => ShowsChange(Promised(c), threads[c.conv])
    /\ c.after.state = "found" =>
         Fits(acked, c.conv, c.after.msgs) /\ (c.id # "root" => ShowsChange(Promised(c), c.after.msgs))
Freshness(h, acked, threads) ==
  /\ ~Overlapping(h) /\ TeamsShows(acked, threads) /\ FreshReads(h, acked)
  /\ SendHeld(h.send, acked, threads) /\ ChangeHeld(h.change, acked, threads)

\* Only the user's own messages are deleted for him; only the post has a root.
OwnAcks == \A a \in past.acked : a.ver = "gone" => a.id # "theirs"
RootInPost == \A c \in Chats : ~HasId(teams.in[c], "root")
FreshNow ==
  /\ OwnAcks /\ RootInPost
  /\ ~past.overlap => Freshness(host, past.acked, teams.in)

\* What may have become of a message that the user changed.
Vers == {"first", "edited", "gone"}
=============================================================================
