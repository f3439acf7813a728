----------------------------- MODULE TeamsHost -----------------------------
(***************************************************************************)
(* The host of the Teams tab (src/UI/TeamsThreadView*.cs).  Every handler  *)
(* runs on the UI thread up to its next await, so the code between two     *)
(* awaits is one step; it is written as a function from the host's state   *)
(* to its next state, and one handler calls another as the code does.  A   *)
(* call that is awaited is a record in the host's state: idle, asked, or   *)
(* served (Teams has answered, the continuation has not run).  out holds   *)
(* the messages posted to the page and not shown there yet.                *)
(***************************************************************************)
EXTENDS TeamsPage

Unchosen == "unchosen"                       \* _chatId before anything was chosen

\* What a read returns.  "null" is the missing After of a change.
Result(state, conv, msgs, listed, chats) ==
  [state |-> state, conv |-> conv, msgs |-> msgs, listed |-> listed, chats |-> chats]
NoResult == Result("null", "", {}, FALSE, {})
ThreadOf(r) == [conv |-> r.conv, msgs |-> r.msgs]

IdleRead   == [stage |-> "idle", conv |-> Unchosen, quiet |-> FALSE, result |-> NoResult]
IdleWait   == [stage |-> "idle", result |-> NoResult]
IdleSend   == [stage |-> "idle", conv |-> "", text |-> "", answer |-> "", after |-> NoResult]
IdlePost   == [stage |-> "idle", text |-> "", answer |-> ""]
IdleChange == [stage |-> "idle", what |-> "", conv |-> "", id |-> "", answer |-> "", after |-> NoResult]

Stages == {"idle", "asked", "served"}
Results ==
  [state : {"null", "found", "notPosted", "signedOut", "failed"}, conv : Convs \cup {""},
   msgs : SUBSET Messages, listed : BOOLEAN, chats : SUBSET Chats]
Hosts ==
  [chosen : Convs \cup {Unchosen}, lastChats : SUBSET Chats, found : Threads, notPosted : BOOLEAN,
   read : [stage : Stages, conv : Convs \cup {Unchosen}, quiet : BOOLEAN, result : Results],
   readAgain : BOOLEAN,
   wait : [stage : Stages, result : Results],
   send : [stage : Stages, conv : Convs \cup {""}, text : Texts \cup {""},
           answer : Answered \cup {""}, after : Results],
   post : [stage : Stages, text : Posts \cup {""}, answer : Answered \cup {""}],
   change : [stage : Stages, what : {"edit", "delete", ""}, conv : Convs \cup {""}, id : Ids \cup {""},
             answer : Answered \cup {""}, after : Results],
   asking : SUBSET Ids,
   state : Panels \cup {""}, inline : BOOLEAN,
   sendState : Answered \cup {"sending", ""}, postState : Answered \cup {"posting", "warning", ""},
   postUncertain : BOOLEAN, warned : Posts \cup {""}, postedAt : BOOLEAN, file : Drafts,
   out : Seq(HostMessages)]

Busy(call) == call.stage # "idle"

\* The conversation a read of the chosen one goes to: nothing chosen reads the post.
ReadConv(chosen) == IF chosen \in Chats THEN chosen ELSE Post

-----------------------------------------------------------------------------
(* What the host tells the page. *)

ShowState(h, kind, inline) ==
  Say([h EXCEPT !.state = kind, !.inline = inline],
      [type |-> "state", kind |-> kind, inline |-> inline])
ClearState(h) == [h EXCEPT !.state = "", !.inline = FALSE]

\* again: the language changed and the host repeats what it said last.
ShowSendState(h, kind) ==
  Say([h EXCEPT !.sendState = kind], [type |-> "sendState", kind |-> kind, again |-> FALSE])
ShowPostState(h, kind) ==
  Say([h EXCEPT !.postState = kind], [type |-> "postState", kind |-> kind, again |-> FALSE])
PostChangeState(h, type, id, state) == Say(h, [type |-> type, id |-> id, state |-> state])

PostConversations(h) ==
  Say(h, [type |-> "conversations", chats |-> h.lastChats, selected |-> ReadConv(h.chosen)])
PostThread(h) == Say(h, [type |-> "thread", thread |-> h.found])
PostDraft(h, reload) ==
  IF h.notPosted THEN Say(h, [type |-> "draft", text |-> h.file, reload |-> reload]) ELSE h

OnLanguageChanged(h) ==
  LET h1 == IF h.state = "" THEN h ELSE ShowState(h, h.state, h.inline)
      h2 == IF h.sendState = "" THEN h1
            ELSE Say(h1, [type |-> "sendState", kind |-> h.sendState, again |-> TRUE])
      h3 == IF h.postState = "" THEN h2
            ELSE Say(h2, [type |-> "postState", kind |-> h.postState, again |-> TRUE])
      h4 == IF h.lastChats = {} THEN h3 ELSE PostConversations(h3)
      h5 == IF h.found = NoThread THEN h4 ELSE PostThread(h4)
  IN  PostDraft(h5, FALSE)

-----------------------------------------------------------------------------
(* Reads. *)

\* The wait for a new post reads on its own; a read while one runs is run after it.
ReadAsync(h, quiet) ==
  IF Busy(h.wait) THEN h
  ELSE IF Busy(h.read) THEN [h EXCEPT !.readAgain = TRUE]
  ELSE LET g == [h EXCEPT !.read = [IdleRead EXCEPT !.stage = "asked", !.conv = h.chosen, !.quiet = quiet]]
       IN  IF quiet THEN g ELSE ShowState(g, "loading", FALSE)

ChooseConversation(h, c) ==
  LET g == [h EXCEPT !.chosen = c]
  IN  IF g.lastChats = {} THEN g ELSE PostConversations(g)

SelectConversation(h, c) ==
  IF c \notin {Post} \cup h.lastChats \/ c = h.chosen THEN h
  ELSE ReadAsync(ChooseConversation([h EXCEPT !.found = NoThread, !.notPosted = FALSE], c), FALSE)

ShowThread(h, r) ==
  PostThread(ClearState([h EXCEPT !.found = ThreadOf(r), !.notPosted = FALSE]))

ShowResult(h, r) ==
  IF r.state = "found" THEN ShowThread(h, r)
  ELSE LET g == [h EXCEPT !.found = NoThread]
       IN  CASE r.state = "notPosted" -> PostDraft(ClearState([g EXCEPT !.notPosted = TRUE]), FALSE)
             [] r.state = "failed" /\ g.notPosted -> ShowState(g, "failed", TRUE)
             [] OTHER -> ShowState(g, r.state, FALSE)

\* The chosen chat is gone; or nothing was chosen yet and there is no post but a chat.
ChatGone(h, r)   == r.listed /\ h.chosen \in Chats /\ h.chosen \notin r.chats
FirstChoice(h, r) == r.listed /\ h.chosen = Unchosen
TakesChat(h, r)  == FirstChoice(h, r) /\ r.state = "notPosted" /\ r.chats # {}

\* The chats the read listed, told to the page when there are any.
ListChats(h, r) ==
  IF ~r.listed THEN h
  ELSE LET g == [h EXCEPT !.lastChats = r.chats]
       IN  IF r.chats = {} THEN g ELSE PostConversations(g)

ApplyResult(h, r) ==
  LET g == ListChats(h, r)
  IN  IF ChatGone(h, r) THEN ReadAsync(ChooseConversation(g, Post), FALSE)
      ELSE IF TakesChat(h, r)
        THEN ReadAsync(ChooseConversation(g, CHOOSE c \in r.chats : TRUE), FALSE)
      ELSE IF FirstChoice(h, r) /\ r.state = "found"
        THEN ShowResult(ChooseConversation(g, Post), r)
      ELSE ShowResult(g, r)

\* A quiet read changes the page only for new messages or a lost thread.
IsQuietReadUnchanged(h, quiet, r) ==
  /\ quiet
  /\ \/ r.state = "failed"
     \/ /\ r.state = "found" /\ h.found # NoThread /\ h.found.msgs = r.msgs
        /\ h.found.conv = r.conv \/ r.msgs = {}

\* A read from before the post went up, or of a conversation just left, is dropped.
AppliesAnyRead(h) == ~Busy(h.wait) /\ ~IsQuietReadUnchanged(h, h.read.quiet, h.read.result)
AppliesRead(h) ==
  /\ ~Busy(h.wait)
  /\ h.read.conv = h.chosen
  /\ ~IsQuietReadUnchanged(h, h.read.quiet, h.read.result)

ReadLanded(h) ==
  LET done == [h EXCEPT !.read = IdleRead]
      g == IF AppliesRead(h) THEN ApplyResult(done, h.read.result) ELSE done
  IN  IF g.readAgain THEN ReadAsync([g EXCEPT !.readAgain = FALSE], FALSE) ELSE g

OnPollTick(h) == ReadAsync(h, TRUE)
ShouldPoll(h) ==
  /\ h.found # NoThread
  /\ ~(Busy(h.read) \/ Busy(h.send) \/ Busy(h.post) \/ Busy(h.change) \/ Busy(h.wait))

\* The tab is shown again: a stale view reads, else an untouched draft follows the file.
Activate(h, stale) ==
  IF ~Busy(h.read) /\ stale THEN ReadAsync(h, FALSE) ELSE PostDraft(h, FALSE)

-----------------------------------------------------------------------------
(* The user's own changes: a reply, the post, an edit or a delete. *)

\* A read that started before the change went out would show the thread without it.
ShowAfterOnly(h, after) ==
  IF after.state = "null" THEN ReadAsync(h, FALSE) ELSE ApplyResult(h, after)
ShowAfter(h, after) ==
  IF after.state = "null" THEN ReadAsync(h, FALSE)
  ELSE LET g == ApplyResult(h, after)
       IN  IF Busy(g.read) THEN [g EXCEPT !.readAgain = TRUE] ELSE g

SendAsyncSilently(h, text) ==
  IF Busy(h.send) \/ h.found = NoThread THEN h
  ELSE ShowSendState([h EXCEPT !.send = [IdleSend EXCEPT !.stage = "asked",
                                           !.conv = h.found.conv, !.text = text]], "sending")
SendAsync(h, text) ==
  IF Busy(h.send) THEN h
  ELSE IF h.found = NoThread THEN ShowSendState(h, "failed")
  ELSE ShowSendState([h EXCEPT !.send = [IdleSend EXCEPT !.stage = "asked",
                                           !.conv = h.found.conv, !.text = text]], "sending")

SendLandedCertain(h) ==
  LET g == ShowSendState([h EXCEPT !.send = IdleSend], IF h.send.answer = "sent" THEN "sent" ELSE "failed")
  IN  IF h.send.answer = "sent" THEN ShowAfter(g, h.send.after) ELSE g
SendLanded(h) ==
  LET g == ShowSendState([h EXCEPT !.send = IdleSend], h.send.answer)
  IN  IF h.send.answer = "sent" THEN ShowAfter(g, h.send.after) ELSE g

\* Posting again, or after a post that may have gone up, only warns the first time.
MustWarnOfRecord(h, text) == h.postedAt /\ h.warned # text
MustWarn(h, text) == (h.postedAt \/ h.postUncertain) /\ h.warned # text

\* Refused with nothing changed: no draft is shown, or its title, its text or its channel is missing.
PostToTeamsAsync(h, text) ==
  IF Busy(h.post) THEN h
  ELSE IF ~h.notPosted THEN ShowPostState(h, "failed")
  ELSE IF MustWarn(h, text) THEN ShowPostState([h EXCEPT !.warned = text], "warning")
  ELSE ShowPostState([h EXCEPT !.warned = "", !.postUncertain = FALSE,
                        !.post = [IdlePost EXCEPT !.stage = "asked", !.text = text]], "posting")

WaitForPostAsync(h) ==
  IF Busy(h.wait) THEN h
  ELSE ShowState([h EXCEPT !.wait = [IdleWait EXCEPT !.stage = "asked"]], "waitingPost", FALSE)

PostLanded(h) ==
  LET g == ShowPostState([h EXCEPT !.post = IdlePost], h.post.answer)
  IN  CASE h.post.answer = "uncertain" -> ReadAsync([g EXCEPT !.postUncertain = TRUE], FALSE)
        [] h.post.answer = "sent" -> WaitForPostAsync([g EXCEPT !.postedAt = TRUE])
        [] OTHER -> g

WaitLanded(h) == ApplyResult([h EXCEPT !.wait = IdleWait], h.wait.result)

\* An edit and a delete share one slot; what they tell the page differs in name only.
StateType(what) == IF what = "edit" THEN "editState" ELSE "deleteState"
Doing(what) == IF what = "edit" THEN "saving" ELSE "deleting"
Done(what)  == IF what = "edit" THEN "saved" ELSE "deleted"

ChangeAsync(h, what, id) ==
  IF h.found = NoThread \/ Busy(h.change) THEN PostChangeState(h, StateType(what), id, "failed")
  ELSE PostChangeState([h EXCEPT !.change = [IdleChange EXCEPT !.stage = "asked", !.what = what,
                                               !.conv = h.found.conv, !.id = id]],
                       StateType(what), id, Doing(what))

ApplyChangeResult(h) ==
  LET c == h.change
      g == PostChangeState([h EXCEPT !.change = IdleChange], StateType(c.what), c.id,
                           IF c.answer = "sent" THEN Done(c.what) ELSE c.answer)
  IN  CASE c.answer = "uncertain" -> ReadAsync(g, FALSE)
        [] c.answer = "sent" -> ShowAfter(g, c.after)
        [] OTHER -> g

\* A delete asks first, outside the page's message; the dialog answers later.
AskDelete(h, id) == [h EXCEPT !.asking = @ \cup {id}]
ConfirmDelete(h, id, yes) ==
  LET g == [h EXCEPT !.asking = @ \ {id}]
  IN  IF yes THEN ChangeAsync(g, "delete", id)
      ELSE PostChangeState(g, "deleteState", id, "cancelled")

-----------------------------------------------------------------------------
\* The tab was opened for chosen, the conversation saved for the ticket: its first read is asked.
\* The settings tell whether the user has posted the ticket before.
HostAtStart(chosen, file, posted) ==
  [chosen |-> chosen, lastChats |-> {}, found |-> NoThread, notPosted |-> FALSE,
   read |-> [IdleRead EXCEPT !.stage = "asked", !.conv = chosen], readAgain |-> FALSE,
   wait |-> IdleWait, send |-> IdleSend, post |-> IdlePost, change |-> IdleChange, asking |-> {},
   state |-> "loading", inline |-> FALSE, sendState |-> "", postState |-> "",
   postUncertain |-> FALSE, warned |-> "", postedAt |-> posted, file |-> file, out |-> <<>>]
=============================================================================
