----------------------------- MODULE TeamsPage -----------------------------
(***************************************************************************)
(* The page of the Teams tab (src/Assets/teams/thread.js and composer.js): *)
(* what the browser side of the tab keeps, what each message of the host   *)
(* does to it, and what each act of the user does to it.  The page is one  *)
(* JavaScript thread, so a handler is one step; it is written as a         *)
(* function from the page's state to the page's next state.  out holds the *)
(* messages posted to the host and not handled there yet, oldest first.    *)
(***************************************************************************)
EXTENDS Sequences

CONSTANTS
  Texts,   \* the replies the user may write, each written at most once
  Chats,   \* the group chats a ticket can have
  Drafts,  \* the drafts of the ticket's post the host can load from its file
  Own      \* the posts the user can make of a draft by editing it

\* The names of the kinds of text do not overlap.
ASSUME KindsOfText ==
  /\ Drafts \cap Own = {}
  /\ "" \notin Texts \cup Drafts \cup Own
  /\ {"mine", "theirs", "root", ""} \cap Texts = {}
  /\ {"post", "", "unchosen"} \cap Chats = {}

\* The channel post ("" in the host, null in the page's menu) and the chats.
Post == "post"
Convs == {Post} \cup Chats

\* The messages of a conversation: the user's replies, an older message of
\* the user, one of somebody else, and the post a channel thread starts with.
Ids == Texts \cup {"mine", "theirs", "root"}
Messages == [id : Ids, ver : {"first", "edited"}]
Threads == [conv : Convs \cup {""}, msgs : SUBSET Messages]
NoThread == [conv |-> "", msgs |-> {}]

HasId(msgs, id) == \E m \in msgs : m.id = id

NoEdit == [id |-> "", busy |-> FALSE]

Posts == Drafts \cup Own
Panels == {"loading", "waitingPost", "signedOut", "failed"}
Answered == {"sent", "failed", "uncertain"}

\* What the page posts to the host, and the host to the page.
PageMessages ==
       [type : {"refresh", "reloadDraft"}]
  \cup [type : {"selectConversation"}, conv : Convs]
  \cup [type : {"send"}, text : Texts]
  \cup [type : {"post"}, text : Posts]
  \cup [type : {"edit", "delete"}, id : Ids]
HostMessages ==
       [type : {"state"}, kind : Panels, inline : BOOLEAN]
  \cup [type : {"thread"}, thread : Threads]
  \cup [type : {"draft"}, text : Drafts, reload : BOOLEAN]
  \cup [type : {"conversations"}, chats : SUBSET Chats, selected : Convs]
  \cup [type : {"sendState"}, kind : Answered \cup {"sending"}, again : BOOLEAN]
  \cup [type : {"postState"}, kind : Answered \cup {"posting", "warning"}, again : BOOLEAN]
  \cup [type : {"editState", "deleteState"}, id : Ids,
        state : {"saving", "saved", "deleting", "deleted", "cancelled", "failed", "uncertain"}]

Pages ==
  [mode : {"none", "thread", "post"}, panel : Panels \cup {"hidden"}, thread : Threads,
   chats : SUBSET Chats, selected : Convs,
   reply : Texts \cup {""}, replySending : BOOLEAN,
   draft : Posts \cup {""}, postDirty : BOOLEAN, applied : Drafts \cup {""}, postBusy : BOOLEAN,
   edit : [id : Ids \cup {""}, busy : BOOLEAN], deleting : Ids \cup {""},
   out : Seq(PageMessages)]

Say(x, m) == [x EXCEPT !.out = Append(@, m)]

-----------------------------------------------------------------------------
(* What the host's messages do to the page. *)

\* Leaving the thread drops the edit box; the panel hides when a mode shows.
SetMode(p, mode, panel) ==
  [p EXCEPT !.mode = mode, !.panel = panel,
            !.edit = IF mode = "thread" THEN @ ELSE NoEdit]

\* An edit whose message is gone ends with it.
RenderThread(p) ==
  [p EXCEPT !.edit = IF HasId(p.thread.msgs, @.id) THEN @ ELSE NoEdit]

\* A re-read keeps the thread or the draft; other states replace them.
ShowStatePanel(p, m) ==
  IF m.inline \/ (m.kind = "loading" /\ p.mode # "none")
  THEN p ELSE SetMode(p, "none", m.kind)

ShowThreadOnPage(p, m) ==
  RenderThread(SetMode([p EXCEPT !.thread = m.thread], "thread", "hidden"))

\* An untouched draft follows the host's; one the user changed stays.
TakesAnyNewDraft(p, m) == m.reload \/ m.text # p.applied
TakesDraft(p, m) == m.reload \/ (~p.postDirty /\ m.text # p.applied)

ShowDraft(p, m) ==
  LET q == SetMode(p, "post", "hidden")
  IN  IF TakesDraft(p, m)
      THEN [q EXCEPT !.draft = m.text, !.postDirty = FALSE, !.applied = m.text]
      ELSE q

ApplyConversations(p, m) == [p EXCEPT !.chats = m.chats, !.selected = m.selected]

\* The box clears only when this page's own send finishes.
ClearsOnAnySent(p, m) == m.kind = "sent"
ClearsReply(p, m) == m.kind = "sent" /\ p.replySending

ShowSendStateOnPage(p, m) ==
  [p EXCEPT !.reply = IF ClearsReply(p, m) THEN "" ELSE @,
            !.replySending = (m.kind = "sending")]

\* Posted: the next draft from the host is taken as it is.
ShowPostStateOnPage(p, m) ==
  [p EXCEPT !.postBusy = (m.kind = "posting"),
            !.postDirty = IF m.kind = "sent" THEN FALSE ELSE @,
            !.applied = IF m.kind = "sent" THEN "" ELSE @]

ShowEditState(p, m) ==
  IF p.edit.id # m.id THEN p
  ELSE IF m.state = "saved" THEN [p EXCEPT !.edit = NoEdit]
  ELSE [p EXCEPT !.edit.busy = (m.state = "saving")]

ShowDeleteState(p, m) ==
  RenderThread([p EXCEPT !.deleting = IF m.state = "deleting" THEN m.id ELSE ""])

-----------------------------------------------------------------------------
(* What the user can do on the page, and what the page then does. *)

CanWrite(p) == p.mode = "thread" /\ ~p.replySending
CanPut(p)   == p.mode = "thread"          \* a suggestion, or an image that was being read
PutReply(p, t) == [p EXCEPT !.reply = t]

CanSend(p) == p.mode = "thread" /\ ~p.replySending /\ p.reply # ""
PressSend(p) ==
  Say([p EXCEPT !.replySending = TRUE], [type |-> "send", text |-> p.reply])

CanPick(p, c) == p.chats # {} /\ c \in {Post} \cup p.chats
PickConversation(p, c) ==
  Say([p EXCEPT !.selected = c], [type |-> "selectConversation", conv |-> c])

\* The subject has no busy guard, so the post can change while it goes up.
CanEditPost(p) == p.mode = "post"
EditPost(p, o) == [p EXCEPT !.draft = o, !.postDirty = TRUE]

CanPost(p) == p.mode = "post" /\ ~p.postBusy /\ p.draft # ""
PressPost(p) ==
  Say([p EXCEPT !.postBusy = TRUE], [type |-> "post", text |-> p.draft])

PressReload(p)  == Say(p, [type |-> "reloadDraft"])
PressRefresh(p) == Say(p, [type |-> "refresh"])

\* The buttons of a message of the user's own: disabled while one is deleted,
\* not drawn on the message that is being edited.
CanChange(p, id) ==
  /\ p.mode = "thread" /\ p.deleting = "" /\ id \notin {"theirs", p.edit.id}
  /\ HasId(p.thread.msgs, id)
StartEdit(p, id) == [p EXCEPT !.edit = [id |-> id, busy |-> FALSE]]
CanSave(p) == p.mode = "thread" /\ p.edit.id # "" /\ ~p.edit.busy
SaveEdit(p) ==
  Say([p EXCEPT !.edit.busy = TRUE], [type |-> "edit", id |-> p.edit.id])
CancelEdit(p) == [p EXCEPT !.edit = NoEdit]
PressDelete(p, id) == Say(p, [type |-> "delete", id |-> id])

-----------------------------------------------------------------------------
(* The page while its tab's first read is on its way. *)
PageAtStart ==
  [mode |-> "none", panel |-> "loading", thread |-> NoThread,
   chats |-> {}, selected |-> Post,
   reply |-> "", replySending |-> FALSE,
   draft |-> "", postDirty |-> FALSE, applied |-> "", postBusy |-> FALSE,
   edit |-> NoEdit, deleting |-> "", out |-> <<>>]
=============================================================================
