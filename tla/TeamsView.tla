----------------------------- MODULE TeamsView -----------------------------
(***************************************************************************)
(* The Teams tab of a ticket: the page (TeamsPage), its host (TeamsHost),  *)
(* the two queues of messages between them, and Teams itself, which other  *)
(* people change and which may fail a call or leave it uncertain whether   *)
(* it was done.  The user acts at any moment the page allows it.           *)
(***************************************************************************)
EXTENDS TeamsHost, Naturals

CONSTANTS
  Starts   \* the situations a behaviour may start in, and how often what may happen in it

\* Kinds of events that are bounded: acts of the user, and what happens to Teams.
Kinds == {"write", "send", "pick", "look", "poll", "change", "cancel", "postEdit", "postPress",
          "reload", "relabel", "rewrite", "elsewhere", "fault"}

\* root: whether the ticket is posted; posted: whether the user has posted it before; chosen: the conversation saved for the ticket.
ASSUME StartsAreSituations ==
  Starts \subseteq [root : {"none", "up"}, posted : BOOLEAN, chats : SUBSET Chats,
                   chosen : {Unchosen, Post} \cup Chats, file : Drafts, left : [Kinds -> Nat]]

VARIABLES
  page,    \* the page and the messages it has posted
  host,    \* the host and the messages it has posted
  teams,   \* the ticket's conversations in Teams
  left,    \* how many events of each kind may still happen
  past     \* history, read by the properties only

vars == <<page, host, teams, left, past>>

Spend(kind) == left[kind] > 0 /\ left' = [left EXCEPT ![kind] = @ - 1]

-----------------------------------------------------------------------------
(* History. *)

Word(t) == {t} \ {""}
\* A change of the user's is under way in another conversation than the chosen one.
Crossing(h) ==
  \/ Busy(h.send) /\ h.send.conv # h.chosen
  \/ Busy(h.change) /\ h.change.conv # h.chosen
  \/ (Busy(h.post) \/ Busy(h.wait)) /\ h.chosen \in Chats

\* Two changes of the user's are under way at once, each with a re-read of its own.
Overlapping(h) ==
  \/ Busy(h.send) /\ Busy(h.change)
  \/ (Busy(h.send) \/ Busy(h.change)) /\ (Busy(h.post) \/ Busy(h.wait))

\* Every step of the host records what went on at once.
Step(h, p) ==
  /\ host' = h
  /\ past' = [p EXCEPT !.crossed = @ \/ Crossing(h), !.overlap = @ \/ Overlapping(h)]

\* acked: the user's changes that were answered "sent", the newest of each message.
Forgotten(acked, conv, id) == {a \in acked : a.conv # conv \/ a.id # id}

-----------------------------------------------------------------------------
(* The user.  The dialog that asks before a delete is modal. *)

User == host.asking = {}
OnPage(p) == User /\ page' = p /\ UNCHANGED <<host, teams>>

WriteReply(t) ==
  /\ CanWrite(page) /\ t \notin past.written
  /\ OnPage(PutReply(page, t)) /\ Spend("write")
  /\ past' = [past EXCEPT !.written = @ \cup {t}, !.letGo = @ \cup Word(page.reply)]

\* Neither a suggestion nor an image that was being read asks whether the box is being sent.
PutWhileSending(t) ==
  /\ CanPut(page) /\ page.replySending /\ t \notin past.written
  /\ OnPage(PutReply(page, t)) /\ Spend("write")
  /\ past' = [past EXCEPT !.written = @ \cup {t}, !.letGo = @ \cup Word(page.reply) \cup {t}]

UserActs(p, kind) == OnPage(p) /\ Spend(kind) /\ UNCHANGED past

ClickSend == CanSend(page) /\ UserActs(PressSend(page), "send")
ClickConversation == \E c \in Convs : CanPick(page, c) /\ UserActs(PickConversation(page, c), "pick")
ClickRefresh == UserActs(PressRefresh(page), "look")
ClickReload == page.mode = "post" /\ UserActs(PressReload(page), "reload")
TypePost == \E o \in Own : CanEditPost(page) /\ page.draft # o /\ UserActs(EditPost(page, o), "postEdit")
ClickPost == CanPost(page) /\ UserActs(PressPost(page), "postPress")
OpenEdit == \E id \in Ids : CanChange(page, id) /\ UserActs(StartEdit(page, id), "change")
ClickSave == CanSave(page) /\ UserActs(SaveEdit(page), "change")
EscapeEdit == page.edit # NoEdit /\ UserActs(CancelEdit(page), "cancel")
ClickDelete == \E id \in Ids : CanChange(page, id) /\ UserActs(PressDelete(page, id), "change")

ByHost(h, kind) == Spend(kind) /\ Step(h, past) /\ UNCHANGED <<page, teams>>

ShowTab == \E stale \in BOOLEAN : ByHost(Activate(host, stale), "look")
PollTick == ShouldPoll(host) /\ ByHost(OnPollTick(host), "poll")
SwitchLanguage == ByHost(OnLanguageChanged(host), "relabel")
\* Claude rewrites the draft's file.
RewriteDraft == \E d \in Drafts : d # host.file /\ ByHost([host EXCEPT !.file = d], "rewrite")
AnswerDialog ==
  \E id \in host.asking, yes \in BOOLEAN :
    /\ Step(ConfirmDelete(host, id, yes), past)
    /\ UNCHANGED <<page, teams, left>>

UserNext ==
  \/ \E t \in Texts : WriteReply(t) \/ PutWhileSending(t)
  \/ ClickSend \/ ClickConversation \/ ClickRefresh \/ ClickReload
  \/ TypePost \/ ClickPost \/ OpenEdit \/ ClickSave \/ EscapeEdit \/ ClickDelete
  \/ ShowTab \/ PollTick \/ SwitchLanguage \/ RewriteDraft \/ AnswerDialog

-----------------------------------------------------------------------------
(* The host takes the page's messages, in order. *)

Message == Head(page.out)
Asked(type) == page.out # <<>> /\ Message.type = type
Took(h, p) ==
  /\ page' = [page EXCEPT !.out = Tail(@)]
  /\ Step(h, p) /\ UNCHANGED <<teams, left>>

HearRefresh == Asked("refresh") /\ Took(ReadAsync(host, FALSE), past)
HearSelect  == Asked("selectConversation") /\ Took(SelectConversation(host, Message.conv), past)
HearReload  == Asked("reloadDraft") /\ Took(PostDraft(host, TRUE), past)
HearSend    == Asked("send") /\ Took(SendAsync(host, Message.text), past)
HearEdit    == Asked("edit") /\ Took(ChangeAsync(host, "edit", Message.id), past)
HearDelete  == Asked("delete") /\ Took(AskDelete(host, Message.id), past)
HearPost ==
  /\ Asked("post")
  /\ LET h == PostToTeamsAsync(host, Message.text)
         warns == h.warned # host.warned /\ h.postState = "warning"
     IN  Took(h, [past EXCEPT !.warned = @ \/ warns])

HostHears == HearRefresh \/ HearSelect \/ HearReload \/ HearSend \/ HearEdit \/ HearDelete \/ HearPost

-----------------------------------------------------------------------------
(* The page takes the host's messages, in order. *)

News == Head(host.out)
Told(type) == host.out # <<>> /\ News.type = type
Shown(p) ==
  /\ page' = p
  /\ host' = [host EXCEPT !.out = Tail(@)] /\ UNCHANGED <<teams, left>>

PageState         == Told("state") /\ Shown(ShowStatePanel(page, News)) /\ UNCHANGED past
PageThread        == Told("thread") /\ Shown(ShowThreadOnPage(page, News)) /\ UNCHANGED past
PageConversations == Told("conversations") /\ Shown(ApplyConversations(page, News)) /\ UNCHANGED past
PageEditState     == Told("editState") /\ Shown(ShowEditState(page, News)) /\ UNCHANGED past
PageDeleteState   == Told("deleteState") /\ Shown(ShowDeleteState(page, News)) /\ UNCHANGED past
PageDraft ==
  /\ Told("draft") /\ Shown(ShowDraft(page, News))
  /\ past' = [past EXCEPT !.risky = @ /\ ~TakesDraft(page, News)]

\* misled: a repeated answer told the page that its own send had ended.
PageSendState ==
  /\ Told("sendState") /\ Shown(ShowSendStateOnPage(page, News))
  /\ LET misled == past.misled \/ (News.again /\ page.replySending /\ News.kind # "sending")
     IN  past' = [past EXCEPT !.misled = misled,
                    !.letGo = IF misled /\ ClearsReply(page, News) THEN @ \cup Word(page.reply) ELSE @]

\* risky: "sent" was told of another text than the one in the box.
PagePostState ==
  /\ Told("postState") /\ Shown(ShowPostStateOnPage(page, News))
  /\ past' = [past EXCEPT !.risky = @ \/ (News.kind = "sent" /\ page.draft \notin past.published)]

PageHears ==
  \/ PageState \/ PageThread \/ PageConversations \/ PageEditState \/ PageDeleteState
  \/ PageDraft \/ PageSendState \/ PagePostState

-----------------------------------------------------------------------------
(* Teams: what a read finds, and what becomes of a change. *)

Fails(faulty) == IF faulty THEN Spend("fault") ELSE UNCHANGED left

\* A read of the post: also lists the ticket's chats.
PostRead ==
  IF teams.root = "up" THEN Result("found", Post, teams.in[Post], TRUE, teams.chats)
  ELSE Result("notPosted", "", {}, TRUE, teams.chats)
Unread(state) == Result(state, "", {}, FALSE, {})

\* A chat the ticket no longer has is a failed read that lists the others.
ReadOf(conv) ==
  IF conv = Post THEN PostRead
  ELSE IF conv \in teams.chats THEN Result("found", conv, teams.in[conv], TRUE, teams.chats)
  ELSE Result("failed", "", {}, TRUE, teams.chats)
Answers(conv, faulty) ==
  IF faulty THEN {Unread("failed"), Unread("signedOut")} ELSE {ReadOf(conv)}

ServeRead ==
  \E faulty \in BOOLEAN : \E r \in Answers(ReadConv(host.read.conv), faulty) :
    /\ host.read.stage = "asked"
    /\ host' = [host EXCEPT !.read.stage = "served", !.read.result = r]
    /\ Fails(faulty) /\ UNCHANGED <<page, teams, past>>

ServeWait ==
  \E faulty \in BOOLEAN : \E r \in Answers(Post, faulty) :
    /\ host.wait.stage = "asked"
    /\ host' = [host EXCEPT !.wait.stage = "served", !.wait.result = r]
    /\ Fails(faulty) /\ UNCHANGED <<page, teams, past>>

\* The thread after a change, as the service re-reads it; a channel's re-read lists no chats.
Reread(conv, msgs) == Result("found", conv, msgs, conv # Post, IF conv = Post THEN {} ELSE teams.chats)

\* A change is done or not, and the answer says so, or that it is uncertain.  A re-read that
\* fails leaves no After.
Outcomes == {"sent", "sentUnread", "failed", "uncertain", "uncertainDone"}
AnswerOf(o) == CASE o \in {"sent", "sentUnread"} -> "sent" [] o = "failed" -> "failed" [] OTHER -> "uncertain"
IsDone(o) == o \in {"sent", "sentUnread", "uncertainDone"}

Exists(conv) == IF conv = Post THEN teams.root = "up" ELSE conv \in teams.chats

ServeSend ==
  \E o \in Outcomes :
    LET s == host.send
        after == teams.in[s.conv] \cup {[id |-> s.text, ver |-> "first"]}
    IN  /\ s.stage = "asked"
        /\ IsDone(o) => Exists(s.conv)
        /\ Fails(o # "sent" /\ Exists(s.conv))
        /\ host' = [host EXCEPT !.send.stage = "served", !.send.answer = AnswerOf(o),
                      !.send.after = IF o = "sent" THEN Reread(s.conv, after) ELSE NoResult]
        /\ teams' = IF IsDone(o) THEN [teams EXCEPT !.in[s.conv] = after] ELSE teams
        /\ past' = IF ~IsDone(o) THEN past
                   ELSE [past EXCEPT !.copies[s.text] = @ + 1, !.acked = Forgotten(@, s.conv, s.text)]
        /\ UNCHANGED page

\* The service saves where a sent post is; one that went up uncertainly waits for the index.
ServePost ==
  \E o \in Outcomes \ {"sentUnread"} :
    /\ host.post.stage = "asked"
    /\ Fails(o # "sent")
    /\ host' = [host EXCEPT !.post.stage = "served", !.post.answer = AnswerOf(o)]
    /\ teams' = IF ~IsDone(o) THEN teams
                ELSE [teams EXCEPT !.root = IF o = "sent" \/ @ = "up" THEN "up" ELSE "unseen",
                        !.in[Post] = IF o = "sent" \/ teams.root # "up"
                                     THEN {[id |-> "root", ver |-> "first"]} ELSE @]
    /\ past' = IF ~IsDone(o) THEN past
               ELSE [past EXCEPT !.posts = @ + 1, !.warned = FALSE,
                       !.published = @ \cup {host.post.text},
                       !.acked = {a \in @ : a.conv # Post}]
    /\ UNCHANGED page

Changed(conv, what, id) ==
  LET others == {m \in teams.in[conv] : m.id # id}
  IN  IF what = "edit" THEN others \cup {[id |-> id, ver |-> "edited"]}
      ELSE IF id = "root" THEN {} ELSE others

\* Deleting the root drops the post; After is then a fresh read of the ticket.
ServeChange ==
  \E o \in Outcomes :
    LET c == host.change
        msgs == Changed(c.conv, c.what, c.id)
        dropsPost == c.what = "delete" /\ c.id = "root"
        possible == Exists(c.conv) /\ HasId(teams.in[c.conv], c.id)
    IN  /\ c.stage = "asked"
        /\ IsDone(o) => possible
        /\ Fails(o # "sent" /\ possible)
        /\ \E r \in IF dropsPost /\ o = "sentUnread" THEN {Unread("failed"), Unread("signedOut")}
                    ELSE IF dropsPost /\ o = "sent" THEN {Result("notPosted", "", {}, TRUE, teams.chats)}
                    ELSE IF o = "sent" THEN {Reread(c.conv, msgs)} ELSE {NoResult} :
             host' = [host EXCEPT !.change.stage = "served", !.change.answer = AnswerOf(o), !.change.after = r]
        /\ teams' = IF ~IsDone(o) THEN teams
                    ELSE [teams EXCEPT !.in[c.conv] = msgs, !.root = IF dropsPost THEN "none" ELSE @]
        /\ past' = IF ~IsDone(o) THEN past
                   ELSE [past EXCEPT !.acked = IF dropsPost THEN {a \in @ : a.conv # Post}
                                               ELSE Forgotten(@, c.conv, c.id)]
        /\ UNCHANGED page

Serves == ServeRead \/ ServeWait \/ ServeSend \/ ServePost \/ ServeChange

\* Other people write, add the user to a chat or take him out; the index finds a post.
OthersWrite ==
  \E c \in Convs :
    /\ Exists(c)
    /\ teams' = [teams EXCEPT !.in[c] = @ \cup {[id |-> "theirs", ver |-> "first"]}]
ChatsChange ==
  \E c \in Chats : teams' = [teams EXCEPT !.chats = IF c \in @ THEN @ \ {c} ELSE @ \cup {c}]
IndexFinds == teams.root = "unseen" /\ teams' = [teams EXCEPT !.root = "up"]

Elsewhere ==
  /\ OthersWrite \/ ChatsChange \/ IndexFinds
  /\ Spend("elsewhere") /\ UNCHANGED <<page, host, past>>

-----------------------------------------------------------------------------
(* The host's continuations, after an await. *)

Lands(call, h, p) ==
  /\ call.stage = "served" /\ Step(h, p) /\ UNCHANGED <<page, teams, left>>

\* A read that is shown ends a crossing, unless a change still crosses.
ReadLands ==
  LET shown == AppliesRead(host) /\ ~ChatGone(host, host.read.result)
  IN  Lands(host.read, ReadLanded(host), [past EXCEPT !.crossed = @ /\ ~shown])

WaitLands == Lands(host.wait, WaitLanded(host), past)

SendLands ==
  LET s == host.send
      h == SendLanded(host)
  IN  Lands(s, h,
        [past EXCEPT !.told = IF h.sendState = "uncertain" THEN @ \cup {s.text} ELSE @,
           !.acked = IF s.answer = "sent"
                     THEN Forgotten(@, s.conv, s.text) \cup {[conv |-> s.conv, id |-> s.text, ver |-> "first"]}
                     ELSE @])

PostLands == Lands(host.post, PostLanded(host), past)

ChangeLands ==
  LET c == host.change
      ver == IF c.what = "edit" THEN "edited" ELSE "gone"
  IN  Lands(c, ApplyChangeResult(host),
        [past EXCEPT !.acked = IF c.answer = "sent" /\ c.id # "root"
                               THEN @ \cup {[conv |-> c.conv, id |-> c.id, ver |-> ver]} ELSE @])

HostLands == ReadLands \/ WaitLands \/ SendLands \/ PostLands \/ ChangeLands

-----------------------------------------------------------------------------
\* Each conversation holds a message of the user's own.
TeamsAtStart(s) ==
  [root |-> s.root, chats |-> s.chats,
   in |-> [c \in Convs |->
     IF c # Post THEN {[id |-> "mine", ver |-> "first"]}
     ELSE IF s.root = "up" THEN [id : {"root", "mine"}, ver : {"first"}] ELSE {}]]

PastAtStart(posted) ==
  [written |-> {}, letGo |-> {}, copies |-> [t \in Texts |-> 0], told |-> {}, misled |-> FALSE,
   posts |-> IF posted THEN 1 ELSE 0, warned |-> FALSE, published |-> {}, risky |-> FALSE,
   acked |-> {}, overlap |-> FALSE, crossed |-> FALSE]

Init ==
  \E s \in Starts :
    /\ teams = TeamsAtStart(s)
    /\ left = s.left
    /\ page = PageAtStart
    /\ host = HostAtStart(s.chosen, s.file, s.posted)
    /\ past = PastAtStart(s.posted)

Next == UserNext \/ HostHears \/ PageHears \/ Serves \/ HostLands \/ Elsewhere

\* The two message loops and the UI thread run; every call to Teams has a timeout.
SystemNext == HostHears \/ PageHears \/ Serves \/ HostLands

Spec == Init /\ [][Next]_vars /\ WF_vars(SystemNext)
-----------------------------------------------------------------------------
(* Properties. *)

TypeOK ==
  /\ page \in Pages /\ host \in Hosts
  /\ teams \in [root : {"none", "unseen", "up"}, in : [Convs -> SUBSET Messages], chats : SUBSET Chats]
  /\ left \in [Kinds -> Nat]
  /\ past \in [written : SUBSET Texts, letGo : SUBSET Texts, copies : [Texts -> Nat], told : SUBSET Texts,
               misled : BOOLEAN, posts : Nat, warned : BOOLEAN, published : SUBSET Posts, risky : BOOLEAN,
               acked : SUBSET [conv : Convs, id : Ids, ver : {"first", "edited", "gone"}],
               overlap : BOOLEAN, crossed : BOOLEAN]

\* A reply the user wrote stays in the box until it is in Teams (Letters),
\* unless another text was put in or a repeated answer misled the page: the
\* box of thread.js:682 against the answers of SendAsync.
Promise == INSTANCE Letters WITH
  box <- page.reply, delivered <- {t \in Texts : past.copies[t] > 0}, letGo <- past.letGo
KeepsPromise == Promise!Spec

\* A reply goes up a second time only after the user was told that the first
\* may have gone up (or a repeated answer freed the box while it was sent).
TwiceOnlyIfTold ==
  \A t \in Texts : past.copies[t] > 1 => t \in past.told \/ past.misled

\* A post goes up while an earlier one may be in Teams only after a warning
\* shown since that one went up (PostToTeamsAsync).
SecondPostIsWarned ==
  host.post.stage = "asked" /\ past.posts > 0 => past.warned

\* The thread on screen, which replies, edits and deletes go to, is of the
\* chosen conversation; else it is a chat the ticket has no more and a read of
\* the post is on its way, or a change was under way in another conversation
\* when the user chose (SelectConversation, ReadAsync, UpdateConversation).
Leaving(h) == h.found.conv \in Chats \ h.lastChats /\ (Busy(h.read) \/ Busy(h.wait))
ShownIsChosen ==
  host.found # NoThread /\ ~past.crossed => host.found.conv = host.chosen \/ Leaving(host)

InFlight(h) == Busy(h.read) \/ Busy(h.wait) \/ Busy(h.send) \/ Busy(h.post) \/ Busy(h.change)
AtRest == ~InFlight(host) /\ host.out = <<>> /\ page.out = <<>>

\* acked is in the thread the page shows.
ShowsChange(a, msgs) ==
  CASE a.ver = "first"  -> HasId(msgs, a.id)
    [] a.ver = "edited" -> [id |-> a.id, ver |-> "edited"] \in msgs
    [] a.ver = "gone"   -> ~HasId(msgs, a.id)

\* With nothing on its way the page shows the host's thread, every change the
\* user was told is done is in it (unless two changes were under way at once),
\* and no panel says that something is still going on (unless the last read
\* failed with the draft kept, which the host only writes in a line).
AtRestFresh ==
  AtRest =>
    /\ host.found # NoThread =>
         /\ page.mode = "thread" /\ page.thread = host.found
         /\ past.overlap \/ \A a \in past.acked :
              a.conv = host.found.conv => ShowsChange(a, host.found.msgs)
    /\ page.panel \in {"loading", "waitingPost"} => host.inline

\* What the user made of the draft is replaced only when Reload draft was
\* pressed or that very text went up (showDraft, showPostState).
DraftEditsSurvive ==
  [][page.draft \in Own /\ page'.draft \in Drafts =>
       \/ Told("draft") /\ News.reload
       \/ page.draft \in past.published \/ past.risky]_vars

\* Whatever the user presses, the page gets its buttons back: a box that is
\* busy or a message that is being deleted does not stay so.
Pressed == page.replySending \/ page.postBusy \/ page.edit.busy \/ page.deleting # ""
EveryPressIsAnswered == Pressed ~> ~Pressed
=============================================================================
