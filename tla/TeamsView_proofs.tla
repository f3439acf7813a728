-------------------------- MODULE TeamsView_proofs --------------------------
(***************************************************************************)
(* Proofs about the Teams tab: its type invariant, the conversation shown, *)
(* the warning before a second post, where a reply is on its way, that the *)
(* tab implements Letters, what becomes of an edited draft, and what is on *)
(* screen when nothing is on its way; for every set of texts, chats and    *)
(* drafts and every situation a behaviour may start in.                    *)
(***************************************************************************)
EXTENDS TeamsInvariants, SequenceTheorems, TLAPS

-----------------------------------------------------------------------------
(* The host's operators: where they lead, and what they leave alone. *)

LEMMA SayOK ==
  ASSUME NEW h \in Hosts, NEW m \in HostMessages
  PROVE  Say(h, m) \in Hosts /\ Same(Say(h, m), h) /\ Say(h, m).postState = h.postState
<1>1. Append(h.out, m) \in Seq(HostMessages)
  <2>1. h.out \in Seq(HostMessages)
    BY DEF Hosts
  <2>. QED BY <2>1, AppendProperties
<1>2. Say(h, m) \in Hosts
  BY <1>1 DEF Say, Hosts
<1>3. Same(Say(h, m), h)
  BY DEF Say, Same, Hosts
<1>4. Say(h, m).postState = h.postState
  BY DEF Say, Hosts
<1>. QED BY <1>2, <1>3, <1>4

LEMMA StateMessages ==
  ASSUME NEW kind, NEW inline \in BOOLEAN
  PROVE  /\ kind \in Panels => [type |-> "state", kind |-> kind, inline |-> inline] \in HostMessages
         /\ kind \in Answered \cup {"sending"} =>
              [type |-> "sendState", kind |-> kind, again |-> inline] \in HostMessages
         /\ kind \in Answered \cup {"posting", "warning"} =>
              [type |-> "postState", kind |-> kind, again |-> inline] \in HostMessages
BY DEF HostMessages

LEMMA SameTrans ==
  ASSUME NEW f, NEW g, NEW h, Same(f, g), Same(g, h)
  PROVE  Same(f, h)
BY DEF Same

LEMMA ShowStateOK ==
  ASSUME NEW h \in Hosts, NEW kind \in Panels, NEW inline \in BOOLEAN
  PROVE  ShowState(h, kind, inline) \in Hosts /\ Same(ShowState(h, kind, inline), h)
<1>. DEFINE g == [h EXCEPT !.state = kind, !.inline = inline]
            m == [type |-> "state", kind |-> kind, inline |-> inline]
<1>1. g \in Hosts
  BY DEF Hosts
<1>2. Same(g, h)
  BY DEF Hosts, Same
<1>3. m \in HostMessages
  BY StateMessages
<1>4. ShowState(h, kind, inline) = Say(g, m)
  BY DEF ShowState
<1>5. Say(g, m) \in Hosts /\ Same(Say(g, m), g)
  BY <1>1, <1>3, SayOK
<1>. QED BY <1>2, <1>4, <1>5, SameTrans

LEMMA ShowSendStateOK ==
  ASSUME NEW h \in Hosts, NEW kind \in Answered \cup {"sending"}
  PROVE  ShowSendState(h, kind) \in Hosts /\ Same(ShowSendState(h, kind), h)
<1>. DEFINE g == [h EXCEPT !.sendState = kind]
            m == [type |-> "sendState", kind |-> kind, again |-> FALSE]
<1>1. g \in Hosts
  BY DEF Hosts
<1>2. Same(g, h)
  BY DEF Hosts, Same
<1>3. m \in HostMessages
  BY StateMessages
<1>4. ShowSendState(h, kind) = Say(g, m)
  BY DEF ShowSendState
<1>5. Say(g, m) \in Hosts /\ Same(Say(g, m), g)
  BY <1>1, <1>3, SayOK
<1>. QED BY <1>2, <1>4, <1>5, SameTrans

LEMMA ShowPostStateOK ==
  ASSUME NEW h \in Hosts, NEW kind \in Answered \cup {"posting", "warning"}
  PROVE  /\ ShowPostState(h, kind) \in Hosts /\ Same(ShowPostState(h, kind), h)
         /\ ShowPostState(h, kind).postState = kind
<1>. DEFINE g == [h EXCEPT !.postState = kind]
            m == [type |-> "postState", kind |-> kind, again |-> FALSE]
<1>1. g \in Hosts
  BY DEF Hosts
<1>6. g.postState = kind
  BY DEF Hosts
<1>2. Same(g, h)
  BY DEF Hosts, Same
<1>3. m \in HostMessages
  BY StateMessages
<1>4. ShowPostState(h, kind) = Say(g, m)
  BY DEF ShowPostState
<1>5. Say(g, m) \in Hosts /\ Same(Say(g, m), g) /\ Say(g, m).postState = g.postState
  BY <1>1, <1>3, SayOK
<1>7. Say(g, m).postState = kind
  BY <1>5, <1>6
<1>. HIDE DEF g, m
<1>. QED BY <1>2, <1>4, <1>5, <1>7, SameTrans

LEMMA PostChangeStateOK ==
  ASSUME NEW h \in Hosts, NEW type \in {"editState", "deleteState"}, NEW id \in Ids,
         NEW state \in {"saving", "saved", "deleting", "deleted", "cancelled", "failed", "uncertain"}
  PROVE  PostChangeState(h, type, id, state) \in Hosts /\ Same(PostChangeState(h, type, id, state), h)
<1>1. [type |-> type, id |-> id, state |-> state] \in HostMessages
  BY DEF HostMessages
<1>. QED BY <1>1, SayOK DEF PostChangeState

LEMMA ReadConvOK ==
  ASSUME NEW c \in Convs \cup {Unchosen}
  PROVE  ReadConv(c) \in Convs /\ (c \in Convs => ReadConv(c) = c)
BY DEF ReadConv, Convs, Post, Unchosen

LEMMA PostConversationsOK ==
  ASSUME NEW h \in Hosts
  PROVE  PostConversations(h) \in Hosts /\ Same(PostConversations(h), h)
<1>1. h.lastChats \in SUBSET Chats /\ ReadConv(h.chosen) \in Convs
  BY ReadConvOK DEF Hosts
<1>2. [type |-> "conversations", chats |-> h.lastChats, selected |-> ReadConv(h.chosen)] \in HostMessages
  BY <1>1 DEF HostMessages
<1>. QED BY <1>2, SayOK DEF PostConversations

LEMMA PostThreadOK ==
  ASSUME NEW h \in Hosts
  PROVE  PostThread(h) \in Hosts /\ Same(PostThread(h), h)
<1>1. [type |-> "thread", thread |-> h.found] \in HostMessages
  BY DEF HostMessages, Hosts
<1>. QED BY <1>1, SayOK DEF PostThread

LEMMA PostDraftOK ==
  ASSUME NEW h \in Hosts, NEW reload \in BOOLEAN
  PROVE  PostDraft(h, reload) \in Hosts /\ Same(PostDraft(h, reload), h)
<1>1. [type |-> "draft", text |-> h.file, reload |-> reload] \in HostMessages
  BY DEF HostMessages, Hosts
<1>2. Same(h, h)
  BY DEF Same
<1>. QED BY <1>1, <1>2, SayOK DEF PostDraft

LEMMA ClearStateOK ==
  ASSUME NEW h \in Hosts
  PROVE  ClearState(h) \in Hosts /\ Same(ClearState(h), h)
<1>1. ClearState(h) \in Hosts
  BY DEF ClearState, Hosts
<1>2. Same(ClearState(h), h)
  BY DEF ClearState, Hosts, Same
<1>. QED BY <1>1, <1>2

-----------------------------------------------------------------------------
(* Reads: what they keep, and what becomes of the thread on screen. *)

LEMMA IdleOK ==
  /\ IdleRead \in [stage : Stages, conv : Convs \cup {Unchosen}, quiet : BOOLEAN, result : Results]
  /\ NoResult \in Results
BY DEF IdleRead, NoResult, Result, Results, Stages, Unchosen

LEMMA IdleFacts ==
  /\ ~Busy(IdleRead) /\ ~Busy(IdleWait) /\ ~Busy(IdleSend) /\ ~Busy(IdlePost) /\ ~Busy(IdleChange)
  /\ IdlePost.stage = "idle" /\ IdleWait.stage = "idle"
  /\ IdleSend.stage = "idle" /\ IdleSend.after.state = "null"
  /\ IdleChange.stage = "idle" /\ IdleChange.after.state = "null"
BY DEF Busy, IdleRead, IdleWait, IdleSend, IdlePost, IdleChange, NoResult, Result

LEMMA ReadAsyncOK ==
  ASSUME NEW h \in Hosts, NEW quiet \in BOOLEAN
  PROVE  LET g == ReadAsync(h, quiet)
         IN  /\ g \in Hosts /\ Kept(g, h) /\ ReadKept(g, h)
             /\ g.chosen = h.chosen /\ g.lastChats = h.lastChats /\ g.found = h.found
             /\ g.notPosted = h.notPosted
             /\ Replaced(h) \/ ~quiet => Replaced(g)
<1>1. CASE Busy(h.wait)
  BY <1>1 DEF ReadAsync, Kept, ReadKept, Replaced
<1>2. CASE ~Busy(h.wait) /\ Busy(h.read)
  <2>. DEFINE g == [h EXCEPT !.readAgain = TRUE]
  <2>1. g \in Hosts
    BY DEF Hosts
  <2>3. /\ Kept(g, h) /\ g.read = h.read /\ g.readAgain
        /\ g.chosen = h.chosen /\ g.lastChats = h.lastChats /\ g.found = h.found
        /\ g.notPosted = h.notPosted
    BY DEF Hosts, Kept
  <2>4. ReadAsync(h, quiet) = g
    BY <1>2 DEF ReadAsync
  <2>. QED BY <1>2, <2>1, <2>3, <2>4 DEF ReadKept, Replaced
<1>3. CASE ~Busy(h.wait) /\ ~Busy(h.read)
  <2>. DEFINE r == [IdleRead EXCEPT !.stage = "asked", !.conv = h.chosen, !.quiet = quiet]
              g == [h EXCEPT !.read = r]
  <2>1. /\ r \in [stage : Stages, conv : Convs \cup {Unchosen}, quiet : BOOLEAN, result : Results]
        /\ r.stage = "asked" /\ r.conv = h.chosen /\ r.quiet = quiet
    BY IdleOK DEF IdleRead, Hosts, Stages
  <2>. HIDE DEF r
  <2>2. g \in Hosts
    BY <2>1 DEF Hosts
  <2>3. /\ Kept(g, h) /\ g.read = r
        /\ g.chosen = h.chosen /\ g.lastChats = h.lastChats /\ g.found = h.found
        /\ g.notPosted = h.notPosted
    BY DEF Hosts, Kept
  <2>. HIDE DEF g
  <2>4. ReadAsync(h, quiet) = IF quiet THEN g ELSE ShowState(g, "loading", FALSE)
    BY <1>3 DEF ReadAsync, g, r
  <2>5. ShowState(g, "loading", FALSE) \in Hosts /\ Same(ShowState(g, "loading", FALSE), g)
    BY <2>2, ShowStateOK DEF Panels
  <2>6. Busy(g.read)
    BY <2>1, <2>3 DEF Busy
  <2>7. CASE quiet
    BY <1>3, <2>1, <2>2, <2>3, <2>4, <2>7 DEF ReadKept, Replaced
  <2>8. CASE ~quiet
    BY <2>1, <2>3, <2>4, <2>5, <2>6, <2>8 DEF ReadKept, Replaced, Same, Kept
  <2>. QED BY <2>7, <2>8
<1>. QED BY <1>1, <1>2, <1>3

LEMMA SameKeeps ==
  ASSUME NEW g, NEW h, Same(g, h)
  PROVE  /\ Kept(g, h) /\ ReadKept(g, h)
         /\ ReadAnswer(g) <=> ReadAnswer(h)
         /\ AfterAnswer(g) <=> AfterAnswer(h)
         /\ CallsFilled(g) <=> CallsFilled(h)
         /\ FoundFilled(g) <=> FoundFilled(h)
         /\ NothingChosen(g) <=> NothingChosen(h)
         /\ Crossing(g) <=> Crossing(h)
         /\ Right(g) <=> Right(h)
         /\ Replaced(g) <=> Replaced(h)
BY DEF Same, Kept, ReadKept, ReadAnswer, AfterAnswer, CallsFilled, FoundFilled, NothingChosen,
       Crossing, Right, Replaced

LEMMA ReadSameTrans ==
  ASSUME NEW f, NEW g, NEW h, ReadSame(f, g), ReadSame(g, h)
  PROVE  ReadSame(f, h)
BY DEF ReadSame, Kept

LEMMA SameReadSame ==
  ASSUME NEW g, NEW h, Same(g, h)
  PROVE  ReadSame(g, h)
BY DEF Same, ReadSame, Kept

LEMMA ChooseOK ==
  ASSUME NEW h \in Hosts, NEW c \in Convs
  PROVE  LET g == ChooseConversation(h, c)
         IN  /\ g \in Hosts /\ ReadSame(g, h) /\ g.chosen = c
             /\ g.found = h.found /\ g.lastChats = h.lastChats
<1>. DEFINE g == [h EXCEPT !.chosen = c]
<1>1. g \in Hosts
  BY DEF Hosts
<1>2. g.chosen = c /\ g.found = h.found /\ g.lastChats = h.lastChats /\ ReadSame(g, h)
  BY DEF Hosts, ReadSame, Kept
<1>3. ChooseConversation(h, c) = IF g.lastChats = {} THEN g ELSE PostConversations(g)
  BY DEF ChooseConversation
<1>. HIDE DEF g
<1>4. PostConversations(g) \in Hosts /\ Same(PostConversations(g), g)
  BY <1>1, PostConversationsOK
<1>5. ReadSame(PostConversations(g), h)
  BY <1>2, <1>4, SameReadSame, ReadSameTrans
<1>. QED BY <1>1, <1>2, <1>3, <1>4, <1>5 DEF Same

LEMMA ListChatsOK ==
  ASSUME NEW h \in Hosts, NEW r \in Results
  PROVE  LET g == ListChats(h, r)
         IN  /\ g \in Hosts /\ ReadSame(g, h) /\ g.chosen = h.chosen /\ g.found = h.found
             /\ g.lastChats = IF r.listed THEN r.chats ELSE h.lastChats
<1>. DEFINE g == [h EXCEPT !.lastChats = r.chats]
<1>0. r.chats \in SUBSET Chats
  BY DEF Results
<1>1. g \in Hosts
  BY <1>0 DEF Hosts
<1>2. g.chosen = h.chosen /\ g.found = h.found /\ g.lastChats = r.chats /\ ReadSame(g, h)
  BY DEF Hosts, ReadSame, Kept
<1>3. ListChats(h, r) = IF ~r.listed THEN h ELSE IF r.chats = {} THEN g ELSE PostConversations(g)
  BY DEF ListChats
<1>. HIDE DEF g
<1>4. PostConversations(g) \in Hosts /\ Same(PostConversations(g), g)
  BY <1>1, PostConversationsOK
<1>5. ReadSame(PostConversations(g), h)
  BY <1>2, <1>4, SameReadSame, ReadSameTrans
<1>6. ReadSame(h, h)
  BY DEF ReadSame, Kept
<1>. QED BY <1>1, <1>2, <1>3, <1>4, <1>5, <1>6 DEF Same

LEMMA ShowThreadOK ==
  ASSUME NEW h \in Hosts, NEW r \in Results, r.conv \in Convs
  PROVE  LET g == ShowThread(h, r)
         IN  /\ g \in Hosts /\ ReadSame(g, h) /\ g.chosen = h.chosen /\ g.lastChats = h.lastChats
             /\ g.found = ThreadOf(r)
<1>. DEFINE f == [h EXCEPT !.found = ThreadOf(r), !.notPosted = FALSE]
<1>0. ThreadOf(r) \in Threads
  BY DEF ThreadOf, Threads, Results
<1>1. f \in Hosts
  BY <1>0 DEF Hosts
<1>2. f.chosen = h.chosen /\ f.lastChats = h.lastChats /\ f.found = ThreadOf(r) /\ ReadSame(f, h)
  BY DEF Hosts, ReadSame, Kept
<1>3. ShowThread(h, r) = PostThread(ClearState(f))
  BY DEF ShowThread
<1>. HIDE DEF f
<1>4. ClearState(f) \in Hosts /\ Same(ClearState(f), f)
  BY <1>1, ClearStateOK
<1>5. /\ PostThread(ClearState(f)) \in Hosts
      /\ Same(PostThread(ClearState(f)), f)
  BY <1>4, PostThreadOK, SameTrans
<1>6. ReadSame(PostThread(ClearState(f)), h)
  BY <1>2, <1>5, SameReadSame, ReadSameTrans
<1>. QED BY <1>2, <1>3, <1>5, <1>6 DEF Same

LEMMA ShowResultOK ==
  ASSUME NEW h \in Hosts, NEW r \in Results, r.state # "null", r.state = "found" => r.conv \in Convs
  PROVE  LET g == ShowResult(h, r)
         IN  /\ g \in Hosts /\ ReadSame(g, h) /\ g.chosen = h.chosen /\ g.lastChats = h.lastChats
             /\ g.found = IF r.state = "found" THEN ThreadOf(r) ELSE NoThread
<1>1. CASE r.state = "found"
  BY <1>1, ShowThreadOK DEF ShowResult
<1>2. CASE r.state # "found"
  <2>. DEFINE f == [h EXCEPT !.found = NoThread]
              n == [f EXCEPT !.notPosted = TRUE]
  <2>1. f \in Hosts
    BY DEF Hosts, Threads, NoThread
  <2>2. f.chosen = h.chosen /\ f.lastChats = h.lastChats /\ f.found = NoThread /\ ReadSame(f, h)
    BY DEF Hosts, ReadSame, Kept
  <2>3. ShowResult(h, r) =
          CASE r.state = "notPosted" -> PostDraft(ClearState(n), FALSE)
            [] r.state = "failed" /\ f.notPosted -> ShowState(f, "failed", TRUE)
            [] OTHER -> ShowState(f, r.state, FALSE)
    BY <1>2 DEF ShowResult
  <2>4. n \in Hosts
    BY DEF Hosts, Threads, NoThread
  <2>. HIDE DEF f
  <2>5. n.chosen = f.chosen /\ n.lastChats = f.lastChats /\ n.found = f.found /\ ReadSame(n, f)
    BY <2>1 DEF Hosts, ReadSame, Kept
  <2>. HIDE DEF n
  <2>6. r.state \in {"notPosted", "signedOut", "failed"}
    BY <1>2 DEF Results
  <2>7. CASE r.state = "notPosted"
    <3>1. ClearState(n) \in Hosts /\ Same(ClearState(n), n)
      BY <2>4, ClearStateOK
    <3>2. PostDraft(ClearState(n), FALSE) \in Hosts /\ Same(PostDraft(ClearState(n), FALSE), n)
      BY <3>1, PostDraftOK, SameTrans
    <3>3. ShowResult(h, r) = PostDraft(ClearState(n), FALSE)
      BY <2>3, <2>7
    <3>4. ReadSame(ShowResult(h, r), h)
      BY <2>2, <2>5, <3>2, <3>3, SameReadSame, ReadSameTrans
    <3>. QED BY <1>2, <2>2, <2>5, <3>2, <3>3, <3>4 DEF Same
  <2>8. CASE r.state \in {"signedOut", "failed"}
    <3>1. PICK kind \in Panels, inline \in BOOLEAN : ShowResult(h, r) = ShowState(f, kind, inline)
      BY <2>3, <2>8 DEF Panels
    <3>2. ShowResult(h, r) \in Hosts /\ Same(ShowResult(h, r), f)
      BY <2>1, <3>1, ShowStateOK
    <3>3. ReadSame(ShowResult(h, r), h)
      BY <2>2, <3>2, SameReadSame, ReadSameTrans
    <3>. QED BY <1>2, <2>2, <3>2, <3>3 DEF Same
  <2>. QED BY <2>6, <2>7, <2>8
<1>. QED BY <1>1, <1>2

LEMMA FoundIsThread ==
  ASSUME NEW r, r.conv \in Convs
  PROVE  ThreadOf(r).conv = r.conv /\ ThreadOf(r) # NoThread
BY KindsOfText DEF ThreadOf, NoThread, Convs, Post

\* A result is shown: the thread is of the chosen conversation, or a read replaces it.
LEMMA ApplyResultOK ==
  ASSUME NEW h \in Hosts, NEW r \in Results, r.state # "null",
         r.state = "found" => r.conv \in Convs /\ (h.chosen = Unchosen => r.listed),
         FoundFilled(h), NothingChosen(h)
  PROVE  LET g == ApplyResult(h, r)
         IN  /\ g \in Hosts /\ Kept(g, h) /\ ReadKept(g, h)
             /\ h.chosen \in Convs => g.chosen \in Convs
             /\ FoundFilled(g) /\ NothingChosen(g)
             /\ /\ Settled(h) \/ ~ChatGone(h, r)
                /\ r.state = "found" =>
                     r.conv = IF h.chosen = Unchosen THEN Post ELSE h.chosen
                => Right(g)
<1>. DEFINE l == ListChats(h, r)
<1>1. /\ l \in Hosts /\ ReadSame(l, h) /\ l.chosen = h.chosen /\ l.found = h.found
      /\ l.lastChats = IF r.listed THEN r.chats ELSE h.lastChats
  BY ListChatsOK
<1>2. /\ h.chosen \in Convs \cup {Unchosen} /\ r.chats \in SUBSET Chats
      /\ Unchosen \notin Convs /\ Post \notin Chats /\ Post \in Convs /\ Chats \subseteq Convs
  BY KindsOfText DEF Hosts, Results, Unchosen, Convs, Post
<1>3. ApplyResult(h, r) =
        IF ChatGone(h, r) THEN ReadAsync(ChooseConversation(l, Post), FALSE)
        ELSE IF TakesChat(h, r) THEN ReadAsync(ChooseConversation(l, CHOOSE c \in r.chats : TRUE), FALSE)
        ELSE IF FirstChoice(h, r) /\ r.state = "found" THEN ShowResult(ChooseConversation(l, Post), r)
        ELSE ShowResult(l, r)
  BY DEF ApplyResult
<1>. HIDE DEF l
<1>4. CASE ChatGone(h, r)
  <2>. DEFINE n == ChooseConversation(l, Post)
              g == ReadAsync(n, FALSE)
  <2>1. n \in Hosts /\ ReadSame(n, l) /\ n.chosen = Post /\ n.found = l.found /\ n.lastChats = l.lastChats
    BY <1>1, <1>2, ChooseOK
  <2>. HIDE DEF n
  <2>2. /\ g \in Hosts /\ Kept(g, n) /\ ReadKept(g, n) /\ g.chosen = n.chosen
        /\ g.lastChats = n.lastChats /\ g.found = n.found /\ Replaced(g)
    BY <2>1, ReadAsyncOK
  <2>3. ApplyResult(h, r) = g
    BY <1>3, <1>4 DEF n
  <2>. HIDE DEF g
  <2>4. Kept(g, h) /\ ReadKept(g, h)
    BY <1>1, <2>1, <2>2 DEF Kept, ReadKept, ReadSame
  <2>5. FoundFilled(g) /\ NothingChosen(g)
    BY <1>1, <1>2, <2>1, <2>2 DEF FoundFilled, NothingChosen
  <2>6. ASSUME Settled(h) PROVE Right(g)
    BY <1>1, <1>2, <1>4, <2>1, <2>2, <2>6 DEF Right, Settled, Stray, ChatGone, FoundFilled, Convs
  <2>. QED BY <1>2, <1>4, <2>1, <2>2, <2>3, <2>4, <2>5, <2>6
<1>5. CASE ~ChatGone(h, r) /\ TakesChat(h, r)
  <2>. DEFINE c == CHOOSE c \in r.chats : TRUE
              n == ChooseConversation(l, c)
              g == ReadAsync(n, FALSE)
  <2>0. c \in Convs
    BY <1>2, <1>5 DEF TakesChat
  <2>00. h.chosen = Unchosen
    BY <1>5 DEF TakesChat, FirstChoice
  <2>. HIDE DEF c
  <2>1. n \in Hosts /\ ReadSame(n, l) /\ n.chosen = c /\ n.found = l.found /\ n.lastChats = l.lastChats
    BY <1>1, <2>0, ChooseOK
  <2>. HIDE DEF n
  <2>2. /\ g \in Hosts /\ Kept(g, n) /\ ReadKept(g, n) /\ g.chosen = n.chosen
        /\ g.lastChats = n.lastChats /\ g.found = n.found /\ Replaced(g)
    BY <2>1, ReadAsyncOK
  <2>3. ApplyResult(h, r) = g
    BY <1>3, <1>5 DEF n, c
  <2>. HIDE DEF g
  <2>4. Kept(g, h) /\ ReadKept(g, h)
    BY <1>1, <2>1, <2>2 DEF Kept, ReadKept, ReadSame
  <2>5. g.found = NoThread
    BY <1>1, <2>00, <2>1, <2>2 DEF NothingChosen
  <2>6. FoundFilled(g) /\ NothingChosen(g) /\ Right(g)
    BY <1>2, <2>0, <2>1, <2>2, <2>5 DEF FoundFilled, NothingChosen, Right
  <2>. QED BY <2>0, <2>1, <2>2, <2>3, <2>4, <2>6
<1>6. CASE ~ChatGone(h, r) /\ ~TakesChat(h, r) /\ FirstChoice(h, r) /\ r.state = "found"
  <2>. DEFINE n == ChooseConversation(l, Post)
              g == ShowResult(n, r)
  <2>1. n \in Hosts /\ ReadSame(n, l) /\ n.chosen = Post /\ n.found = l.found /\ n.lastChats = l.lastChats
    BY <1>1, <1>2, ChooseOK
  <2>. HIDE DEF n
  <2>2. /\ g \in Hosts /\ ReadSame(g, n) /\ g.chosen = n.chosen /\ g.lastChats = n.lastChats
        /\ g.found = ThreadOf(r)
    BY <1>6, <2>1, ShowResultOK
  <2>3. ApplyResult(h, r) = g
    BY <1>3, <1>6 DEF n
  <2>. HIDE DEF g
  <2>4. Kept(g, h) /\ ReadKept(g, h)
    BY <1>1, <2>1, <2>2 DEF Kept, ReadKept, ReadSame
  <2>5. g.found.conv = r.conv /\ g.found # NoThread /\ r.conv \in Convs
    BY <1>6, <2>2, FoundIsThread
  <2>6. FoundFilled(g) /\ NothingChosen(g)
    BY <1>2, <2>1, <2>2, <2>5 DEF FoundFilled, NothingChosen
  <2>7. ASSUME r.conv = IF h.chosen = Unchosen THEN Post ELSE h.chosen PROVE Right(g)
    BY <1>6, <2>1, <2>2, <2>5, <2>7 DEF Right, FirstChoice
  <2>. QED BY <1>2, <1>6, <2>1, <2>2, <2>3, <2>4, <2>6, <2>7
<1>7. CASE ~ChatGone(h, r) /\ ~TakesChat(h, r) /\ ~(FirstChoice(h, r) /\ r.state = "found")
  <2>. DEFINE g == ShowResult(l, r)
  <2>2. /\ g \in Hosts /\ ReadSame(g, l) /\ g.chosen = l.chosen /\ g.lastChats = l.lastChats
        /\ g.found = IF r.state = "found" THEN ThreadOf(r) ELSE NoThread
    BY <1>1, ShowResultOK
  <2>3. ApplyResult(h, r) = g
    BY <1>3, <1>7
  <2>. HIDE DEF g
  <2>4. Kept(g, h) /\ ReadKept(g, h)
    BY <1>1, <2>2 DEF Kept, ReadKept, ReadSame
  <2>5. r.state = "found" => g.found.conv = r.conv /\ r.conv \in Convs /\ h.chosen # Unchosen
    BY <1>7, <2>2, FoundIsThread DEF FirstChoice
  <2>6. FoundFilled(g)
    BY <2>2, <2>5 DEF FoundFilled
  <2>7. NothingChosen(g)
    BY <1>1, <2>2, <2>4, <2>5 DEF Kept, NothingChosen
  <2>8. ASSUME r.state = "found" => r.conv = IF h.chosen = Unchosen THEN Post ELSE h.chosen PROVE Right(g)
    BY <1>1, <2>2, <2>5, <2>8 DEF Right
  <2>. QED BY <1>1, <2>2, <2>3, <2>4, <2>6, <2>7, <2>8
<1>. QED BY <1>4, <1>5, <1>6, <1>7

-----------------------------------------------------------------------------
(* The handlers keep what holds of the host, and of the thread on screen. *)

LEMMA SameHandles ==
  ASSUME NEW g \in Hosts, NEW h, HostOK(h), Same(g, h)
  PROVE  Handles(g, h)
<1>1. /\ ReadAnswer(g) <=> ReadAnswer(h)
      /\ AfterAnswer(g) <=> AfterAnswer(h)
      /\ CallsFilled(g) <=> CallsFilled(h)
      /\ FoundFilled(g) <=> FoundFilled(h)
      /\ NothingChosen(g) <=> NothingChosen(h)
      /\ Right(g) <=> Right(h)
  BY SameKeeps
<1>2. PostKept(g, h)
  BY DEF Same, PostKept
<1>. QED BY <1>1, <1>2 DEF Handles, HostOK, Answering

LEMMA HandlesTrans ==
  ASSUME NEW f, NEW g, NEW h, Handles(f, g), Handles(g, h)
  PROVE  Handles(f, h)
BY DEF Handles, PostKept

LEMMA KeptAnswers ==
  ASSUME NEW g, NEW h, Kept(g, h), ReadKept(g, h), Answering(h)
  PROVE  Answering(g) /\ PostKept(g, h)
<1>1. ReadAnswer(g)
  BY DEF Kept, ReadKept, Answering, ReadAnswer
<1>2. AfterAnswer(g)
  BY DEF Kept, Answering, AfterAnswer
<1>3. CallsFilled(g)
  BY DEF Kept, ReadKept, Answering, CallsFilled
<1>4. PostKept(g, h)
  BY DEF Kept, PostKept
<1>. QED BY <1>1, <1>2, <1>3, <1>4 DEF Answering

LEMMA ReadAsyncHandles ==
  ASSUME NEW h, HostOK(h), NEW quiet \in BOOLEAN
  PROVE  Handles(ReadAsync(h, quiet), h) /\ (~quiet => Replaced(ReadAsync(h, quiet)))
<1>. DEFINE g == ReadAsync(h, quiet)
<1>1. /\ g \in Hosts /\ Kept(g, h) /\ ReadKept(g, h)
      /\ g.chosen = h.chosen /\ g.lastChats = h.lastChats /\ g.found = h.found
      /\ Replaced(h) \/ ~quiet => Replaced(g)
  BY ReadAsyncOK DEF HostOK
<1>. HIDE DEF g
<1>2. Answering(g) /\ PostKept(g, h)
  BY <1>1, KeptAnswers DEF HostOK
<1>3. FoundFilled(g) /\ NothingChosen(g)
  BY <1>1 DEF HostOK, FoundFilled, NothingChosen, Kept
<1>4. Right(h) => Right(g)
  BY <1>1 DEF Right
<1>. QED BY <1>1, <1>2, <1>3, <1>4 DEF Handles, HostOK, g

\* A result is shown by a host that waits for nothing of it any more.
LEMMA ApplyResultHandles ==
  ASSUME NEW h, HostOK(h), NEW r \in Results, r.state # "null",
         r.state = "found" => r.conv \in Convs /\ (h.chosen = Unchosen => r.listed)
  PROVE  LET g == ApplyResult(h, r)
         IN  /\ HostOK(g) /\ PostKept(g, h)
             /\ /\ Settled(h) \/ ~ChatGone(h, r)
                /\ r.state = "found" =>
                     r.conv = IF h.chosen = Unchosen THEN Post ELSE h.chosen
                => Right(g)
<1>. DEFINE g == ApplyResult(h, r)
<1>1. /\ g \in Hosts /\ Kept(g, h) /\ ReadKept(g, h) /\ FoundFilled(g) /\ NothingChosen(g)
      /\ /\ Settled(h) \/ ~ChatGone(h, r)
         /\ r.state = "found" => r.conv = IF h.chosen = Unchosen THEN Post ELSE h.chosen
         => Right(g)
  BY ApplyResultOK DEF HostOK
<1>. HIDE DEF g
<1>2. Answering(g) /\ PostKept(g, h)
  BY <1>1, KeptAnswers DEF HostOK
<1>. QED BY <1>1, <1>2 DEF HostOK, g

LEMMA SelectHandles ==
  ASSUME NEW h, HostOK(h), NEW c \in Convs
  PROVE  Handles(SelectConversation(h, c), h)
<1>1. CASE c \notin {Post} \cup h.lastChats \/ c = h.chosen
  BY <1>1 DEF SelectConversation, Handles, PostKept
<1>2. CASE ~(c \notin {Post} \cup h.lastChats \/ c = h.chosen)
  <2>. DEFINE f == [h EXCEPT !.found = NoThread, !.notPosted = FALSE]
              n == ChooseConversation(f, c)
              g == ReadAsync(n, FALSE)
  <2>1. f \in Hosts
    BY ZenonT(60) DEF HostOK, Hosts, NoThread, Threads
  <2>2. f.found = NoThread /\ ReadSame(f, h)
    BY DEF HostOK, Hosts, ReadSame, Kept
  <2>3. SelectConversation(h, c) = g
    BY <1>2 DEF SelectConversation
  <2>. HIDE DEF f
  <2>4. n \in Hosts /\ ReadSame(n, f) /\ n.chosen = c /\ n.found = f.found
    BY <2>1, ChooseOK
  <2>. HIDE DEF n
  <2>5. g \in Hosts /\ Kept(g, n) /\ ReadKept(g, n) /\ g.chosen = n.chosen /\ g.found = n.found
    BY <2>4, ReadAsyncOK
  <2>. HIDE DEF g
  <2>6. Kept(g, h) /\ ReadKept(g, h)
    BY <2>2, <2>4, <2>5 DEF Kept, ReadKept, ReadSame
  <2>7. Answering(g) /\ PostKept(g, h)
    BY <2>6, KeptAnswers DEF HostOK
  <2>8. c # Unchosen
    BY KindsOfText DEF Convs, Post, Unchosen
  <2>9. FoundFilled(g) /\ NothingChosen(g) /\ Right(g)
    BY <2>2, <2>4, <2>5, <2>8 DEF FoundFilled, NothingChosen, Right
  <2>. QED BY <2>3, <2>5, <2>7, <2>9 DEF Handles, HostOK
<1>. QED BY <1>1, <1>2

LEMMA PostDraftHandles ==
  ASSUME NEW h, HostOK(h), NEW reload \in BOOLEAN
  PROVE  Handles(PostDraft(h, reload), h)
BY PostDraftOK, SameHandles DEF HostOK

LEMMA ActivateHandles ==
  ASSUME NEW h, HostOK(h), NEW stale \in BOOLEAN
  PROVE  Handles(Activate(h, stale), h)
BY PostDraftHandles, ReadAsyncHandles DEF Activate

LEMMA PollHandles ==
  ASSUME NEW h, HostOK(h)
  PROVE  Handles(OnPollTick(h), h)
BY ReadAsyncHandles DEF OnPollTick

LEMMA LanguageSame ==
  ASSUME NEW h \in Hosts
  PROVE  OnLanguageChanged(h) \in Hosts /\ Same(OnLanguageChanged(h), h)
<1>. DEFINE ms == [type |-> "sendState", kind |-> h.sendState, again |-> TRUE]
            mp == [type |-> "postState", kind |-> h.postState, again |-> TRUE]
            h1 == IF h.state = "" THEN h ELSE ShowState(h, h.state, h.inline)
            h2 == IF h.sendState = "" THEN h1 ELSE Say(h1, ms)
            h3 == IF h.postState = "" THEN h2 ELSE Say(h2, mp)
            h4 == IF h.lastChats = {} THEN h3 ELSE PostConversations(h3)
            h5 == IF h.found = NoThread THEN h4 ELSE PostThread(h4)
<1>0. /\ Same(h, h) /\ h.state \in Panels \cup {""} /\ h.inline \in BOOLEAN
      /\ h.sendState \in Answered \cup {"sending", ""}
      /\ h.postState \in Answered \cup {"posting", "warning", ""}
  BY DEF Hosts, Same
<1>1. /\ h.sendState # "" => ms \in HostMessages
      /\ h.postState # "" => mp \in HostMessages
  BY <1>0, StateMessages
<1>2. OnLanguageChanged(h) = PostDraft(h5, FALSE)
  BY DEF OnLanguageChanged
<1>. HIDE DEF ms, mp
<1>3. h1 \in Hosts /\ Same(h1, h)
  BY <1>0, ShowStateOK
<1>. HIDE DEF h1
<1>4. h2 \in Hosts /\ Same(h2, h)
  BY <1>1, <1>3, SayOK, SameTrans
<1>. HIDE DEF h2
<1>5. h3 \in Hosts /\ Same(h3, h)
  BY <1>1, <1>4, SayOK, SameTrans
<1>. HIDE DEF h3
<1>6. h4 \in Hosts /\ Same(h4, h)
  BY <1>5, PostConversationsOK, SameTrans
<1>. HIDE DEF h4
<1>7. h5 \in Hosts /\ Same(h5, h)
  BY <1>6, PostThreadOK, SameTrans
<1>. HIDE DEF h5
<1>8. PostDraft(h5, FALSE) \in Hosts /\ Same(PostDraft(h5, FALSE), h)
  BY <1>7, PostDraftOK, SameTrans
<1>. QED BY <1>2, <1>8

LEMMA LanguageHandles ==
  ASSUME NEW h, HostOK(h)
  PROVE  Handles(OnLanguageChanged(h), h)
BY LanguageSame, SameHandles DEF HostOK

LEMMA AskDeleteHandles ==
  ASSUME NEW h, HostOK(h), NEW id \in Ids
  PROVE  Handles(AskDelete(h, id), h)
<1>. DEFINE g == [h EXCEPT !.asking = @ \cup {id}]
<1>1. g \in Hosts
  BY ZenonT(60) DEF HostOK, Hosts
<1>2. Same(g, h)
  BY DEF HostOK, Hosts, Same
<1>. QED BY <1>1, <1>2, SameHandles DEF AskDelete

LEMMA SendHandles ==
  ASSUME NEW h, HostOK(h), NEW text \in Texts
  PROVE  Handles(SendAsync(h, text), h)
<1>1. CASE Busy(h.send)
  BY <1>1 DEF SendAsync, Handles, PostKept
<1>2. CASE ~Busy(h.send) /\ h.found = NoThread
  BY <1>2, ShowSendStateOK, SameHandles DEF SendAsync, HostOK, Answered
<1>3. CASE ~Busy(h.send) /\ h.found # NoThread
  <2>. DEFINE s == [IdleSend EXCEPT !.stage = "asked", !.conv = h.found.conv, !.text = text]
              f == [h EXCEPT !.send = s]
  <2>1. h.found.conv \in Convs /\ h.chosen # Unchosen
    BY <1>3 DEF HostOK, FoundFilled, NothingChosen
  <2>2. /\ s \in [stage : Stages, conv : Convs \cup {""}, text : Texts \cup {""},
                  answer : Answered \cup {""}, after : Results]
        /\ s.stage = "asked" /\ s.conv \in Convs /\ s.text = text /\ s.after.state # "found"
    BY <2>1, IdleOK DEF IdleSend, Stages, NoResult, Result
  <2>. HIDE DEF s
  <2>3. f \in Hosts
    BY <2>2 DEF HostOK, Hosts
  <2>4. /\ f.send = s /\ f.chosen = h.chosen /\ f.found = h.found /\ f.lastChats = h.lastChats
        /\ f.read = h.read /\ f.readAgain = h.readAgain /\ f.wait = h.wait /\ f.change = h.change
        /\ PostKept(f, h)
    BY DEF HostOK, Hosts, PostKept
  <2>5. SendAsync(h, text) = ShowSendState(f, "sending")
    BY <1>3 DEF SendAsync, s
  <2>. HIDE DEF f
  <2>6. Answering(f)
    BY ZenonT(60), <2>2, <2>4 DEF HostOK, Answering, ReadAnswer, AfterAnswer, CallsFilled, PostKept
  <2>7. FoundFilled(f) /\ NothingChosen(f) /\ (Right(h) => Right(f))
    BY <2>1, <2>4 DEF HostOK, FoundFilled, NothingChosen, Right, Replaced
  <2>8. Handles(f, h)
    BY <2>3, <2>4, <2>6, <2>7 DEF Handles, HostOK
  <2>9. Handles(ShowSendState(f, "sending"), f)
    BY <2>3, <2>8, ShowSendStateOK, SameHandles DEF Handles
  <2>. QED BY <2>5, <2>8, <2>9, HandlesTrans
<1>. QED BY <1>1, <1>2, <1>3

LEMMA ChangeHandles ==
  ASSUME NEW h, HostOK(h), NEW what \in {"edit", "delete"}, NEW id \in Ids
  PROVE  Handles(ChangeAsync(h, what, id), h)
<1>0. /\ StateType(what) \in {"editState", "deleteState"}
      /\ Doing(what) \in {"saving", "deleting"}
  BY DEF StateType, Doing
<1>1. CASE h.found = NoThread \/ Busy(h.change)
  BY <1>0, <1>1, PostChangeStateOK, SameHandles DEF ChangeAsync, HostOK
<1>2. CASE ~(h.found = NoThread \/ Busy(h.change))
  <2>. DEFINE c == [IdleChange EXCEPT !.stage = "asked", !.what = what, !.conv = h.found.conv, !.id = id]
              f == [h EXCEPT !.change = c]
              g == PostChangeState(f, StateType(what), id, Doing(what))
  <2>1. h.found.conv \in Convs /\ h.chosen # Unchosen
    BY <1>2 DEF HostOK, FoundFilled, NothingChosen
  <2>2. /\ c \in [stage : Stages, what : {"edit", "delete", ""}, conv : Convs \cup {""}, id : Ids \cup {""},
                  answer : Answered \cup {""}, after : Results]
        /\ c.stage = "asked" /\ c.conv \in Convs /\ c.id = id /\ c.what = what /\ c.after.state # "found"
    BY <2>1, IdleOK DEF IdleChange, Stages, NoResult, Result
  <2>. HIDE DEF c
  <2>3. f \in Hosts
    BY <2>2 DEF HostOK, Hosts
  <2>4. /\ f.change = c /\ f.chosen = h.chosen /\ f.found = h.found /\ f.lastChats = h.lastChats
        /\ f.read = h.read /\ f.readAgain = h.readAgain /\ f.wait = h.wait /\ f.send = h.send
        /\ PostKept(f, h)
    BY DEF HostOK, Hosts, PostKept
  <2>5. ChangeAsync(h, what, id) = g
    BY <1>2 DEF ChangeAsync, c
  <2>. HIDE DEF f
  <2>6. Answering(f)
    <3>1. Answering(h)
      BY DEF HostOK
    <3>2. ReadAnswer(f) /\ AfterAnswer(f)
      BY <2>2, <2>4, <3>1 DEF Answering, ReadAnswer, AfterAnswer
    <3>3. f.change.stage # "served" /\ f.change.what # ""
      BY <2>2, <2>4
    <3>4. CallsFilled(f)
      BY <2>2, <2>4, <3>1, <3>3 DEF Answering, CallsFilled, PostKept
    <3>. QED BY <3>2, <3>4 DEF Answering
  <2>7. FoundFilled(f) /\ NothingChosen(f) /\ (Right(h) => Right(f))
    BY <2>1, <2>4 DEF HostOK, FoundFilled, NothingChosen, Right, Replaced
  <2>8. Handles(f, h)
    BY <2>3, <2>4, <2>6, <2>7 DEF Handles, HostOK
  <2>9. g \in Hosts /\ Same(g, f)
    BY <1>0, <2>3, PostChangeStateOK
  <2>10. Handles(g, f)
    BY <2>8, <2>9, SameHandles DEF Handles
  <2>. QED BY <2>5, <2>8, <2>10, HandlesTrans
<1>. QED BY <1>1, <1>2

LEMMA ConfirmHandles ==
  ASSUME NEW h, HostOK(h), NEW id \in Ids, NEW yes \in BOOLEAN
  PROVE  Handles(ConfirmDelete(h, id, yes), h)
<1>. DEFINE f == [h EXCEPT !.asking = @ \ {id}]
<1>1. f \in Hosts
  BY DEF HostOK, Hosts
<1>2. Same(f, h)
  BY DEF HostOK, Hosts, Same
<1>3. ConfirmDelete(h, id, yes) =
        IF yes THEN ChangeAsync(f, "delete", id) ELSE PostChangeState(f, "deleteState", id, "cancelled")
  BY DEF ConfirmDelete
<1>. HIDE DEF f
<1>4. Handles(f, h)
  BY <1>1, <1>2, SameHandles
<1>5. Handles(ChangeAsync(f, "delete", id), f)
  BY <1>4, ChangeHandles DEF Handles
<1>6. Handles(PostChangeState(f, "deleteState", id, "cancelled"), f)
  BY <1>1, <1>4, PostChangeStateOK, SameHandles DEF Handles
<1>. QED BY <1>3, <1>4, <1>5, <1>6, HandlesTrans

LEMMA SameAnswers ==
  ASSUME NEW g, NEW h, Answering(h),
         g.send = h.send, g.change = h.change, g.post = h.post,
         g.read = h.read \/ g.read.stage # "served",
         g.wait = h.wait \/ g.wait.stage # "served"
  PROVE  Answering(g)
<1>1. ReadAnswer(g)
  BY DEF Answering, ReadAnswer
<1>2. AfterAnswer(g)
  BY DEF Answering, AfterAnswer
<1>3. CallsFilled(g)
  BY DEF Answering, CallsFilled
<1>. QED BY <1>1, <1>2, <1>3 DEF Answering

LEMMA AgainOK ==
  ASSUME NEW h, HostOK(h), NEW again \in BOOLEAN
  PROVE  LET g == [h EXCEPT !.readAgain = again]
         IN  HostOK(g) /\ AgainOnly(g, h) /\ g.readAgain = again
<1>. DEFINE g == [h EXCEPT !.readAgain = again]
<1>1. h \in Hosts
  BY DEF HostOK
<1>2. g \in Hosts
  BY <1>1 DEF Hosts
<1>3. AgainOnly(g, h) /\ g.readAgain = again
  BY <1>1 DEF Hosts, AgainOnly, PostKept
<1>. HIDE DEF g
<1>4. Answering(g)
  BY <1>3, SameAnswers DEF HostOK, AgainOnly, PostKept
<1>5. FoundFilled(g) /\ NothingChosen(g)
  BY <1>3 DEF HostOK, FoundFilled, NothingChosen, AgainOnly
<1>. QED BY <1>2, <1>3, <1>4, <1>5 DEF HostOK, g

\* The result of a read is shown, dropped or asked for again.
LEMMA ReadLandedOK ==
  ASSUME NEW h, HostOK(h), h.read.stage = "served"
  PROVE  LET g == ReadLanded(h)
         IN  /\ HostOK(g) /\ PostKept(g, h)
             /\ Right(h) \/ (AppliesRead(h) /\ ~ChatGone(h, h.read.result)) => Right(g)
<1>. DEFINE r == h.read.result
            done == [h EXCEPT !.read = IdleRead]
            f == IF AppliesRead(h) THEN ApplyResult(done, r) ELSE done
            e == [f EXCEPT !.readAgain = FALSE]
<1>1. /\ done \in Hosts
      /\ done.read = IdleRead /\ done.readAgain = h.readAgain /\ done.wait = h.wait
      /\ done.send = h.send /\ done.change = h.change /\ PostKept(done, h)
      /\ done.chosen = h.chosen /\ done.lastChats = h.lastChats /\ done.found = h.found
  <2>1. done \in Hosts
    BY IdleOK DEF HostOK, Hosts
  <2>2. h \in Hosts
    BY DEF HostOK
  <2>. QED BY <2>1, <2>2 DEF Hosts, PostKept
<1>2. ReadLanded(h) = IF f.readAgain THEN ReadAsync(e, FALSE) ELSE f
  BY DEF ReadLanded
<1>3. AppliesRead(h) <=> AppliesRead(h) /\ h.read.conv = h.chosen /\ ~Busy(h.wait)
  BY DEF AppliesRead
<1>4. /\ r \in Results /\ r.state # "null"
      /\ r.state = "found" => r.conv = ReadConv(h.read.conv) /\ r.listed
      /\ h.chosen \in Convs \cup {Unchosen}
  BY DEF HostOK, Hosts, Answering, ReadAnswer, CallsFilled
<1>5. ReadConv(h.chosen) \in Convs /\ ReadConv(h.chosen) = IF h.chosen = Unchosen THEN Post ELSE h.chosen
  BY <1>4, KindsOfText DEF ReadConv, Convs, Post, Unchosen
<1>6. ChatGone(done, r) <=> ChatGone(h, r)
  BY <1>1 DEF ChatGone
<1>7. Right(h) => Settled(done)
  BY <1>1 DEF Right, Settled, Stray
<1>. HIDE DEF r, done
<1>8. HostOK(done)
  <2>1. Answering(done)
    BY <1>1, SameAnswers DEF HostOK, PostKept, IdleRead
  <2>. QED BY <1>1, <2>1 DEF HostOK, FoundFilled, NothingChosen
<1>9. CASE AppliesRead(h)
  <2>1. f = ApplyResult(done, r)
    BY <1>9
  <2>2. /\ HostOK(f) /\ PostKept(f, done)
        /\ Right(h) \/ ~ChatGone(h, r) => Right(f)
    BY <1>1, <1>3, <1>4, <1>5, <1>6, <1>7, <1>8, <1>9, <2>1, ApplyResultHandles
  <2>. HIDE DEF f
  <2>3. HostOK(e) /\ AgainOnly(e, f)
    BY <2>2, AgainOK
  <2>. HIDE DEF e
  <2>4. PostKept(e, f) /\ e.chosen = f.chosen /\ e.lastChats = f.lastChats /\ e.found = f.found
    BY <2>3 DEF AgainOnly
  <2>6. /\ HostOK(ReadAsync(e, FALSE)) /\ PostKept(ReadAsync(e, FALSE), e)
        /\ Replaced(ReadAsync(e, FALSE))
        /\ ReadAsync(e, FALSE).found = e.found /\ ReadAsync(e, FALSE).chosen = e.chosen
        /\ ReadAsync(e, FALSE).lastChats = e.lastChats
    BY <2>3, ReadAsyncHandles, ReadAsyncOK DEF Handles, HostOK
  <2>7. Right(f) => Right(ReadAsync(e, FALSE))
    BY <2>4, <2>6 DEF Right
  <2>8. PostKept(f, h) /\ PostKept(ReadAsync(e, FALSE), h)
    BY <1>1, <2>2, <2>4, <2>6 DEF PostKept
  <2>. QED BY <1>2, <1>9, <2>2, <2>6, <2>7, <2>8 DEF r
<1>10. CASE ~AppliesRead(h)
  <2>1. f = done
    BY <1>10
  <2>. HIDE DEF f
  <2>2. HostOK(f)
    BY <1>8, <2>1
  <2>3. HostOK(e) /\ AgainOnly(e, f)
    BY <2>2, AgainOK
  <2>. HIDE DEF e
  <2>4. PostKept(e, f) /\ e.chosen = f.chosen /\ e.lastChats = f.lastChats /\ e.found = f.found
    BY <2>3 DEF AgainOnly
  <2>6. /\ HostOK(ReadAsync(e, FALSE)) /\ PostKept(ReadAsync(e, FALSE), e)
        /\ Replaced(ReadAsync(e, FALSE))
        /\ ReadAsync(e, FALSE).found = e.found /\ ReadAsync(e, FALSE).chosen = e.chosen
        /\ ReadAsync(e, FALSE).lastChats = e.lastChats
    BY <2>3, ReadAsyncHandles, ReadAsyncOK DEF Handles, HostOK
  <2>7. ASSUME Right(h) PROVE Right(ReadAsync(e, FALSE))
    BY <1>1, <2>1, <2>4, <2>6, <2>7 DEF Right
  <2>8. PostKept(f, h) /\ PostKept(ReadAsync(e, FALSE), h)
    BY <1>1, <2>1, <2>4, <2>6 DEF PostKept
  <2>9. ASSUME Right(h), ~f.readAgain PROVE Right(f)
    <3>1. ASSUME Replaced(h) PROVE Busy(h.wait)
      BY <1>1, <1>10, <2>1, <2>9, <3>1 DEF Replaced, AppliesRead, IsQuietReadUnchanged
    <3>. QED BY <1>1, <2>1, <2>9, <3>1 DEF Right, Replaced
  <2>. QED BY <1>2, <1>8, <1>10, <2>1, <2>6, <2>7, <2>8, <2>9
<1>. QED BY <1>9, <1>10

LEMMA WaitLandedOK ==
  ASSUME NEW h, HostOK(h), h.wait.stage = "served"
  PROVE  LET g == WaitLanded(h)
         IN  HostOK(g) /\ PostKept(g, h) /\ (Right(h) /\ ~Crossing(h) => Right(g))
<1>. DEFINE r == h.wait.result
            done == [h EXCEPT !.wait = IdleWait]
<1>1. /\ done \in Hosts
      /\ done.read = h.read /\ done.readAgain = h.readAgain /\ done.wait = IdleWait
      /\ done.send = h.send /\ done.change = h.change /\ PostKept(done, h)
      /\ done.chosen = h.chosen /\ done.lastChats = h.lastChats /\ done.found = h.found
  <2>1. IdleWait \in [stage : Stages, result : Results]
    BY IdleOK DEF IdleWait, Stages
  <2>2. done \in Hosts
    BY <2>1 DEF HostOK, Hosts
  <2>3. h \in Hosts
    BY DEF HostOK
  <2>. QED BY <2>2, <2>3 DEF Hosts, PostKept
<1>2. WaitLanded(h) = ApplyResult(done, r)
  BY DEF WaitLanded
<1>3. /\ r \in Results /\ r.state # "null" /\ (r.state = "found" => r.conv = Post /\ r.listed)
      /\ h.chosen \in Convs \cup {Unchosen} /\ Post \in Convs
  BY DEF HostOK, Hosts, Answering, ReadAnswer, CallsFilled, Convs
<1>4. Right(h) => Settled(done)
  BY <1>1 DEF Right, Settled, Stray
<1>5. ~Crossing(h) => Post = IF h.chosen = Unchosen THEN Post ELSE h.chosen
  BY <1>3 DEF Crossing, Busy, Convs
<1>. HIDE DEF r, done
<1>6. HostOK(done)
  <2>1. Answering(done)
    BY <1>1, SameAnswers DEF HostOK, PostKept, IdleWait
  <2>. QED BY <1>1, <2>1 DEF HostOK, FoundFilled, NothingChosen
<1>7. /\ HostOK(ApplyResult(done, r)) /\ PostKept(ApplyResult(done, r), done)
      /\ Right(h) /\ ~Crossing(h) => Right(ApplyResult(done, r))
  BY <1>1, <1>3, <1>4, <1>5, <1>6, ApplyResultHandles
<1>. QED BY <1>1, <1>2, <1>7 DEF PostKept

\* The thread re-read after a change of the user's is shown.
LEMMA ShowAfterOK ==
  ASSUME NEW h, HostOK(h), NEW r \in Results,
         r.state = "found" => r.conv \in Convs /\ h.chosen # Unchosen
  PROVE  LET g == ShowAfter(h, r)
         IN  /\ HostOK(g) /\ PostKept(g, h)
             /\ Right(h) /\ (r.state = "found" => r.conv = h.chosen) => Right(g)
<1>1. CASE r.state = "null"
  BY <1>1, ReadAsyncHandles DEF ShowAfter, Handles
<1>2. CASE r.state # "null"
  <2>. DEFINE f == ApplyResult(h, r)
              g == [f EXCEPT !.readAgain = TRUE]
  <2>1. Right(h) => Settled(h)
    BY DEF Right, Settled, Stray
  <2>2. /\ HostOK(f) /\ PostKept(f, h)
        /\ Right(h) /\ (r.state = "found" => r.conv = h.chosen) => Right(f)
    BY <1>2, <2>1, ApplyResultHandles
  <2>3. ShowAfter(h, r) = IF Busy(f.read) THEN g ELSE f
    BY <1>2 DEF ShowAfter
  <2>. HIDE DEF f
  <2>4. HostOK(g) /\ AgainOnly(g, f) /\ g.readAgain
    BY <2>2, AgainOK
  <2>. HIDE DEF g
  <2>5. Right(f) => Right(g)
    BY <2>4 DEF Right, Replaced, AgainOnly
  <2>6. PostKept(g, h)
    BY <2>2, <2>4 DEF PostKept, AgainOnly
  <2>. QED BY <2>2, <2>3, <2>4, <2>5, <2>6
<1>. QED BY <1>1, <1>2

LEMMA SendLandedOK ==
  ASSUME NEW h, HostOK(h), h.send.stage = "served"
  PROVE  LET g == SendLanded(h)
         IN  HostOK(g) /\ PostKept(g, h) /\ (Right(h) /\ ~Crossing(h) => Right(g))
<1>. DEFINE r == h.send.after
            done == [h EXCEPT !.send = IdleSend]
            g == ShowSendState(done, h.send.answer)
<1>0. h \in Hosts /\ h.send.answer \in Answered
  <2>1. h \in Hosts /\ h.send.answer # ""
    BY DEF HostOK, Answering, CallsFilled
  <2>. QED BY <2>1 DEF Hosts
<1>1. /\ done \in Hosts
      /\ done.read = h.read /\ done.readAgain = h.readAgain /\ done.wait = h.wait
      /\ done.send = IdleSend /\ done.change = h.change /\ PostKept(done, h)
      /\ done.chosen = h.chosen /\ done.lastChats = h.lastChats /\ done.found = h.found
  <2>1. IdleSend \in [stage : Stages, conv : Convs \cup {""}, text : Texts \cup {""},
                      answer : Answered \cup {""}, after : Results]
    BY IdleOK DEF IdleSend, Stages
  <2>2. done \in Hosts
    BY ZenonT(60), <1>0, <2>1 DEF Hosts
  <2>. QED BY <1>0, <2>2 DEF Hosts, PostKept
<1>2. SendLanded(h) = IF h.send.answer = "sent" THEN ShowAfter(g, r) ELSE g
  BY DEF SendLanded
<1>3. /\ r \in Results /\ Busy(h.send) /\ h.send.conv \in Convs /\ h.chosen # Unchosen
      /\ r.state = "found" => r.conv = h.send.conv
  <2>1. r \in Results
    BY <1>0 DEF Hosts
  <2>. QED BY <2>1 DEF HostOK, Answering, AfterAnswer, CallsFilled, NothingChosen, Busy
<1>4. ~Crossing(h) => h.send.conv = h.chosen
  BY <1>3 DEF Crossing
<1>. HIDE DEF r, done
<1>6. HostOK(done)
  <2>1. Answering(done)
    <3>1. /\ ReadAnswer(done) /\ AfterAnswer(done)
      BY <1>1, IdleFacts DEF HostOK, Answering, ReadAnswer, AfterAnswer
    <3>2. CallsFilled(done)
      BY <1>1, IdleFacts DEF HostOK, Answering, CallsFilled, PostKept, Busy
    <3>. QED BY <3>1, <3>2 DEF Answering
  <2>2. ~Busy(done.send)
    BY <1>1, IdleFacts
  <2>. QED BY <1>1, <2>1, <2>2 DEF HostOK, FoundFilled, NothingChosen
<1>7. Right(h) => Right(done)
  BY <1>1 DEF Right, Replaced
<1>8. g \in Hosts /\ Same(g, done)
  BY <1>0, <1>1, ShowSendStateOK
<1>. HIDE DEF g
<1>9. Handles(g, done) /\ g.chosen = h.chosen
  BY <1>1, <1>6, <1>8, SameHandles DEF Same
<1>10. /\ HostOK(ShowAfter(g, r)) /\ PostKept(ShowAfter(g, r), g)
       /\ Right(g) /\ (r.state = "found" => r.conv = h.chosen) => Right(ShowAfter(g, r))
  BY <1>3, <1>9, ShowAfterOK DEF Handles
<1>11. PostKept(g, h) /\ PostKept(ShowAfter(g, r), h)
  BY <1>1, <1>9, <1>10 DEF Handles, PostKept
<1>. QED BY <1>2, <1>3, <1>4, <1>7, <1>9, <1>10, <1>11 DEF Handles

LEMMA ChangeLandedOK ==
  ASSUME NEW h, HostOK(h), h.change.stage = "served"
  PROVE  LET g == ApplyChangeResult(h)
         IN  HostOK(g) /\ PostKept(g, h) /\ (Right(h) /\ ~Crossing(h) => Right(g))
<1>. DEFINE c == h.change
            r == c.after
            done == [h EXCEPT !.change = IdleChange]
            word == IF c.answer = "sent" THEN Done(c.what) ELSE c.answer
            g == PostChangeState(done, StateType(c.what), c.id, word)
<1>0. /\ h \in Hosts /\ c.answer \in Answered /\ c.id \in Ids /\ c.conv \in Convs
      /\ c.what \in {"edit", "delete"} /\ Busy(c)
  <2>1. /\ h \in Hosts /\ c.answer # "" /\ Busy(c)
        /\ c.id \in Ids /\ c.conv \in Convs /\ c.what # ""
    BY DEF HostOK, Answering, CallsFilled, Busy
  <2>. QED BY <2>1 DEF Hosts
<1>1. /\ done \in Hosts
      /\ done.read = h.read /\ done.readAgain = h.readAgain /\ done.wait = h.wait
      /\ done.change = IdleChange /\ done.send = h.send /\ PostKept(done, h)
      /\ done.chosen = h.chosen /\ done.lastChats = h.lastChats /\ done.found = h.found
  <2>1. IdleChange \in [stage : Stages, what : {"edit", "delete", ""}, conv : Convs \cup {""},
                        id : Ids \cup {""}, answer : Answered \cup {""}, after : Results]
    BY IdleOK DEF IdleChange, Stages
  <2>2. done \in Hosts
    BY ZenonT(60), <1>0, <2>1 DEF Hosts
  <2>. QED BY <1>0, <2>2 DEF Hosts, PostKept
<1>2. ApplyChangeResult(h) =
        CASE c.answer = "uncertain" -> ReadAsync(g, FALSE)
          [] c.answer = "sent" -> ShowAfter(g, r)
          [] OTHER -> g
  BY DEF ApplyChangeResult
<1>3. /\ r \in Results /\ h.chosen # Unchosen
      /\ r.state = "found" => r.conv = c.conv
  <2>1. r \in Results
    BY <1>0 DEF Hosts
  <2>. QED BY <1>0, <2>1 DEF HostOK, Answering, AfterAnswer, NothingChosen
<1>4. ~Crossing(h) => c.conv = h.chosen
  BY <1>0 DEF Crossing
<1>5. /\ StateType(c.what) \in {"editState", "deleteState"}
      /\ word \in {"saved", "deleted", "failed", "uncertain"}
  BY <1>0 DEF StateType, Done, Answered
<1>. HIDE DEF r, c, word, done
<1>6. HostOK(done)
  <2>1. Answering(done)
    <3>1. /\ ReadAnswer(done) /\ AfterAnswer(done)
      BY <1>1, IdleFacts DEF HostOK, Answering, ReadAnswer, AfterAnswer
    <3>2. CallsFilled(done)
      BY <1>1, IdleFacts DEF HostOK, Answering, CallsFilled, PostKept, Busy
    <3>. QED BY <3>1, <3>2 DEF Answering
  <2>2. ~Busy(done.change)
    BY <1>1, IdleFacts
  <2>. QED BY <1>1, <2>1, <2>2 DEF HostOK, FoundFilled, NothingChosen
<1>7. Right(h) => Right(done)
  BY <1>1 DEF Right, Replaced
<1>8. g \in Hosts /\ Same(g, done)
  BY <1>0, <1>1, <1>5, PostChangeStateOK
<1>. HIDE DEF g
<1>9. Handles(g, done) /\ g.chosen = h.chosen
  BY <1>1, <1>6, <1>8, SameHandles DEF Same
<1>10. /\ HostOK(ShowAfter(g, r)) /\ PostKept(ShowAfter(g, r), g)
       /\ Right(g) /\ (r.state = "found" => r.conv = h.chosen) => Right(ShowAfter(g, r))
  BY <1>0, <1>3, <1>9, ShowAfterOK DEF Handles
<1>11. Handles(ReadAsync(g, FALSE), g)
  BY <1>9, ReadAsyncHandles DEF Handles
<1>12. PostKept(g, h) /\ PostKept(ShowAfter(g, r), h) /\ PostKept(ReadAsync(g, FALSE), h)
  BY <1>1, <1>9, <1>10, <1>11 DEF Handles, PostKept
<1>13. CASE c.answer = "uncertain"
  BY <1>2, <1>7, <1>9, <1>11, <1>12, <1>13 DEF Handles
<1>14. CASE c.answer = "sent"
  BY <1>2, <1>3, <1>4, <1>7, <1>9, <1>10, <1>12, <1>14 DEF Handles
<1>15. CASE c.answer = "failed"
  BY <1>2, <1>7, <1>9, <1>12, <1>15 DEF Handles
<1>. QED BY <1>0, <1>13, <1>14, <1>15 DEF Answered

LEMMA PostOK ==
  ASSUME NEW h, HostOK(h), NEW text \in Posts
  PROVE  LET g == PostToTeamsAsync(h, text)
         IN  /\ Keeps(g, h)
             /\ \/ PostKept(g, h)
                \/ /\ MustWarn(h, text) /\ ~Busy(h.post) /\ g.post = h.post /\ g.warned = text
                   /\ g.postState = "warning"
                   /\ g.postedAt = h.postedAt /\ g.postUncertain = h.postUncertain
                \/ /\ ~MustWarn(h, text) /\ ~Busy(h.post) /\ g.warned = ""
                   /\ g.post.stage = "asked"
<1>0. h \in Hosts
  BY DEF HostOK
<1>1. CASE Busy(h.post)
  BY <1>1 DEF PostToTeamsAsync, Keeps, PostKept
<1>2. CASE ~Busy(h.post) /\ ~h.notPosted
  <2>1. Handles(ShowPostState(h, "failed"), h)
    BY <1>0, ShowPostStateOK, SameHandles DEF Answered
  <2>. QED BY <1>2, <2>1 DEF PostToTeamsAsync, Keeps, Handles
<1>3. CASE ~Busy(h.post) /\ h.notPosted /\ MustWarn(h, text)
  <2>. DEFINE f == [h EXCEPT !.warned = text]
              g == ShowPostState(f, "warning")
  <2>1. f \in Hosts
    BY <1>0 DEF Hosts
  <2>2. /\ f.warned = text /\ AgainOnly([f EXCEPT !.warned = h.warned], h)
        /\ f.read = h.read /\ f.readAgain = h.readAgain /\ f.wait = h.wait /\ f.send = h.send
        /\ f.change = h.change /\ f.post = h.post /\ f.chosen = h.chosen /\ f.found = h.found
        /\ f.lastChats = h.lastChats /\ f.postedAt = h.postedAt /\ f.postUncertain = h.postUncertain
    BY <1>0 DEF Hosts, AgainOnly, PostKept
  <2>3. PostToTeamsAsync(h, text) = g
    BY <1>3 DEF PostToTeamsAsync
  <2>. HIDE DEF f
  <2>4. HostOK(f) /\ (Right(h) => Right(f))
    BY <2>1, <2>2, SameAnswers DEF HostOK, FoundFilled, NothingChosen, Right, Replaced
  <2>5. g \in Hosts /\ Same(g, f) /\ g.postState = "warning"
    BY <2>1, ShowPostStateOK
  <2>6. Handles(g, f)
    BY <2>4, <2>5, SameHandles
  <2>. QED BY <1>3, <2>2, <2>3, <2>4, <2>5, <2>6 DEF Keeps, Handles, PostKept
<1>4. CASE ~Busy(h.post) /\ h.notPosted /\ ~MustWarn(h, text)
  <2>. DEFINE p == [IdlePost EXCEPT !.stage = "asked", !.text = text]
              f == [h EXCEPT !.warned = "", !.postUncertain = FALSE, !.post = p]
              g == ShowPostState(f, "posting")
  <2>0. /\ p \in [stage : Stages, text : Posts \cup {""}, answer : Answered \cup {""}]
        /\ p.stage = "asked" /\ p.text = text
    BY DEF IdlePost, Stages
  <2>. HIDE DEF p
  <2>1. f \in Hosts
    BY ZenonT(60), <1>0, <2>0 DEF Hosts
  <2>2. /\ f.warned = "" /\ f.post = p
        /\ f.read = h.read /\ f.readAgain = h.readAgain /\ f.wait = h.wait /\ f.send = h.send
        /\ f.change = h.change /\ f.chosen = h.chosen /\ f.found = h.found
        /\ f.lastChats = h.lastChats
    BY <1>0 DEF Hosts
  <2>3. PostToTeamsAsync(h, text) = g
    BY <1>4 DEF PostToTeamsAsync, p
  <2>. HIDE DEF f
  <2>4. Answering(f)
    <3>1. /\ ReadAnswer(f) /\ AfterAnswer(f)
      BY <2>2 DEF HostOK, Answering, ReadAnswer, AfterAnswer
    <3>2. CallsFilled(f)
      BY <2>0, <2>2 DEF HostOK, Answering, CallsFilled
    <3>. QED BY <3>1, <3>2 DEF Answering
  <2>5. HostOK(f) /\ (Right(h) => Right(f))
    BY <2>1, <2>2, <2>4 DEF HostOK, FoundFilled, NothingChosen, Right, Replaced
  <2>6. g \in Hosts /\ Same(g, f)
    BY <2>1, ShowPostStateOK
  <2>7. Handles(g, f)
    BY <2>5, <2>6, SameHandles
  <2>. QED BY <1>4, <2>0, <2>2, <2>3, <2>5, <2>7 DEF Keeps, Handles, PostKept
<1>. QED BY <1>1, <1>2, <1>3, <1>4

LEMMA WaitHandles ==
  ASSUME NEW h, HostOK(h)
  PROVE  Handles(WaitForPostAsync(h), h)
<1>0. h \in Hosts
  BY DEF HostOK
<1>1. CASE Busy(h.wait)
  BY <1>1 DEF WaitForPostAsync, Handles, PostKept
<1>2. CASE ~Busy(h.wait)
  <2>. DEFINE w == [IdleWait EXCEPT !.stage = "asked"]
              f == [h EXCEPT !.wait = w]
              g == ShowState(f, "waitingPost", FALSE)
  <2>0. w \in [stage : Stages, result : Results] /\ w.stage = "asked"
    BY IdleOK DEF IdleWait, Stages
  <2>. HIDE DEF w
  <2>1. f \in Hosts
    BY <1>0, <2>0 DEF Hosts
  <2>2. /\ f.wait = w /\ f.read = h.read /\ f.readAgain = h.readAgain /\ f.send = h.send
        /\ f.change = h.change /\ f.chosen = h.chosen /\ f.found = h.found
        /\ f.lastChats = h.lastChats /\ PostKept(f, h)
    BY <1>0 DEF Hosts, PostKept
  <2>3. WaitForPostAsync(h) = g
    BY <1>2 DEF WaitForPostAsync, w
  <2>. HIDE DEF f
  <2>4. Answering(f)
    BY <2>0, <2>2, SameAnswers DEF HostOK, PostKept
  <2>5. Handles(f, h)
    <3>1. FoundFilled(f) /\ NothingChosen(f)
      BY <2>2 DEF HostOK, FoundFilled, NothingChosen
    <3>2. Busy(f.wait)
      BY <2>0, <2>2 DEF Busy
    <3>3. Right(h) => Right(f)
      BY <2>2, <3>2 DEF Right, Replaced
    <3>. QED BY <2>1, <2>2, <2>4, <3>1, <3>3 DEF Handles, HostOK
  <2>6. g \in Hosts /\ Same(g, f)
    BY <2>1, ShowStateOK DEF Panels
  <2>7. Handles(g, f)
    BY <2>5, <2>6, SameHandles DEF Handles
  <2>. QED BY <2>3, <2>5, <2>7, HandlesTrans
<1>. QED BY <1>1, <1>2

LEMMA PostLandedOK ==
  ASSUME NEW h, HostOK(h), h.post.stage = "served"
  PROVE  LET g == PostLanded(h)
         IN  /\ Keeps(g, h)
             /\ ~Busy(g.post) /\ g.warned = h.warned
             /\ g.postedAt = (h.postedAt \/ h.post.answer = "sent")
             /\ g.postUncertain = (h.postUncertain \/ h.post.answer = "uncertain")
<1>. DEFINE a == h.post.answer
            done == [h EXCEPT !.post = IdlePost]
            f == ShowPostState(done, a)
            u == [f EXCEPT !.postUncertain = TRUE]
            p == [f EXCEPT !.postedAt = TRUE]
<1>0. h \in Hosts /\ a \in Answered
  <2>1. h \in Hosts /\ a # ""
    BY DEF HostOK, Answering, CallsFilled
  <2>. QED BY <2>1 DEF Hosts
<1>1. IdlePost \in [stage : Stages, text : Posts \cup {""}, answer : Answered \cup {""}] /\ ~Busy(IdlePost)
  BY DEF IdlePost, Stages, Busy
<1>2. done \in Hosts
  BY <1>0, <1>1 DEF Hosts
<1>3. /\ done.post = IdlePost /\ done.warned = h.warned
      /\ done.postedAt = h.postedAt /\ done.postUncertain = h.postUncertain
      /\ done.read = h.read /\ done.readAgain = h.readAgain /\ done.wait = h.wait /\ done.send = h.send
      /\ done.change = h.change /\ done.chosen = h.chosen /\ done.found = h.found
      /\ done.lastChats = h.lastChats
  BY <1>0 DEF Hosts
<1>4. PostLanded(h) =
        CASE a = "uncertain" -> ReadAsync(u, FALSE)
          [] a = "sent" -> WaitForPostAsync(p)
          [] OTHER -> f
  BY DEF PostLanded
<1>. HIDE DEF a, done
<1>5. HostOK(done) /\ (Right(h) => Right(done))
  <2>1. ReadAnswer(done) /\ AfterAnswer(done)
    BY <1>3 DEF HostOK, Answering, ReadAnswer, AfterAnswer
  <2>2. CallsFilled(done)
    BY <1>3, IdleFacts DEF HostOK, Answering, CallsFilled
  <2>3. Right(h) => Right(done)
    BY <1>3 DEF Right, Replaced
  <2>4. FoundFilled(done) /\ NothingChosen(done)
    BY <1>3 DEF HostOK, FoundFilled, NothingChosen
  <2>. QED BY <1>2, <2>1, <2>2, <2>3, <2>4 DEF HostOK, Answering
<1>6. f \in Hosts /\ Same(f, done)
  BY <1>0, <1>2, ShowPostStateOK
<1>. HIDE DEF f
<1>7. Handles(f, done)
  BY <1>5, <1>6, SameHandles
<1>8. u \in Hosts /\ p \in Hosts
  <2>1. f \in Hosts
    BY <1>6
  <2>2. u \in Hosts
    BY <2>1 DEF Hosts
  <2>3. p \in Hosts
    BY <2>1 DEF Hosts
  <2>. QED BY <2>2, <2>3
<1>9. /\ u.post = f.post /\ u.warned = f.warned /\ u.postedAt = f.postedAt /\ u.postUncertain
      /\ u.read = f.read /\ u.readAgain = f.readAgain /\ u.wait = f.wait /\ u.send = f.send
      /\ u.change = f.change /\ u.chosen = f.chosen /\ u.found = f.found /\ u.lastChats = f.lastChats
  BY <1>6 DEF Hosts
<1>10. /\ p.post = f.post /\ p.warned = f.warned /\ p.postedAt /\ p.postUncertain = f.postUncertain
       /\ p.read = f.read /\ p.readAgain = f.readAgain /\ p.wait = f.wait /\ p.send = f.send
       /\ p.change = f.change /\ p.chosen = f.chosen /\ p.found = f.found /\ p.lastChats = f.lastChats
  BY <1>6 DEF Hosts
<1>. HIDE DEF u, p
<1>11. /\ HostOK(u) /\ (Right(f) => Right(u))
       /\ HostOK(p) /\ (Right(f) => Right(p))
  <2>1. Answering(u) /\ Answering(p)
    BY <1>7, <1>9, <1>10, SameAnswers DEF Handles, HostOK
  <2>2. FoundFilled(u) /\ NothingChosen(u) /\ (Right(f) => Right(u))
    BY <1>7, <1>9 DEF Handles, HostOK, FoundFilled, NothingChosen, Right, Replaced
  <2>3. FoundFilled(p) /\ NothingChosen(p) /\ (Right(f) => Right(p))
    BY <1>7, <1>10 DEF Handles, HostOK, FoundFilled, NothingChosen, Right, Replaced
  <2>. QED BY <1>8, <2>1, <2>2, <2>3 DEF HostOK
<1>12. Handles(ReadAsync(u, FALSE), u) /\ Handles(WaitForPostAsync(p), p)
  BY <1>11, ReadAsyncHandles, WaitHandles
<1>13. /\ f.post = IdlePost /\ f.warned = h.warned /\ f.postedAt = h.postedAt
       /\ f.postUncertain = h.postUncertain
       /\ h.postedAt \in BOOLEAN /\ h.postUncertain \in BOOLEAN
  <2>1. h.postedAt \in BOOLEAN /\ h.postUncertain \in BOOLEAN
    BY <1>0 DEF Hosts
  <2>. QED BY <1>3, <1>6, <2>1 DEF Same
<1>14. CASE a = "uncertain"
  <2>1. PostLanded(h) = ReadAsync(u, FALSE)
    BY <1>4, <1>14
  <2>2. Keeps(ReadAsync(u, FALSE), h)
    BY <1>5, <1>7, <1>11, <1>12 DEF Keeps, Handles
  <2>. QED BY ZenonT(60), <1>1, <1>9, <1>12, <1>13, <1>14, <2>1, <2>2 DEF Handles, PostKept, a
<1>15. CASE a = "sent"
  <2>1. PostLanded(h) = WaitForPostAsync(p)
    BY <1>4, <1>15
  <2>2. Keeps(WaitForPostAsync(p), h)
    BY <1>5, <1>7, <1>11, <1>12 DEF Keeps, Handles
  <2>. QED BY ZenonT(60), <1>1, <1>10, <1>12, <1>13, <1>15, <2>1, <2>2 DEF Handles, PostKept, a
<1>16. CASE a = "failed"
  <2>1. PostLanded(h) = f
    BY <1>4, <1>16
  <2>2. Keeps(f, h)
    BY <1>5, <1>7 DEF Keeps, Handles
  <2>. QED BY <1>1, <1>13, <1>16, <2>1, <2>2 DEF a
<1>. QED BY <1>0, <1>14, <1>15, <1>16 DEF Answered

-----------------------------------------------------------------------------
(* The page's handlers keep its type. *)

LEMMA PageSays ==
  ASSUME NEW p \in Pages, NEW m \in PageMessages
  PROVE  Say(p, m) \in Pages
<1>1. Append(p.out, m) \in Seq(PageMessages)
  <2>1. p.out \in Seq(PageMessages)
    BY DEF Pages
  <2>. QED BY <2>1, AppendProperties
<1>. QED BY <1>1 DEF Say, Pages

LEMMA ModeOK ==
  ASSUME NEW p \in Pages, NEW mode \in {"none", "thread", "post"}, NEW panel \in Panels \cup {"hidden"}
  PROVE  SetMode(p, mode, panel) \in Pages
<1>. DEFINE e == IF mode = "thread" THEN p.edit ELSE NoEdit
<1>1. e \in [id : Ids \cup {""}, busy : BOOLEAN]
  BY DEF NoEdit, Pages
<1>2. SetMode(p, mode, panel) = [p EXCEPT !.mode = mode, !.panel = panel, !.edit = e]
  BY DEF SetMode
<1>. HIDE DEF e
<1>. QED BY ZenonT(60), <1>1, <1>2 DEF Pages

LEMMA RenderOK ==
  ASSUME NEW p \in Pages
  PROVE  RenderThread(p) \in Pages
<1>. DEFINE e == IF HasId(p.thread.msgs, p.edit.id) THEN p.edit ELSE NoEdit
<1>1. e \in [id : Ids \cup {""}, busy : BOOLEAN]
  BY DEF NoEdit, Pages
<1>2. RenderThread(p) = [p EXCEPT !.edit = e]
  BY DEF RenderThread
<1>. HIDE DEF e
<1>. QED BY <1>1, <1>2 DEF Pages

LEMMA DraftTaken ==
  ASSUME NEW p \in Pages, NEW d \in Drafts
  PROVE  [p EXCEPT !.draft = d, !.postDirty = FALSE, !.applied = d] \in Pages
<1>1. d \in Posts \cup {""} /\ d \in Drafts \cup {""}
  BY DEF Posts
<1>. QED BY <1>1 DEF Pages

LEMMA PageShows ==
  ASSUME NEW p \in Pages, NEW m \in HostMessages
  PROVE  /\ m.type = "state" => ShowStatePanel(p, m) \in Pages
         /\ m.type = "thread" => ShowThreadOnPage(p, m) \in Pages
         /\ m.type = "conversations" => ApplyConversations(p, m) \in Pages
         /\ m.type = "editState" => ShowEditState(p, m) \in Pages
         /\ m.type = "deleteState" => ShowDeleteState(p, m) \in Pages
         /\ m.type = "draft" => ShowDraft(p, m) \in Pages
         /\ m.type = "sendState" => ShowSendStateOnPage(p, m) \in Pages
         /\ m.type = "postState" => ShowPostStateOnPage(p, m) \in Pages
<1>1. ASSUME m.type = "state" PROVE ShowStatePanel(p, m) \in Pages
  <2>1. m.kind \in Panels
    BY <1>1 DEF HostMessages
  <2>. QED BY <2>1, ModeOK DEF ShowStatePanel
<1>2. ASSUME m.type = "thread" PROVE ShowThreadOnPage(p, m) \in Pages
  <2>. DEFINE q == [p EXCEPT !.thread = m.thread]
  <2>1. m.thread \in Threads
    BY <1>2 DEF HostMessages
  <2>2. q \in Pages
    BY <2>1 DEF Pages
  <2>. HIDE DEF q
  <2>3. SetMode(q, "thread", "hidden") \in Pages
    BY <2>2, ModeOK
  <2>4. RenderThread(SetMode(q, "thread", "hidden")) \in Pages
    BY <2>3, RenderOK
  <2>. QED BY <2>4 DEF ShowThreadOnPage, q
<1>3. ASSUME m.type = "conversations" PROVE ApplyConversations(p, m) \in Pages
  <2>1. m.chats \in SUBSET Chats /\ m.selected \in Convs
    BY <1>3 DEF HostMessages
  <2>. QED BY <2>1 DEF ApplyConversations, Pages
<1>4. ASSUME m.type = "editState" PROVE ShowEditState(p, m) \in Pages
  <2>. DEFINE e == [p.edit EXCEPT !.busy = (m.state = "saving")]
  <2>1. NoEdit \in [id : Ids \cup {""}, busy : BOOLEAN]
    BY DEF NoEdit
  <2>2. e \in [id : Ids \cup {""}, busy : BOOLEAN]
    BY DEF Pages
  <2>. HIDE DEF e
  <2>3. [p EXCEPT !.edit = NoEdit] \in Pages /\ [p EXCEPT !.edit = e] \in Pages
    BY ZenonT(60), <2>1, <2>2 DEF Pages
  <2>4. [p EXCEPT !.edit.busy = (m.state = "saving")] = [p EXCEPT !.edit = e]
    BY DEF e
  <2>. QED BY <2>3, <2>4 DEF ShowEditState
<1>5. ASSUME m.type = "deleteState" PROVE ShowDeleteState(p, m) \in Pages
  <2>. DEFINE q == [p EXCEPT !.deleting = IF m.state = "deleting" THEN m.id ELSE ""]
  <2>1. m.id \in Ids
    BY <1>5 DEF HostMessages
  <2>2. q \in Pages
    BY ZenonT(60), <2>1 DEF Pages
  <2>. QED BY <2>2, RenderOK DEF ShowDeleteState
<1>6. ASSUME m.type = "draft" PROVE ShowDraft(p, m) \in Pages
  <2>. DEFINE q == SetMode(p, "post", "hidden")
  <2>1. m.text \in Drafts /\ m.text \in Posts
    BY <1>6 DEF HostMessages, Posts
  <2>2. q \in Pages
    BY ModeOK
  <2>. HIDE DEF q
  <2>3. [q EXCEPT !.draft = m.text, !.postDirty = FALSE, !.applied = m.text] \in Pages
    BY <2>1, <2>2, DraftTaken
  <2>. QED BY <2>2, <2>3 DEF ShowDraft, q
<1>7. ASSUME m.type = "sendState" PROVE ShowSendStateOnPage(p, m) \in Pages
  <2>. DEFINE reply == IF ClearsReply(p, m) THEN "" ELSE p.reply
              busy == (m.kind = "sending")
  <2>1. reply \in Texts \cup {""} /\ busy \in BOOLEAN
    BY DEF Pages
  <2>2. ShowSendStateOnPage(p, m) = [p EXCEPT !.reply = reply, !.replySending = busy]
    BY DEF ShowSendStateOnPage
  <2>. HIDE DEF reply, busy
  <2>. QED BY <2>1, <2>2 DEF Pages
<1>8. ASSUME m.type = "postState" PROVE ShowPostStateOnPage(p, m) \in Pages
  <2>. DEFINE busy == (m.kind = "posting")
              dirty == IF m.kind = "sent" THEN FALSE ELSE p.postDirty
              applied == IF m.kind = "sent" THEN "" ELSE p.applied
  <2>1. busy \in BOOLEAN /\ dirty \in BOOLEAN /\ applied \in Drafts \cup {""}
    BY DEF Pages
  <2>2. ShowPostStateOnPage(p, m) = [p EXCEPT !.postBusy = busy, !.postDirty = dirty, !.applied = applied]
    BY DEF ShowPostStateOnPage
  <2>. HIDE DEF busy, dirty, applied
  <2>. QED BY ZenonT(60), <2>1, <2>2 DEF Pages
<1>. QED BY <1>1, <1>2, <1>3, <1>4, <1>5, <1>6, <1>7, <1>8

LEMMA PageActs ==
  ASSUME NEW p \in Pages
  PROVE  /\ \A t \in Texts : PutReply(p, t) \in Pages
         /\ CanSend(p) => PressSend(p) \in Pages
         /\ \A c \in Convs : PickConversation(p, c) \in Pages
         /\ PressRefresh(p) \in Pages
         /\ PressReload(p) \in Pages
         /\ \A o \in Own : EditPost(p, o) \in Pages
         /\ CanPost(p) => PressPost(p) \in Pages
         /\ \A id \in Ids : StartEdit(p, id) \in Pages
         /\ CanSave(p) => SaveEdit(p) \in Pages
         /\ CancelEdit(p) \in Pages
         /\ \A id \in Ids : PressDelete(p, id) \in Pages
<1>1. ASSUME NEW t \in Texts PROVE PutReply(p, t) \in Pages
  BY DEF PutReply, Pages
<1>2. ASSUME CanSend(p) PROVE PressSend(p) \in Pages
  <2>1. p.reply \in Texts
    BY <1>2 DEF CanSend, Pages
  <2>2. [type |-> "send", text |-> p.reply] \in PageMessages
    BY <2>1 DEF PageMessages
  <2>3. [p EXCEPT !.replySending = TRUE] \in Pages
    BY DEF Pages
  <2>. QED BY <2>2, <2>3, PageSays DEF PressSend
<1>3. ASSUME NEW c \in Convs PROVE PickConversation(p, c) \in Pages
  <2>2. [type |-> "selectConversation", conv |-> c] \in PageMessages
    BY DEF PageMessages
  <2>3. [p EXCEPT !.selected = c] \in Pages
    BY DEF Pages
  <2>. QED BY <2>2, <2>3, PageSays DEF PickConversation
<1>4. PressRefresh(p) \in Pages /\ PressReload(p) \in Pages
  <2>1. [type |-> "refresh"] \in PageMessages /\ [type |-> "reloadDraft"] \in PageMessages
    BY DEF PageMessages
  <2>. QED BY <2>1, PageSays DEF PressRefresh, PressReload
<1>5. ASSUME NEW o \in Own PROVE EditPost(p, o) \in Pages
  BY DEF EditPost, Pages, Posts
<1>6. ASSUME CanPost(p) PROVE PressPost(p) \in Pages
  <2>1. p.draft \in Posts
    BY <1>6 DEF CanPost, Pages
  <2>2. [type |-> "post", text |-> p.draft] \in PageMessages
    BY <2>1 DEF PageMessages
  <2>3. [p EXCEPT !.postBusy = TRUE] \in Pages
    BY DEF Pages
  <2>. QED BY <2>2, <2>3, PageSays DEF PressPost
<1>7. ASSUME NEW id \in Ids PROVE StartEdit(p, id) \in Pages
  BY DEF StartEdit, Pages
<1>8. ASSUME CanSave(p) PROVE SaveEdit(p) \in Pages
  <2>1. p.edit.id \in Ids
    BY <1>8 DEF CanSave, Pages
  <2>2. [type |-> "edit", id |-> p.edit.id] \in PageMessages
    BY <2>1 DEF PageMessages
  <2>3. [p EXCEPT !.edit.busy = TRUE] \in Pages
    BY DEF Pages
  <2>. QED BY <2>2, <2>3, PageSays DEF SaveEdit
<1>9. CancelEdit(p) \in Pages
  <2>1. NoEdit \in [id : Ids \cup {""}, busy : BOOLEAN]
    BY DEF NoEdit
  <2>. QED BY <2>1 DEF CancelEdit, Pages
<1>10. ASSUME NEW id \in Ids PROVE PressDelete(p, id) \in Pages
  <2>1. [type |-> "delete", id |-> id] \in PageMessages
    BY DEF PageMessages
  <2>. QED BY <2>1, PageSays DEF PressDelete
<1>. QED BY <1>1, <1>2, <1>3, <1>4, <1>5, <1>6, <1>7, <1>8, <1>9, <1>10

LEMMA PageDrops ==
  ASSUME NEW p \in Pages, p.out # <<>>
  PROVE  Head(p.out) \in PageMessages /\ [p EXCEPT !.out = Tail(@)] \in Pages
<1>1. p.out \in Seq(PageMessages)
  BY DEF Pages
<1>2. Head(p.out) \in PageMessages /\ Tail(p.out) \in Seq(PageMessages)
  BY <1>1, HeadTailProperties
<1>. QED BY <1>2 DEF Pages

LEMMA HostDrops ==
  ASSUME NEW h \in Hosts, h.out # <<>>
  PROVE  /\ Head(h.out) \in HostMessages /\ [h EXCEPT !.out = Tail(@)] \in Hosts
         /\ Same([h EXCEPT !.out = Tail(@)], h)
<1>1. h.out \in Seq(HostMessages)
  BY DEF Hosts
<1>2. Head(h.out) \in HostMessages /\ Tail(h.out) \in Seq(HostMessages)
  BY <1>1, HeadTailProperties
<1>3. [h EXCEPT !.out = Tail(@)] \in Hosts
  BY <1>2 DEF Hosts
<1>4. Same([h EXCEPT !.out = Tail(@)], h)
  BY DEF Hosts, Same
<1>. QED BY <1>2, <1>3, <1>4

-----------------------------------------------------------------------------
(* The inductive invariant. *)

LEMMA SpendOK ==
  ASSUME left \in [Kinds -> Nat], NEW kind \in Kinds, Spend(kind)
  PROVE  left' \in [Kinds -> Nat]
BY DEF Spend

\* The host changed at most in what the page is told, the history in what no proof speaks of.
LEMMA HostSame ==
  ASSUME HostInv, host' \in Hosts, Same(host', host), past' \in Pasts,
         past'.crossed = past.crossed, past'.posts = past.posts, past'.warned = past.warned
  PROVE  HostInv'
<1>1. HostOK(host') /\ PostKept(host', host)
  BY SameHandles DEF HostInv, Handles
<1>2. (Crossing(host') <=> Crossing(host)) /\ (Right(host') <=> Right(host))
  BY SameKeeps
<1>3. Owed(host', past')
  BY <1>1 DEF HostInv, Owed, PostKept
<1>. QED BY <1>1, <1>2, <1>3 DEF HostInv

LEMMA StepKeeps ==
  ASSUME NEW h, NEW p \in Pasts, HostOK(h), ~p.crossed /\ ~Crossing(h) => Right(h), Owed(h, p), Step(h, p)
  PROVE  HostInv'
<1>1. host' = h
  BY DEF Step
<1>2. past' = [p EXCEPT !.crossed = @ \/ Crossing(h), !.overlap = @ \/ Overlapping(h)]
  BY DEF Step
<1>3. (p.crossed \/ Crossing(h)) \in BOOLEAN /\ (p.overlap \/ Overlapping(h)) \in BOOLEAN
  OBVIOUS
<1>. DEFINE c == p.crossed \/ Crossing(h)
            o == p.overlap \/ Overlapping(h)
<1>. HIDE DEF c, o
<1>4. past' = [p EXCEPT !.crossed = c, !.overlap = o] /\ c \in BOOLEAN /\ o \in BOOLEAN
  BY <1>2, <1>3 DEF c, o
<1>5. past' \in Pasts /\ past'.posts = p.posts /\ past'.warned = p.warned /\ past'.crossed = c
  BY <1>4 DEF Pasts
<1>6. ~past'.crossed => ~Crossing(h) /\ Right(h)
  BY <1>5 DEF c
<1>7. Owed(h, past')
  BY <1>5 DEF Owed
<1>. QED BY <1>1, <1>5, <1>6, <1>7 DEF HostInv

LEMMA HandledKeeps ==
  ASSUME HostInv, NEW h, Handles(h, host), Step(h, past)
  PROVE  HostInv'
<1>1. Owed(h, past)
  BY DEF HostInv, Owed, Handles, PostKept
<1>. QED BY <1>1, StepKeeps DEF HostInv, Handles

LEMMA InitInv == Init => Inv
<1>. SUFFICES ASSUME NEW s \in Starts,
                     teams = TeamsAtStart(s), left = s.left, page = PageAtStart,
                     host = HostAtStart(s.chosen, s.file, s.posted), past = PastAtStart(s.posted)
              PROVE  Inv
  BY DEF Init
<1>1. /\ s.root \in {"none", "up"} /\ s.chats \in SUBSET Chats /\ s.chosen \in Convs \cup {Unchosen}
      /\ s.file \in Drafts /\ s.left \in [Kinds -> Nat] /\ s.posted \in BOOLEAN
  BY StartsAreSituations DEF Convs
<1>2. page \in Pages
  <2>1. <<>> \in Seq(PageMessages)
    BY EmptySeq
  <2>2. /\ NoThread \in Threads /\ NoEdit \in [id : Ids \cup {""}, busy : BOOLEAN]
        /\ Post \in Convs /\ "loading" \in Panels
    BY DEF NoThread, Threads, NoEdit, Convs, Panels
  <2>. QED BY <2>1, <2>2 DEF PageAtStart, Pages
<1>3. teams \in TeamsStates
  <2>. DEFINE M(c) == IF c # Post THEN {[id |-> "mine", ver |-> "first"]}
                      ELSE IF s.root = "up" THEN [id : {"root", "mine"}, ver : {"first"}] ELSE {}
  <2>1. ASSUME NEW c \in Convs PROVE M(c) \in SUBSET Messages
    <3>1. {[id |-> "mine", ver |-> "first"]} \subseteq Messages
      BY DEF Messages, Ids
    <3>2. [id : {"root", "mine"}, ver : {"first"}] \subseteq Messages
      BY DEF Messages, Ids
    <3>. QED BY <3>1, <3>2
  <2>. DEFINE f == [c \in Convs |-> M(c)]
  <2>2. teams = [root |-> s.root, chats |-> s.chats, in |-> f]
    BY DEF TeamsAtStart
  <2>. HIDE DEF M
  <2>3. f \in [Convs -> SUBSET Messages]
    BY <2>1
  <2>. HIDE DEF f
  <2>. QED BY <1>1, <2>2, <2>3 DEF TeamsStates
<1>4. past \in Pasts
  <2>. DEFINE f == [t \in Texts |-> 0]
  <2>1. f \in [Texts -> Nat]
    OBVIOUS
  <2>2. past = [written |-> {}, letGo |-> {}, copies |-> f, told |-> {}, misled |-> FALSE,
                posts |-> IF s.posted THEN 1 ELSE 0, warned |-> FALSE, published |-> {}, risky |-> FALSE,
                acked |-> {}, overlap |-> FALSE, crossed |-> FALSE]
    BY DEF PastAtStart
  <2>. HIDE DEF f
  <2>. QED BY <2>1, <2>2 DEF Pasts
<1>5. host \in Hosts
  <2>1. /\ <<>> \in Seq(HostMessages)
        /\ NoThread \in Threads
    BY EmptySeq DEF NoThread, Threads
  <2>2. /\ IdleWait \in [stage : Stages, result : Results]
        /\ IdleSend \in [stage : Stages, conv : Convs \cup {""}, text : Texts \cup {""},
                         answer : Answered \cup {""}, after : Results]
        /\ IdlePost \in [stage : Stages, text : Posts \cup {""}, answer : Answered \cup {""}]
        /\ IdleChange \in [stage : Stages, what : {"edit", "delete", ""}, conv : Convs \cup {""},
                           id : Ids \cup {""}, answer : Answered \cup {""}, after : Results]
    BY IdleOK DEF IdleWait, IdleSend, IdlePost, IdleChange, Stages
  <2>3. [IdleRead EXCEPT !.stage = "asked", !.conv = s.chosen] \in
          [stage : Stages, conv : Convs \cup {Unchosen}, quiet : BOOLEAN, result : Results]
    BY <1>1, IdleOK DEF IdleRead, Stages
  <2>. DEFINE r == [IdleRead EXCEPT !.stage = "asked", !.conv = s.chosen]
  <2>. HIDE DEF r
  <2>4. r \in [stage : Stages, conv : Convs \cup {Unchosen}, quiet : BOOLEAN, result : Results]
    BY <2>3 DEF r
  <2>. DEFINE Sends == [stage : Stages, conv : Convs \cup {""}, text : Texts \cup {""},
                         answer : Answered \cup {""}, after : Results]
              Changes == [stage : Stages, what : {"edit", "delete", ""}, conv : Convs \cup {""},
                           id : Ids \cup {""}, answer : Answered \cup {""}, after : Results]
  <2>5. Hosts =
          [chosen : Convs \cup {Unchosen}, lastChats : SUBSET Chats, found : Threads, notPosted : BOOLEAN,
           read : [stage : Stages, conv : Convs \cup {Unchosen}, quiet : BOOLEAN, result : Results],
           readAgain : BOOLEAN,
           wait : [stage : Stages, result : Results], send : Sends,
           post : [stage : Stages, text : Posts \cup {""}, answer : Answered \cup {""}],
           change : Changes, asking : SUBSET Ids, state : Panels \cup {""}, inline : BOOLEAN,
           sendState : Answered \cup {"sending", ""}, postState : Answered \cup {"posting", "warning", ""},
           postUncertain : BOOLEAN, warned : Posts \cup {""}, postedAt : BOOLEAN, file : Drafts,
           out : Seq(HostMessages)]
    BY DEF Hosts
  <2>6. IdleSend \in Sends /\ IdleChange \in Changes
    BY <2>2
  <2>7. "loading" \in Panels
    BY DEF Panels
  <2>. HIDE DEF Sends, Changes
  <2>. QED BY ZenonT(60), <1>1, <2>1, <2>2, <2>4, <2>5, <2>6, <2>7 DEF HostAtStart, r
<1>6. /\ host.found = NoThread /\ host.wait = IdleWait /\ host.send = IdleSend
      /\ host.post = IdlePost /\ host.change = IdleChange /\ host.read.stage = "asked"
      /\ host.warned = ""
  BY DEF HostAtStart, IdleRead
<1>7. Answering(host)
  <2>1. ReadAnswer(host) /\ AfterAnswer(host)
    BY <1>6, IdleFacts DEF ReadAnswer, AfterAnswer
  <2>2. CallsFilled(host)
    BY <1>6, IdleFacts DEF CallsFilled
  <2>. QED BY <2>1, <2>2 DEF Answering
<1>8. FoundFilled(host) /\ NothingChosen(host) /\ Right(host)
  BY <1>6, IdleFacts DEF FoundFilled, NothingChosen, Right
<1>9. ~Crossing(host)
  BY <1>6, IdleFacts DEF Crossing
<1>10. Owed(host, past)
  <2>1. past.posts = IF s.posted THEN 1 ELSE 0
    BY DEF PastAtStart
  <2>2. past.posts > 0 => s.posted
    BY <2>1
  <2>3. host.warned = "" /\ host.post.stage = "idle" /\ host.postedAt = s.posted
    BY <1>6 DEF HostAtStart, IdlePost
  <2>. QED BY ONLY <2>2, <2>3 DEF Owed
<1>. QED BY <1>1, <1>2, <1>3, <1>4, <1>5, <1>7, <1>8, <1>9, <1>10 DEF Inv, HostInv, HostOK

-----------------------------------------------------------------------------
(* The user's acts. *)

LEMMA OnPageKeeps ==
  ASSUME Inv, NEW p \in Pages, OnPage(p), left' \in [Kinds -> Nat], past' \in Pasts,
         past'.crossed = past.crossed, past'.posts = past.posts, past'.warned = past.warned
  PROVE  Inv'
<1>1. page' = p /\ host' = host /\ teams' = teams
  BY DEF OnPage
<1>2. host' \in Hosts /\ Same(host', host)
  BY <1>1 DEF Inv, HostInv, HostOK, Same
<1>3. HostInv'
  BY <1>2, HostSame DEF Inv
<1>. QED BY <1>1, <1>3 DEF Inv

LEMMA UserActsKeeps ==
  ASSUME Inv, NEW p \in Pages, NEW kind \in Kinds, UserActs(p, kind)
  PROVE  Inv'
<1>1. left' \in [Kinds -> Nat]
  BY SpendOK DEF UserActs, Inv
<1>2. past' = past /\ OnPage(p)
  BY DEF UserActs
<1>. QED BY <1>1, <1>2, OnPageKeeps DEF Inv, HostInv

LEMMA ByHostKeeps ==
  ASSUME Inv, NEW h, Handles(h, host), NEW kind \in Kinds, ByHost(h, kind)
  PROVE  Inv'
<1>1. left' \in [Kinds -> Nat] /\ Step(h, past) /\ page' = page /\ teams' = teams
  BY SpendOK DEF ByHost, Inv
<1>2. HostInv'
  BY <1>1, HandledKeeps DEF Inv
<1>. QED BY <1>1, <1>2 DEF Inv

LEMMA WritesKeep ==
  ASSUME Inv, NEW t \in Texts, WriteReply(t) \/ PutWhileSending(t)
  PROVE  Inv'
<1>. DEFINE w == past.written \cup {t}
            l == IF page.replySending THEN past.letGo \cup Word(page.reply) \cup {t}
                 ELSE past.letGo \cup Word(page.reply)
<1>1. OnPage(PutReply(page, t)) /\ Spend("write")
  BY DEF WriteReply, PutWhileSending
<1>2. past' = [past EXCEPT !.written = w, !.letGo = l]
  BY DEF WriteReply, PutWhileSending, CanWrite
<1>3. PutReply(page, t) \in Pages
  BY PageActs DEF Inv
<1>4. w \in SUBSET Texts /\ l \in SUBSET Texts
  <2>1. page.reply \in Texts \cup {""}
    BY DEF Inv, Pages
  <2>2. past.written \in SUBSET Texts /\ past.letGo \in SUBSET Texts
    BY DEF Inv, HostInv, Pasts
  <2>. QED BY <2>1, <2>2 DEF Word
<1>. HIDE DEF w, l
<1>5. /\ past' \in Pasts /\ past'.crossed = past.crossed
      /\ past'.posts = past.posts /\ past'.warned = past.warned
  BY <1>2, <1>4 DEF Inv, HostInv, Pasts
<1>6. left' \in [Kinds -> Nat]
  BY <1>1, SpendOK DEF Inv, Kinds
<1>. QED BY <1>1, <1>3, <1>5, <1>6, OnPageKeeps

LEMMA UserKeeps ==
  ASSUME Inv, UserNext
  PROVE  Inv'
<1>0. page \in Pages /\ HostOK(host) /\ host \in Hosts
  BY DEF Inv, HostInv, HostOK
<1>k. {"send", "pick", "look", "reload", "postEdit", "postPress", "change", "cancel", "poll",
       "relabel", "rewrite"} \subseteq Kinds
  BY DEF Kinds
<1>1. ASSUME NEW t \in Texts, WriteReply(t) \/ PutWhileSending(t) PROVE Inv'
  BY <1>1, WritesKeep
<1>2. CASE ClickSend
  BY <1>0, <1>k, <1>2, PageActs, UserActsKeeps DEF ClickSend
<1>3. CASE ClickConversation
  BY <1>0, <1>k, <1>3, PageActs, UserActsKeeps DEF ClickConversation
<1>4. CASE ClickRefresh
  BY <1>0, <1>k, <1>4, PageActs, UserActsKeeps DEF ClickRefresh
<1>5. CASE ClickReload
  BY <1>0, <1>k, <1>5, PageActs, UserActsKeeps DEF ClickReload
<1>6. CASE TypePost
  BY <1>0, <1>k, <1>6, PageActs, UserActsKeeps DEF TypePost
<1>7. CASE ClickPost
  BY <1>0, <1>k, <1>7, PageActs, UserActsKeeps DEF ClickPost
<1>8. CASE OpenEdit
  BY <1>0, <1>k, <1>8, PageActs, UserActsKeeps DEF OpenEdit
<1>9. CASE ClickSave
  BY <1>0, <1>k, <1>9, PageActs, UserActsKeeps DEF ClickSave
<1>10. CASE EscapeEdit
  BY <1>0, <1>k, <1>10, PageActs, UserActsKeeps DEF EscapeEdit
<1>11. CASE ClickDelete
  BY <1>0, <1>k, <1>11, PageActs, UserActsKeeps DEF ClickDelete
<1>12. CASE ShowTab
  BY <1>0, <1>k, <1>12, ActivateHandles, ByHostKeeps DEF ShowTab
<1>13. CASE PollTick
  BY <1>0, <1>k, <1>13, PollHandles, ByHostKeeps DEF PollTick
<1>14. CASE SwitchLanguage
  BY <1>0, <1>k, <1>14, LanguageHandles, ByHostKeeps DEF SwitchLanguage
<1>15. CASE RewriteDraft
  <2>1. PICK d \in Drafts : ByHost([host EXCEPT !.file = d], "rewrite")
    BY <1>15 DEF RewriteDraft
  <2>2. [host EXCEPT !.file = d] \in Hosts /\ Same([host EXCEPT !.file = d], host)
    BY ZenonT(60), <1>0 DEF Hosts, Same
  <2>. QED BY <1>0, <1>k, <2>1, <2>2, SameHandles, ByHostKeeps
<1>16. CASE AnswerDialog
  <2>1. PICK id \in host.asking, yes \in BOOLEAN :
          Step(ConfirmDelete(host, id, yes), past) /\ UNCHANGED <<page, teams, left>>
    BY <1>16 DEF AnswerDialog
  <2>2. id \in Ids
    BY <1>0, <2>1 DEF Hosts
  <2>3. HostInv'
    BY <1>0, <2>1, <2>2, ConfirmHandles, HandledKeeps DEF Inv
  <2>. QED BY <2>1, <2>3 DEF Inv
<1>. QED BY <1>1, <1>2, <1>3, <1>4, <1>5, <1>6, <1>7, <1>8, <1>9, <1>10, <1>11, <1>12, <1>13,
            <1>14, <1>15, <1>16 DEF UserNext

-----------------------------------------------------------------------------
(* The messages between the page and its host. *)

LEMMA TookKeeps ==
  ASSUME Inv, page.out # <<>>, NEW h, Handles(h, host), Took(h, past)
  PROVE  Inv'
<1>1. page' \in Pages /\ Step(h, past) /\ teams' = teams /\ left' = left
  BY PageDrops DEF Took, Inv
<1>2. HostInv'
  BY <1>1, HandledKeeps DEF Inv
<1>. QED BY <1>1, <1>2 DEF Inv

LEMMA PageMessageTypes ==
  ASSUME NEW m \in PageMessages
  PROVE  /\ m.type = "selectConversation" => m.conv \in Convs
         /\ m.type = "send" => m.text \in Texts
         /\ m.type = "post" => m.text \in Posts
         /\ m.type \in {"edit", "delete"} => m.id \in Ids
BY DEF PageMessages

LEMMA HearPostKeeps ==
  ASSUME Inv, HearPost
  PROVE  Inv'
<1>. DEFINE h == PostToTeamsAsync(host, Message.text)
            w == past.warned \/ (h.warned # host.warned /\ h.postState = "warning")
            p == [past EXCEPT !.warned = w]
<1>0. HostOK(host) /\ past \in Pasts /\ Owed(host, past) /\ page.out # <<>>
  BY DEF Inv, HostInv, HearPost, Asked
<1>1. Message.text \in Posts
  BY PageDrops, PageMessageTypes DEF Inv, HearPost, Asked, Message
<1>2. "" \notin Posts
  BY KindsOfText DEF Posts
<1>3. page' \in Pages /\ Step(h, p) /\ teams' = teams /\ left' = left
  BY <1>0, PageDrops DEF HearPost, Took, Inv
<1>4. w \in BOOLEAN
  BY <1>0 DEF Pasts
<1>. HIDE DEF w
<1>5. p \in Pasts /\ p.posts = past.posts /\ p.warned = w /\ p.crossed = past.crossed
  BY <1>0, <1>4 DEF Pasts
<1>6. /\ Keeps(h, host)
      /\ \/ PostKept(h, host)
         \/ /\ MustWarn(host, Message.text) /\ ~Busy(host.post) /\ h.post = host.post
            /\ h.warned = Message.text /\ h.postState = "warning"
            /\ h.postedAt = host.postedAt /\ h.postUncertain = host.postUncertain
         \/ /\ ~MustWarn(host, Message.text) /\ ~Busy(host.post) /\ h.warned = ""
            /\ h.post.stage = "asked"
  BY <1>0, <1>1, PostOK
<1>. HIDE DEF h, p
<1>7. Owed(h, p)
  <2>1. CASE PostKept(h, host)
    BY <1>0, <1>5, <2>1 DEF Owed, PostKept, w
  <2>2. CASE /\ MustWarn(host, Message.text) /\ ~Busy(host.post) /\ h.post = host.post
             /\ h.warned = Message.text /\ h.postState = "warning"
             /\ h.postedAt = host.postedAt /\ h.postUncertain = host.postUncertain
    <3>1. w
      BY <2>2 DEF MustWarn, w
    <3>. QED BY <1>5, <2>2, <3>1 DEF Owed
  <2>3. CASE /\ ~MustWarn(host, Message.text) /\ ~Busy(host.post) /\ h.warned = ""
             /\ h.post.stage = "asked"
    <3>1. past.posts > 0 => past.warned
      BY <1>0, <1>1, <1>2, <2>3 DEF MustWarn, Owed, Busy
    <3>. QED BY <1>5, <2>3, <3>1 DEF Owed, w
  <2>. QED BY <1>6, <2>1, <2>2, <2>3
<1>8. HostInv'
  BY <1>3, <1>5, <1>6, <1>7, StepKeeps DEF Keeps, Inv, HostInv
<1>. QED BY <1>3, <1>8 DEF Inv

LEMMA HostHearsKeeps ==
  ASSUME Inv, HostHears
  PROVE  Inv'
<1>0. page \in Pages /\ HostOK(host)
  BY DEF Inv, HostInv
<1>1. ASSUME page.out # <<>> PROVE Message \in PageMessages
  BY <1>0, <1>1, PageDrops DEF Message
<1>2. CASE HearRefresh
  BY <1>0, <1>2, ReadAsyncHandles, TookKeeps DEF HearRefresh, Asked
<1>3. CASE HearSelect
  <2>1. Message.conv \in Convs
    BY <1>1, <1>3, PageMessageTypes DEF HearSelect, Asked
  <2>. QED BY <1>0, <1>3, <2>1, SelectHandles, TookKeeps DEF HearSelect, Asked
<1>4. CASE HearReload
  BY <1>0, <1>4, PostDraftHandles, TookKeeps DEF HearReload, Asked
<1>5. CASE HearSend
  <2>1. Message.text \in Texts
    BY <1>1, <1>5, PageMessageTypes DEF HearSend, Asked
  <2>. QED BY <1>0, <1>5, <2>1, SendHandles, TookKeeps DEF HearSend, Asked
<1>6. CASE HearEdit
  <2>1. Message.id \in Ids
    BY <1>1, <1>6, PageMessageTypes DEF HearEdit, Asked
  <2>. QED BY <1>0, <1>6, <2>1, ChangeHandles, TookKeeps DEF HearEdit, Asked
<1>7. CASE HearDelete
  <2>1. Message.id \in Ids
    BY <1>1, <1>7, PageMessageTypes DEF HearDelete, Asked
  <2>. QED BY <1>0, <1>7, <2>1, AskDeleteHandles, TookKeeps DEF HearDelete, Asked
<1>8. CASE HearPost
  BY <1>8, HearPostKeeps
<1>. QED BY <1>2, <1>3, <1>4, <1>5, <1>6, <1>7, <1>8 DEF HostHears

LEMMA ShownKeeps ==
  ASSUME Inv, host.out # <<>>, NEW p \in Pages, Shown(p), past' \in Pasts,
         past'.crossed = past.crossed, past'.posts = past.posts, past'.warned = past.warned
  PROVE  Inv'
<1>1. page' \in Pages /\ teams' = teams /\ left' = left /\ host' = [host EXCEPT !.out = Tail(@)]
  BY DEF Shown
<1>2. host' \in Hosts /\ Same(host', host)
  BY <1>1, HostDrops DEF Inv, HostInv, HostOK
<1>3. HostInv'
  BY <1>2, HostSame DEF Inv
<1>. QED BY <1>1, <1>3 DEF Inv

LEMMA PageHearsKeeps ==
  ASSUME Inv, PageHears
  PROVE  Inv'
<1>0. page \in Pages /\ host \in Hosts /\ past \in Pasts
  BY DEF Inv, HostInv, HostOK
<1>1. host.out # <<>> /\ News \in HostMessages
  <2>1. host.out # <<>>
    BY DEF PageHears, PageState, PageThread, PageConversations, PageEditState, PageDeleteState,
           PageDraft, PageSendState, PagePostState, Told
  <2>. QED BY <1>0, <2>1, HostDrops DEF News
<1>2. CASE PageState \/ PageThread \/ PageConversations \/ PageEditState \/ PageDeleteState
  <2>1. past' = past
    BY <1>2 DEF PageState, PageThread, PageConversations, PageEditState, PageDeleteState
  <2>2. PICK p \in Pages : Shown(p)
    BY <1>0, <1>1, <1>2, PageShows
       DEF PageState, PageThread, PageConversations, PageEditState, PageDeleteState, Told
  <2>. QED BY <1>0, <1>1, <2>1, <2>2, ShownKeeps
<1>3. CASE PageDraft
  <2>. DEFINE r == past.risky /\ ~TakesDraft(page, News)
  <2>1. past' = [past EXCEPT !.risky = r] /\ r \in BOOLEAN
    BY <1>3 DEF PageDraft
  <2>. HIDE DEF r
  <2>2. /\ past' \in Pasts /\ past'.crossed = past.crossed
        /\ past'.posts = past.posts /\ past'.warned = past.warned
    BY <1>0, <2>1 DEF Pasts
  <2>3. ShowDraft(page, News) \in Pages /\ Shown(ShowDraft(page, News))
    BY <1>0, <1>1, <1>3, PageShows DEF PageDraft, Told
  <2>. QED BY <1>1, <2>2, <2>3, ShownKeeps
<1>4. CASE PageSendState
  <2>. DEFINE m == past.misled \/ (News.again /\ page.replySending /\ News.kind # "sending")
              l == IF m /\ ClearsReply(page, News) THEN past.letGo \cup Word(page.reply) ELSE past.letGo
  <2>1. past' = [past EXCEPT !.misled = m, !.letGo = l]
    BY <1>4 DEF PageSendState
  <2>2. m \in BOOLEAN /\ l \in SUBSET Texts
    <3>1. page.reply \in Texts \cup {""} /\ past.letGo \in SUBSET Texts
      BY <1>0 DEF Pages, Pasts
    <3>. QED BY <3>1 DEF Word
  <2>. HIDE DEF m, l
  <2>3. /\ past' \in Pasts /\ past'.crossed = past.crossed
        /\ past'.posts = past.posts /\ past'.warned = past.warned
    BY <1>0, <2>1, <2>2 DEF Pasts
  <2>4. ShowSendStateOnPage(page, News) \in Pages /\ Shown(ShowSendStateOnPage(page, News))
    BY <1>0, <1>1, <1>4, PageShows DEF PageSendState, Told
  <2>. QED BY <1>1, <2>3, <2>4, ShownKeeps
<1>5. CASE PagePostState
  <2>. DEFINE r == past.risky \/ (News.kind = "sent" /\ page.draft \notin past.published)
  <2>1. past' = [past EXCEPT !.risky = r] /\ r \in BOOLEAN
    BY <1>5 DEF PagePostState
  <2>. HIDE DEF r
  <2>2. /\ past' \in Pasts /\ past'.crossed = past.crossed
        /\ past'.posts = past.posts /\ past'.warned = past.warned
    BY <1>0, <2>1 DEF Pasts
  <2>3. ShowPostStateOnPage(page, News) \in Pages /\ Shown(ShowPostStateOnPage(page, News))
    BY <1>0, <1>1, <1>5, PageShows DEF PagePostState, Told
  <2>. QED BY <1>1, <2>2, <2>3, ShownKeeps
<1>. QED BY <1>2, <1>3, <1>4, <1>5 DEF PageHears

-----------------------------------------------------------------------------
(* Teams answers. *)

LEMMA ServedKeeps ==
  ASSUME HostInv, host' \in Hosts, Answering(host'), Served(host', host), past' \in Pasts,
         past'.crossed = past.crossed, Owed(host', past')
  PROVE  HostInv'
<1>1. FoundFilled(host') /\ NothingChosen(host')
  BY DEF HostInv, HostOK, Served, FoundFilled, NothingChosen
<1>2. Crossing(host') <=> Crossing(host)
  BY DEF Served, Crossing
<1>3. Right(host') <=> Right(host)
  BY DEF Served, Right, Replaced
<1>. QED BY <1>1, <1>2, <1>3 DEF HostInv, HostOK

LEMMA AnswersOK ==
  ASSUME teams \in TeamsStates, NEW conv \in Convs, NEW faulty \in BOOLEAN, NEW r \in Answers(conv, faulty)
  PROVE  r \in Results /\ r.state # "null" /\ (r.state = "found" => r.conv = conv /\ r.listed)
<1>1. /\ teams.chats \in SUBSET Chats /\ teams.in[conv] \in SUBSET Messages
      /\ teams.in[Post] \in SUBSET Messages /\ Post \in Convs
  BY DEF TeamsStates, Convs
<1>2. ASSUME NEW state \in {"notPosted", "signedOut", "failed"}, NEW listed \in BOOLEAN,
             NEW chats \in SUBSET Chats, r = Result(state, "", {}, listed, chats)
      PROVE  r \in Results /\ r.state = state
  BY <1>2 DEF Result, Results
<1>3. ASSUME NEW msgs \in SUBSET Messages, NEW chats \in SUBSET Chats,
             r = Result("found", conv, msgs, TRUE, chats)
      PROVE  r \in Results /\ r.state = "found" /\ r.conv = conv /\ r.listed
  BY <1>3 DEF Result, Results
<1>4. CASE faulty
  <2>1. r = Result("failed", "", {}, FALSE, {}) \/ r = Result("signedOut", "", {}, FALSE, {})
    BY <1>4 DEF Answers, Unread
  <2>2. CASE r = Result("failed", "", {}, FALSE, {})
    <3>1. r \in Results /\ r.state = "failed"
      BY <2>2 DEF Result, Results
    <3>. QED BY <3>1
  <2>3. CASE r = Result("signedOut", "", {}, FALSE, {})
    <3>1. r \in Results /\ r.state = "signedOut"
      BY <2>3 DEF Result, Results
    <3>. QED BY <3>1
  <2>. QED BY <2>1, <2>2, <2>3
<1>5. CASE ~faulty
  <2>1. r = ReadOf(conv)
    BY <1>5 DEF Answers
  <2>2. \/ r = Result("found", conv, teams.in[conv], TRUE, teams.chats)
        \/ r = Result("notPosted", "", {}, TRUE, teams.chats)
        \/ r = Result("failed", "", {}, TRUE, teams.chats)
    BY <2>1 DEF ReadOf, PostRead
  <2>3. CASE r = Result("found", conv, teams.in[conv], TRUE, teams.chats)
    BY <1>1, <1>3, <2>3
  <2>4. CASE r = Result("notPosted", "", {}, TRUE, teams.chats)
    <3>1. r \in Results /\ r.state = "notPosted"
      BY <1>1, <1>2, <2>4
    <3>. QED BY <3>1
  <2>5. CASE r = Result("failed", "", {}, TRUE, teams.chats)
    <3>1. r \in Results /\ r.state = "failed"
      BY <1>1, <1>2, <2>5
    <3>. QED BY <3>1
  <2>. QED BY <2>2, <2>3, <2>4, <2>5
<1>. QED BY <1>4, <1>5

LEMMA FailsOK ==
  ASSUME left \in [Kinds -> Nat], NEW faulty \in BOOLEAN, Fails(faulty)
  PROVE  left' \in [Kinds -> Nat]
BY SpendOK DEF Fails, Kinds

LEMMA ServeReadKeeps ==
  ASSUME Inv, ServeRead
  PROVE  Inv'
<1>0. host \in Hosts /\ Answering(host) /\ teams \in TeamsStates
  BY DEF Inv, HostInv, HostOK
<1>a. PICK faulty \in BOOLEAN : \E r \in Answers(ReadConv(host.read.conv), faulty) :
        /\ host.read.stage = "asked"
        /\ host' = [host EXCEPT !.read.stage = "served", !.read.result = r]
        /\ Fails(faulty) /\ UNCHANGED <<page, teams, past>>
  BY DEF ServeRead
<1>1. PICK r \in Answers(ReadConv(host.read.conv), faulty) :
        /\ host.read.stage = "asked"
        /\ host' = [host EXCEPT !.read.stage = "served", !.read.result = r]
        /\ Fails(faulty) /\ UNCHANGED <<page, teams, past>>
  BY <1>a
<1>2. ReadConv(host.read.conv) \in Convs
  BY <1>0, ReadConvOK DEF Hosts
<1>3. r \in Results /\ r.state # "null" /\ (r.state = "found" => r.conv = ReadConv(host.read.conv) /\ r.listed)
  BY <1>0, <1>1, <1>2, AnswersOK
<1>. DEFINE rr == [host.read EXCEPT !.stage = "served", !.result = r]
<1>4. /\ rr \in [stage : Stages, conv : Convs \cup {Unchosen}, quiet : BOOLEAN, result : Results]
      /\ rr.stage = "served" /\ rr.result = r /\ rr.conv = host.read.conv /\ rr.quiet = host.read.quiet
  BY <1>0, <1>3 DEF Hosts, Stages
<1>5. host' = [host EXCEPT !.read = rr]
  BY <1>0, <1>1 DEF Hosts
<1>. HIDE DEF rr
<1>6. /\ host' \in Hosts /\ host'.read = rr
      /\ host'.chosen = host.chosen /\ host'.lastChats = host.lastChats /\ host'.found = host.found
      /\ host'.readAgain = host.readAgain /\ host'.wait = host.wait /\ host'.send = host.send
      /\ host'.change = host.change /\ PostKept(host', host)
  BY ZenonT(60), <1>0, <1>4, <1>5 DEF Hosts, PostKept
<1>7. Answering(host')
  <2>1. ReadAnswer(host') /\ AfterAnswer(host')
    BY <1>0, <1>3, <1>4, <1>6 DEF Answering, ReadAnswer, AfterAnswer
  <2>2. CallsFilled(host')
    BY <1>0, <1>3, <1>4, <1>6 DEF Answering, CallsFilled, PostKept
  <2>. QED BY <2>1, <2>2 DEF Answering
<1>8. Served(host', host)
  BY <1>1, <1>4, <1>6 DEF Served, Busy, PostKept
<1>9. Owed(host', past')
  BY <1>1, <1>6 DEF Inv, HostInv, Owed, PostKept
<1>10. HostInv'
  BY <1>1, <1>6, <1>7, <1>8, <1>9, ServedKeeps DEF Inv, HostInv
<1>. QED BY <1>1, <1>10, FailsOK DEF Inv

LEMMA ServeWaitKeeps ==
  ASSUME Inv, ServeWait
  PROVE  Inv'
<1>0. host \in Hosts /\ Answering(host) /\ teams \in TeamsStates /\ Post \in Convs
  BY DEF Inv, HostInv, HostOK, Convs
<1>a. PICK faulty \in BOOLEAN : \E r \in Answers(Post, faulty) :
        /\ host.wait.stage = "asked"
        /\ host' = [host EXCEPT !.wait.stage = "served", !.wait.result = r]
        /\ Fails(faulty) /\ UNCHANGED <<page, teams, past>>
  BY DEF ServeWait
<1>1. PICK r \in Answers(Post, faulty) :
        /\ host.wait.stage = "asked"
        /\ host' = [host EXCEPT !.wait.stage = "served", !.wait.result = r]
        /\ Fails(faulty) /\ UNCHANGED <<page, teams, past>>
  BY <1>a
<1>3. r \in Results /\ r.state # "null" /\ (r.state = "found" => r.conv = Post /\ r.listed)
  BY <1>0, <1>1, AnswersOK
<1>. DEFINE w == [host.wait EXCEPT !.stage = "served", !.result = r]
<1>4. w \in [stage : Stages, result : Results] /\ w.stage = "served" /\ w.result = r
  BY <1>0, <1>3 DEF Hosts, Stages
<1>5. host' = [host EXCEPT !.wait = w]
  BY <1>0, <1>1 DEF Hosts
<1>. HIDE DEF w
<1>6. /\ host' \in Hosts /\ host'.wait = w
      /\ host'.chosen = host.chosen /\ host'.lastChats = host.lastChats /\ host'.found = host.found
      /\ host'.readAgain = host.readAgain /\ host'.read = host.read /\ host'.send = host.send
      /\ host'.change = host.change /\ PostKept(host', host)
  BY ZenonT(60), <1>0, <1>4, <1>5 DEF Hosts, PostKept
<1>7. Answering(host')
  <2>1. ReadAnswer(host') /\ AfterAnswer(host')
    BY <1>0, <1>3, <1>4, <1>6 DEF Answering, ReadAnswer, AfterAnswer
  <2>2. CallsFilled(host')
    BY <1>0, <1>3, <1>4, <1>6 DEF Answering, CallsFilled, PostKept
  <2>. QED BY <2>1, <2>2 DEF Answering
<1>8. Served(host', host)
  BY <1>1, <1>4, <1>6 DEF Served, Busy, PostKept
<1>9. Owed(host', past')
  BY <1>1, <1>6 DEF Inv, HostInv, Owed, PostKept
<1>10. HostInv'
  BY <1>1, <1>6, <1>7, <1>8, <1>9, ServedKeeps DEF Inv, HostInv
<1>. QED BY <1>1, <1>10, FailsOK DEF Inv

LEMMA RereadOK ==
  ASSUME teams \in TeamsStates, NEW conv \in Convs, NEW msgs \in SUBSET Messages
  PROVE  Reread(conv, msgs) \in Results /\ Reread(conv, msgs).conv = conv
<1>1. (conv # Post) \in BOOLEAN /\ (IF conv = Post THEN {} ELSE teams.chats) \in SUBSET Chats
  BY DEF TeamsStates
<1>. QED BY <1>1 DEF Reread, Result, Results

LEMMA AnswerOfOK ==
  ASSUME NEW o \in Outcomes
  PROVE  AnswerOf(o) \in Answered /\ (IsDone(o) => AnswerOf(o) \in {"sent", "uncertain"})
BY DEF Outcomes, AnswerOf, Answered, IsDone

LEMMA InTeamsOK ==
  ASSUME NEW t \in TeamsStates, NEW c \in Convs, NEW msgs \in SUBSET Messages
  PROVE  [t EXCEPT !.in[c] = msgs] \in TeamsStates
<1>. DEFINE f == [t.in EXCEPT ![c] = msgs]
<1>1. f \in [Convs -> SUBSET Messages]
  BY DEF TeamsStates
<1>2. [t EXCEPT !.in[c] = msgs] = [t EXCEPT !.in = f]
  BY DEF TeamsStates
<1>. HIDE DEF f
<1>. QED BY <1>1, <1>2 DEF TeamsStates

LEMMA ServeSendKeeps ==
  ASSUME Inv, ServeSend
  PROVE  Inv'
<1>0. host \in Hosts /\ Answering(host) /\ teams \in TeamsStates /\ past \in Pasts
  BY DEF Inv, HostInv, HostOK
<1>. DEFINE s == host.send
            after == teams.in[s.conv] \cup {[id |-> s.text, ver |-> "first"]}
<1>1. PICK o \in Outcomes :
        /\ s.stage = "asked"
        /\ Fails(o # "sent" /\ Exists(s.conv))
        /\ host' = [host EXCEPT !.send.stage = "served", !.send.answer = AnswerOf(o),
                      !.send.after = IF o = "sent" THEN Reread(s.conv, after) ELSE NoResult]
        /\ teams' = IF IsDone(o) THEN [teams EXCEPT !.in[s.conv] = after] ELSE teams
        /\ past' = IF ~IsDone(o) THEN past
                   ELSE [past EXCEPT !.copies[s.text] = @ + 1, !.acked = Forgotten(@, s.conv, s.text)]
        /\ UNCHANGED page
  BY DEF ServeSend
<1>2. s.conv \in Convs /\ s.text \in Texts /\ s.text \in Ids
  BY <1>0, <1>1 DEF Answering, CallsFilled, Busy, Ids
<1>3. after \in SUBSET Messages
  BY <1>0, <1>2 DEF TeamsStates, Messages
<1>4. teams' \in TeamsStates
  BY <1>0, <1>1, <1>2, <1>3, InTeamsOK
<1>. DEFINE a == IF o = "sent" THEN Reread(s.conv, after) ELSE NoResult
            ss == [s EXCEPT !.stage = "served", !.answer = AnswerOf(o), !.after = a]
            n == IF IsDone(o) THEN past.copies[s.text] + 1 ELSE past.copies[s.text]
            f == [past.copies EXCEPT ![s.text] = n]
<1>5. a \in Results /\ (a.state = "found" => a.conv = s.conv)
  BY <1>0, <1>2, <1>3, RereadOK, IdleOK DEF NoResult, Result
<1>. HIDE DEF a, after
<1>6. AnswerOf(o) \in Answered /\ AnswerOf(o) # ""
  BY AnswerOfOK DEF Answered
<1>7. /\ ss \in [stage : Stages, conv : Convs \cup {""}, text : Texts \cup {""},
                 answer : Answered \cup {""}, after : Results]
      /\ ss.stage = "served" /\ ss.conv = s.conv /\ ss.text = s.text
      /\ ss.answer = AnswerOf(o) /\ ss.after = a
  <2>1. s \in [stage : Stages, conv : Convs \cup {""}, text : Texts \cup {""},
               answer : Answered \cup {""}, after : Results]
    BY <1>0 DEF Hosts
  <2>. HIDE DEF s
  <2>. QED BY <1>5, <1>6, <2>1 DEF Stages
<1>8. host' = [host EXCEPT !.send = ss]
  <2>1. host' = [host EXCEPT !.send.stage = "served", !.send.answer = AnswerOf(o), !.send.after = a]
    BY <1>1 DEF a, after
  <2>. QED BY <1>0, <2>1 DEF Hosts
<1>. HIDE DEF ss
<1>9. /\ host' \in Hosts /\ host'.send = ss
      /\ host'.chosen = host.chosen /\ host'.lastChats = host.lastChats /\ host'.found = host.found
      /\ host'.readAgain = host.readAgain /\ host'.wait = host.wait /\ host'.read = host.read
      /\ host'.change = host.change /\ PostKept(host', host)
  BY ZenonT(60), <1>0, <1>7, <1>8 DEF Hosts, PostKept
<1>10. Answering(host')
  <2>1. ReadAnswer(host') /\ AfterAnswer(host')
    BY <1>0, <1>5, <1>7, <1>9 DEF Answering, ReadAnswer, AfterAnswer
  <2>2. CallsFilled(host')
    BY <1>0, <1>2, <1>6, <1>7, <1>9 DEF Answering, CallsFilled, PostKept
  <2>. QED BY <2>1, <2>2 DEF Answering
<1>11. Served(host', host)
  BY ZenonT(60), <1>1, <1>7, <1>9 DEF Served, Busy, PostKept
<1>. DEFINE ak == Forgotten(past.acked, s.conv, s.text)
<1>12. f \in [Texts -> Nat] /\ ak \subseteq past.acked
  <2>1. past.copies \in [Texts -> Nat] /\ past.copies[s.text] \in Nat
    BY <1>0, <1>2 DEF Pasts
  <2>2. n \in Nat
    BY <2>1
  <2>. HIDE DEF n
  <2>. QED BY <2>1, <2>2 DEF Forgotten
<1>13. past' = IF ~IsDone(o) THEN past ELSE [past EXCEPT !.copies = f, !.acked = ak]
  <2>1. CASE ~IsDone(o)
    BY <1>1, <2>1
  <2>2. CASE IsDone(o)
    <3>1. past' = [past EXCEPT !.copies[s.text] = @ + 1, !.acked = ak]
      BY <1>1, <2>2
    <3>2. f = [past.copies EXCEPT ![s.text] = @ + 1]
      BY <2>2
    <3>. HIDE DEF f, ak
    <3>. QED BY <1>0, <2>2, <3>1, <3>2 DEF Pasts
  <2>. QED BY <2>1, <2>2
<1>. HIDE DEF f, ak
<1>14. /\ past' \in Pasts /\ past'.crossed = past.crossed
       /\ past'.posts = past.posts /\ past'.warned = past.warned
  BY <1>0, <1>12, <1>13 DEF Pasts
<1>15. Owed(host', past')
  BY <1>9, <1>14 DEF Inv, HostInv, Owed, PostKept
<1>16. HostInv'
  BY <1>9, <1>10, <1>11, <1>14, <1>15, ServedKeeps DEF Inv
<1>. QED BY <1>1, <1>4, <1>16, FailsOK DEF Inv

LEMMA ServePostKeeps ==
  ASSUME Inv, ServePost
  PROVE  Inv'
<1>0. /\ host \in Hosts /\ Answering(host) /\ teams \in TeamsStates /\ past \in Pasts
      /\ Owed(host, past)
  BY DEF Inv, HostInv, HostOK
<1>1. PICK o \in Outcomes \ {"sentUnread"} :
        /\ host.post.stage = "asked"
        /\ Fails(o # "sent")
        /\ host' = [host EXCEPT !.post.stage = "served", !.post.answer = AnswerOf(o)]
        /\ teams' = IF ~IsDone(o) THEN teams
                    ELSE [teams EXCEPT !.root = IF o = "sent" \/ @ = "up" THEN "up" ELSE "unseen",
                            !.in[Post] = IF o = "sent" \/ teams.root # "up"
                                         THEN {[id |-> "root", ver |-> "first"]} ELSE @]
        /\ past' = IF ~IsDone(o) THEN past
                   ELSE [past EXCEPT !.posts = @ + 1, !.warned = FALSE,
                           !.published = @ \cup {host.post.text},
                           !.acked = {a \in @ : a.conv # Post}]
        /\ UNCHANGED page
  BY DEF ServePost
<1>2. host.post.text \in Posts
  BY <1>0, <1>1 DEF Answering, CallsFilled, Busy
<1>3. teams' \in TeamsStates
  <2>. DEFINE r == IF o = "sent" \/ teams.root = "up" THEN "up" ELSE "unseen"
              ms == IF o = "sent" \/ teams.root # "up"
                    THEN {[id |-> "root", ver |-> "first"]} ELSE teams.in[Post]
              t == [teams EXCEPT !.root = r]
  <2>1. CASE IsDone(o)
    <3>1. ms \in SUBSET Messages /\ Post \in Convs
      BY <1>0 DEF TeamsStates, Messages, Ids, Convs
    <3>2. t \in TeamsStates
      BY <1>0 DEF TeamsStates
    <3>3. teams' = [t EXCEPT !.in[Post] = ms]
      BY <1>0, <1>1, <2>1 DEF TeamsStates
    <3>. HIDE DEF t, ms
    <3>. QED BY <3>1, <3>2, <3>3, InTeamsOK
  <2>2. CASE ~IsDone(o)
    BY <1>0, <1>1, <2>2
  <2>. QED BY <2>1, <2>2
<1>4. AnswerOf(o) \in Answered /\ AnswerOf(o) # "" /\ (IsDone(o) => AnswerOf(o) \in {"sent", "uncertain"})
  BY AnswerOfOK DEF Answered
<1>. DEFINE pp == [host.post EXCEPT !.stage = "served", !.answer = AnswerOf(o)]
<1>5. /\ pp \in [stage : Stages, text : Posts \cup {""}, answer : Answered \cup {""}]
      /\ pp.stage = "served" /\ pp.text = host.post.text /\ pp.answer = AnswerOf(o)
  BY <1>0, <1>4 DEF Hosts, Stages
<1>6. host' = [host EXCEPT !.post = pp]
  BY <1>0, <1>1 DEF Hosts
<1>. HIDE DEF pp
<1>7. /\ host' \in Hosts /\ host'.post = pp /\ host'.warned = host.warned
      /\ host'.postedAt = host.postedAt /\ host'.postUncertain = host.postUncertain
      /\ host'.chosen = host.chosen /\ host'.lastChats = host.lastChats /\ host'.found = host.found
      /\ host'.readAgain = host.readAgain /\ host'.wait = host.wait /\ host'.read = host.read
      /\ host'.change = host.change /\ host'.send = host.send
  BY ZenonT(60), <1>0, <1>5, <1>6 DEF Hosts
<1>8. Answering(host')
  <2>1. ReadAnswer(host') /\ AfterAnswer(host')
    BY <1>0, <1>7 DEF Answering, ReadAnswer, AfterAnswer
  <2>2. CallsFilled(host')
    BY <1>0, <1>2, <1>4, <1>5, <1>7 DEF Answering, CallsFilled
  <2>. QED BY <2>1, <2>2 DEF Answering
<1>9. Served(host', host)
  BY <1>1, <1>5, <1>7 DEF Served, Busy
<1>10. host.warned = "" /\ (past.posts > 0 => past.warned)
  BY <1>0, <1>1 DEF Owed, Busy
<1>11. CASE IsDone(o)
  <2>. DEFINE ps == past.posts + 1
              pb == past.published \cup {host.post.text}
              ak == {a \in past.acked : a.conv # Post}
  <2>1. past' = [past EXCEPT !.posts = ps, !.warned = FALSE, !.published = pb, !.acked = ak]
    BY <1>1, <1>11
  <2>2. /\ ps \in Nat /\ pb \in SUBSET Posts
        /\ ak \in SUBSET [conv : Convs, id : Ids, ver : {"first", "edited", "gone"}]
    BY <1>0, <1>2 DEF Pasts
  <2>. HIDE DEF ps, pb, ak
  <2>3. past' \in Pasts /\ past'.crossed = past.crossed
    BY <1>0, <2>1, <2>2 DEF Pasts
  <2>4. Owed(host', past')
    BY <1>4, <1>5, <1>7, <1>10, <1>11 DEF Owed
  <2>5. HostInv'
    BY <1>7, <1>8, <1>9, <2>3, <2>4, ServedKeeps DEF Inv
  <2>. QED BY <1>1, <1>3, <2>5, FailsOK DEF Inv
<1>12. CASE ~IsDone(o)
  <2>1. past' = past
    BY <1>1, <1>12
  <2>2. Owed(host', past')
    BY <1>5, <1>7, <1>10, <2>1 DEF Owed
  <2>3. HostInv'
    BY <1>0, <1>7, <1>8, <1>9, <2>1, <2>2, ServedKeeps DEF Inv
  <2>. QED BY <1>1, <1>3, <2>3, FailsOK DEF Inv
<1>. QED BY <1>11, <1>12

LEMMA ServeChangeKeeps ==
  ASSUME Inv, ServeChange
  PROVE  Inv'
<1>0. /\ host \in Hosts /\ Answering(host) /\ teams \in TeamsStates /\ past \in Pasts
      /\ Owed(host, past)
  BY DEF Inv, HostInv, HostOK
<1>. DEFINE c == host.change
            msgs == Changed(c.conv, c.what, c.id)
            dropsPost == c.what = "delete" /\ c.id = "root"
            possible == Exists(c.conv) /\ HasId(teams.in[c.conv], c.id)
<1>1. PICK o \in Outcomes :
        /\ c.stage = "asked"
        /\ Fails(o # "sent" /\ possible)
        /\ \E r \in IF dropsPost /\ o = "sentUnread" THEN {Unread("failed"), Unread("signedOut")}
                    ELSE IF dropsPost /\ o = "sent" THEN {Result("notPosted", "", {}, TRUE, teams.chats)}
                    ELSE IF o = "sent" THEN {Reread(c.conv, msgs)} ELSE {NoResult} :
             host' = [host EXCEPT !.change.stage = "served", !.change.answer = AnswerOf(o), !.change.after = r]
        /\ teams' = IF ~IsDone(o) THEN teams
                    ELSE [teams EXCEPT !.in[c.conv] = msgs, !.root = IF dropsPost THEN "none" ELSE @]
        /\ past' = IF ~IsDone(o) THEN past
                   ELSE [past EXCEPT !.acked = IF dropsPost THEN {a \in @ : a.conv # Post}
                                               ELSE Forgotten(@, c.conv, c.id)]
        /\ UNCHANGED page
  BY DEF ServeChange
<1>2. c.conv \in Convs /\ c.id \in Ids
  BY <1>0, <1>1 DEF Answering, CallsFilled, Busy
<1>3. msgs \in SUBSET Messages /\ teams.chats \in SUBSET Chats
  <2>1. teams.in[c.conv] \in SUBSET Messages
    BY <1>0, <1>2 DEF TeamsStates
  <2>2. [id |-> c.id, ver |-> "edited"] \in Messages
    BY <1>2 DEF Messages
  <2>. HIDE DEF c
  <2>. QED BY <1>0, <2>1, <2>2 DEF Changed, TeamsStates
<1>4. teams' \in TeamsStates
  <2>. DEFINE t == [teams EXCEPT !.in[c.conv] = msgs]
              r == IF dropsPost THEN "none" ELSE teams.root
  <2>1. t \in TeamsStates
    BY <1>0, <1>2, <1>3, InTeamsOK
  <2>2. teams' = IF ~IsDone(o) THEN teams ELSE [t EXCEPT !.root = r]
    BY <1>0, <1>1 DEF TeamsStates
  <2>3. r \in {"none", "unseen", "up"}
    BY <1>0 DEF TeamsStates
  <2>. HIDE DEF t, r
  <2>. QED BY <1>0, <2>1, <2>2, <2>3 DEF TeamsStates
<1>. HIDE DEF msgs
<1>5. PICK r \in Results :
        /\ r.state = "found" => r.conv = c.conv
        /\ host' = [host EXCEPT !.change.stage = "served", !.change.answer = AnswerOf(o), !.change.after = r]
  <2>1. /\ Unread("failed") \in Results /\ Unread("failed").state = "failed"
        /\ Unread("signedOut") \in Results /\ Unread("signedOut").state = "signedOut"
    BY DEF Unread, Result, Results
  <2>2. /\ Result("notPosted", "", {}, TRUE, teams.chats) \in Results
        /\ Result("notPosted", "", {}, TRUE, teams.chats).state = "notPosted"
    BY <1>3 DEF Result, Results
  <2>3. Reread(c.conv, msgs) \in Results /\ Reread(c.conv, msgs).conv = c.conv
    BY <1>0, <1>2, <1>3, RereadOK
  <2>4. NoResult \in Results /\ NoResult.state = "null"
    BY IdleOK DEF NoResult, Result
  <2>. QED BY ZenonT(60), <1>1, <2>1, <2>2, <2>3, <2>4
<1>. DEFINE cc == [c EXCEPT !.stage = "served", !.answer = AnswerOf(o), !.after = r]
<1>6. AnswerOf(o) \in Answered /\ AnswerOf(o) # ""
  BY AnswerOfOK DEF Answered
<1>7. /\ cc \in [stage : Stages, what : {"edit", "delete", ""}, conv : Convs \cup {""}, id : Ids \cup {""},
                 answer : Answered \cup {""}, after : Results]
      /\ cc.stage = "served" /\ cc.conv = c.conv /\ cc.what = c.what /\ cc.id = c.id
      /\ cc.answer = AnswerOf(o) /\ cc.after = r
  <2>1. c \in [stage : Stages, what : {"edit", "delete", ""}, conv : Convs \cup {""}, id : Ids \cup {""},
               answer : Answered \cup {""}, after : Results]
    BY <1>0 DEF Hosts
  <2>. HIDE DEF c
  <2>. QED BY <1>6, <2>1 DEF Stages
<1>8. host' = [host EXCEPT !.change = cc]
  BY <1>0, <1>5 DEF Hosts
<1>. HIDE DEF cc
<1>9. /\ host' \in Hosts /\ host'.change = cc
      /\ host'.chosen = host.chosen /\ host'.lastChats = host.lastChats /\ host'.found = host.found
      /\ host'.readAgain = host.readAgain /\ host'.wait = host.wait /\ host'.read = host.read
      /\ host'.send = host.send /\ PostKept(host', host)
  BY ZenonT(60), <1>0, <1>7, <1>8 DEF Hosts, PostKept
<1>10. Answering(host')
  <2>1. ReadAnswer(host') /\ AfterAnswer(host')
    <3>1. ReadAnswer(host')
      BY <1>0, <1>9 DEF Answering, ReadAnswer
    <3>2. host.send.after.state = "found" => host.send.after.conv = host.send.conv
      BY <1>0 DEF Answering, AfterAnswer
    <3>. HIDE DEF c
    <3>. QED BY ZenonT(60), <1>5, <1>7, <1>9, <3>1, <3>2 DEF AfterAnswer
  <2>2. c.what # ""
    BY <1>0, <1>1 DEF Answering, CallsFilled, Busy
  <2>3. CallsFilled(host')
    BY <1>0, <1>2, <1>6, <1>7, <1>9, <2>2 DEF Answering, CallsFilled, PostKept
  <2>. QED BY <2>1, <2>3 DEF Answering
<1>11. Served(host', host)
  BY <1>1, <1>7, <1>9 DEF Served, Busy, PostKept
<1>. DEFINE ak == IF dropsPost THEN {a \in past.acked : a.conv # Post}
                  ELSE Forgotten(past.acked, c.conv, c.id)
<1>12. /\ past' = IF ~IsDone(o) THEN past ELSE [past EXCEPT !.acked = ak]
       /\ ak \in SUBSET [conv : Convs, id : Ids, ver : {"first", "edited", "gone"}]
  BY <1>0, <1>1 DEF Pasts, Forgotten
<1>. HIDE DEF ak
<1>13. /\ past' \in Pasts /\ past'.crossed = past.crossed
       /\ past'.posts = past.posts /\ past'.warned = past.warned
  BY <1>0, <1>12 DEF Pasts
<1>14. Owed(host', past')
  BY <1>0, <1>9, <1>13 DEF Owed, PostKept
<1>15. HostInv'
  BY <1>9, <1>10, <1>11, <1>13, <1>14, ServedKeeps DEF Inv
<1>. QED BY <1>1, <1>4, <1>15, FailsOK DEF Inv

LEMMA ElsewhereKeeps ==
  ASSUME Inv, Elsewhere
  PROVE  Inv'
<1>1. /\ page' = page /\ host' = host /\ past' = past
      /\ left' \in [Kinds -> Nat]
  BY SpendOK DEF Elsewhere, Inv, Kinds
<1>2. teams \in TeamsStates
  BY DEF Inv
<1>3. teams' \in TeamsStates
  <2>1. CASE OthersWrite
    <3>1. PICK c \in Convs :
            teams' = [teams EXCEPT !.in[c] = @ \cup {[id |-> "theirs", ver |-> "first"]}]
      BY <2>1 DEF OthersWrite
    <3>. DEFINE msgs == teams.in[c] \cup {[id |-> "theirs", ver |-> "first"]}
    <3>2. msgs \in SUBSET Messages
      BY <1>2 DEF TeamsStates, Messages, Ids
    <3>3. teams' = [teams EXCEPT !.in[c] = msgs]
      BY <1>2, <3>1 DEF TeamsStates
    <3>. HIDE DEF msgs
    <3>. QED BY <1>2, <3>2, <3>3, InTeamsOK
  <2>2. CASE ChatsChange
    <3>1. PICK c \in Chats :
            teams' = [teams EXCEPT !.chats = IF c \in @ THEN @ \ {c} ELSE @ \cup {c}]
      BY <2>2 DEF ChatsChange
    <3>. DEFINE chats == IF c \in teams.chats THEN teams.chats \ {c} ELSE teams.chats \cup {c}
    <3>2. chats \in SUBSET Chats
      BY <1>2 DEF TeamsStates
    <3>3. teams' = [teams EXCEPT !.chats = chats]
      BY <3>1
    <3>. HIDE DEF chats
    <3>. QED BY <1>2, <3>2, <3>3 DEF TeamsStates
  <2>3. CASE IndexFinds
    BY <1>2, <2>3 DEF IndexFinds, TeamsStates
  <2>. QED BY <2>1, <2>2, <2>3 DEF Elsewhere
<1>. QED BY <1>1, <1>3 DEF Inv, HostInv

LEMMA ServesKeeps ==
  ASSUME Inv, Serves
  PROVE  Inv'
BY ServeReadKeeps, ServeWaitKeeps, ServeSendKeeps, ServePostKeeps, ServeChangeKeeps DEF Serves

-----------------------------------------------------------------------------
(* The host's continuations. *)

LEMMA LandsKeeps ==
  ASSUME Inv, NEW call, NEW h, NEW p \in Pasts, Lands(call, h, p),
         HostOK(h), ~p.crossed /\ ~Crossing(h) => Right(h), Owed(h, p)
  PROVE  Inv'
<1>1. page' = page /\ teams' = teams /\ left' = left /\ Step(h, p)
  BY DEF Lands
<1>2. HostInv'
  BY <1>1, StepKeeps
<1>. QED BY <1>1, <1>2 DEF Inv

LEMMA ReadLandsKeeps ==
  ASSUME Inv, ReadLands
  PROVE  Inv'
<1>. DEFINE h == ReadLanded(host)
            shown == AppliesRead(host) /\ ~ChatGone(host, host.read.result)
            crossed == past.crossed /\ ~shown
            p == [past EXCEPT !.crossed = crossed]
<1>0. HostOK(host) /\ past \in Pasts /\ Owed(host, past) /\ (~past.crossed => Right(host))
  BY DEF Inv, HostInv
<1>1. Lands(host.read, h, p) /\ host.read.stage = "served"
  BY DEF ReadLands, Lands
<1>2. HostOK(h) /\ PostKept(h, host) /\ (Right(host) \/ shown => Right(h))
  BY <1>0, <1>1, ReadLandedOK
<1>3. crossed \in BOOLEAN /\ (~crossed => ~past.crossed \/ shown)
  BY <1>0 DEF Pasts
<1>. HIDE DEF h, shown, crossed
<1>4. /\ p \in Pasts /\ p.crossed = crossed /\ p.posts = past.posts /\ p.warned = past.warned
  BY <1>0, <1>3 DEF Pasts
<1>5. Owed(h, p)
  BY <1>0, <1>2, <1>4 DEF Owed, PostKept
<1>. HIDE DEF p
<1>. QED BY <1>0, <1>1, <1>2, <1>3, <1>4, <1>5, LandsKeeps

LEMMA WaitLandsKeeps ==
  ASSUME Inv, WaitLands
  PROVE  Inv'
<1>. DEFINE h == WaitLanded(host)
<1>0. /\ HostOK(host) /\ past \in Pasts /\ Owed(host, past)
      /\ ~past.crossed => ~Crossing(host) /\ Right(host)
  BY DEF Inv, HostInv
<1>1. Lands(host.wait, h, past) /\ host.wait.stage = "served"
  BY DEF WaitLands, Lands
<1>2. HostOK(h) /\ PostKept(h, host) /\ (Right(host) /\ ~Crossing(host) => Right(h))
  BY <1>0, <1>1, WaitLandedOK
<1>. HIDE DEF h
<1>3. Owed(h, past)
  BY <1>0, <1>2 DEF Owed, PostKept
<1>. QED BY <1>0, <1>1, <1>2, <1>3, LandsKeeps

LEMMA AckedOK ==
  ASSUME NEW p \in Pasts, NEW conv \in Convs, NEW id \in Ids, NEW ver \in {"first", "edited", "gone"}
  PROVE  /\ Forgotten(p.acked, conv, id) \cup {[conv |-> conv, id |-> id, ver |-> ver]} \in
              SUBSET [conv : Convs, id : Ids, ver : {"first", "edited", "gone"}]
         /\ p.acked \cup {[conv |-> conv, id |-> id, ver |-> ver]} \in
              SUBSET [conv : Convs, id : Ids, ver : {"first", "edited", "gone"}]
<1>1. p.acked \in SUBSET [conv : Convs, id : Ids, ver : {"first", "edited", "gone"}]
  BY DEF Pasts
<1>2. [conv |-> conv, id |-> id, ver |-> ver] \in [conv : Convs, id : Ids, ver : {"first", "edited", "gone"}]
  OBVIOUS
<1>. QED BY <1>1, <1>2 DEF Forgotten

LEMMA SendLandsKeeps ==
  ASSUME Inv, SendLands
  PROVE  Inv'
<1>. DEFINE s == host.send
            h == SendLanded(host)
            told == IF h.sendState = "uncertain" THEN past.told \cup {s.text} ELSE past.told
            acked == IF s.answer = "sent"
                     THEN Forgotten(past.acked, s.conv, s.text)
                            \cup {[conv |-> s.conv, id |-> s.text, ver |-> "first"]}
                     ELSE past.acked
            p == [past EXCEPT !.told = told, !.acked = acked]
<1>0. /\ HostOK(host) /\ past \in Pasts /\ Owed(host, past)
      /\ ~past.crossed => ~Crossing(host) /\ Right(host)
  BY DEF Inv, HostInv
<1>1. Lands(s, h, p) /\ s.stage = "served"
  BY DEF SendLands, Lands
<1>2. HostOK(h) /\ PostKept(h, host) /\ (Right(host) /\ ~Crossing(host) => Right(h))
  BY <1>0, <1>1, SendLandedOK
<1>3. s.conv \in Convs /\ s.text \in Texts /\ s.text \in Ids
  BY <1>0, <1>1 DEF HostOK, Answering, CallsFilled, Busy, Ids
<1>4. /\ told \in SUBSET Texts
      /\ acked \in SUBSET [conv : Convs, id : Ids, ver : {"first", "edited", "gone"}]
  <2>1. told \in SUBSET Texts
    BY <1>0, <1>3 DEF Pasts
  <2>2. acked \in SUBSET [conv : Convs, id : Ids, ver : {"first", "edited", "gone"}]
    <3>1. past.acked \in SUBSET [conv : Convs, id : Ids, ver : {"first", "edited", "gone"}]
      BY <1>0 DEF Pasts
    <3>. QED BY <1>0, <1>3, <3>1, AckedOK
  <2>. QED BY <2>1, <2>2
<1>. HIDE DEF h, s, told, acked
<1>5. p \in Pasts /\ p.crossed = past.crossed /\ p.posts = past.posts /\ p.warned = past.warned
  BY <1>0, <1>4 DEF Pasts
<1>6. Owed(h, p)
  BY <1>0, <1>2, <1>5 DEF Owed, PostKept
<1>. HIDE DEF p
<1>. QED BY <1>0, <1>1, <1>2, <1>5, <1>6, LandsKeeps

LEMMA PostLandsKeeps ==
  ASSUME Inv, PostLands
  PROVE  Inv'
<1>. DEFINE h == PostLanded(host)
<1>0. /\ HostOK(host) /\ past \in Pasts /\ Owed(host, past)
      /\ ~past.crossed => ~Crossing(host) /\ Right(host)
  BY DEF Inv, HostInv
<1>1. Lands(host.post, h, past) /\ host.post.stage = "served"
  BY DEF PostLands, Lands
<1>2. /\ Keeps(h, host) /\ ~Busy(h.post) /\ h.warned = host.warned
      /\ h.postedAt = (host.postedAt \/ host.post.answer = "sent")
      /\ h.postUncertain = (host.postUncertain \/ host.post.answer = "uncertain")
  BY <1>0, <1>1, PostLandedOK
<1>. HIDE DEF h
<1>3. Owed(h, past)
  BY <1>0, <1>1, <1>2 DEF Owed, Busy
<1>. QED BY <1>0, <1>1, <1>2, <1>3, LandsKeeps DEF Keeps

LEMMA ChangeLandsKeeps ==
  ASSUME Inv, ChangeLands
  PROVE  Inv'
<1>. DEFINE c == host.change
            h == ApplyChangeResult(host)
            ver == IF c.what = "edit" THEN "edited" ELSE "gone"
            acked == IF c.answer = "sent" /\ c.id # "root"
                     THEN past.acked \cup {[conv |-> c.conv, id |-> c.id, ver |-> ver]} ELSE past.acked
            p == [past EXCEPT !.acked = acked]
<1>0. /\ HostOK(host) /\ past \in Pasts /\ Owed(host, past)
      /\ ~past.crossed => ~Crossing(host) /\ Right(host)
  BY DEF Inv, HostInv
<1>1. Lands(c, h, p) /\ c.stage = "served"
  BY DEF ChangeLands, Lands
<1>2. HostOK(h) /\ PostKept(h, host) /\ (Right(host) /\ ~Crossing(host) => Right(h))
  BY <1>0, <1>1, ChangeLandedOK
<1>3. c.conv \in Convs /\ c.id \in Ids
  BY <1>0, <1>1 DEF HostOK, Answering, CallsFilled, Busy
<1>4. acked \in SUBSET [conv : Convs, id : Ids, ver : {"first", "edited", "gone"}]
  <2>1. past.acked \in SUBSET [conv : Convs, id : Ids, ver : {"first", "edited", "gone"}]
    BY <1>0 DEF Pasts
  <2>2. ver \in {"first", "edited", "gone"}
    OBVIOUS
  <2>. QED BY <1>0, <1>3, <2>1, <2>2, AckedOK
<1>. HIDE DEF h, c, acked
<1>5. p \in Pasts /\ p.crossed = past.crossed /\ p.posts = past.posts /\ p.warned = past.warned
  BY <1>0, <1>4 DEF Pasts
<1>6. Owed(h, p)
  BY <1>0, <1>2, <1>5 DEF Owed, PostKept
<1>. HIDE DEF p
<1>. QED BY <1>0, <1>1, <1>2, <1>5, <1>6, LandsKeeps

LEMMA HostLandsKeeps ==
  ASSUME Inv, HostLands
  PROVE  Inv'
BY ReadLandsKeeps, WaitLandsKeeps, SendLandsKeeps, PostLandsKeeps, ChangeLandsKeeps DEF HostLands

-----------------------------------------------------------------------------
LEMMA Inductive == Inv /\ [Next]_vars => Inv'
<1>. SUFFICES ASSUME Inv, [Next]_vars PROVE Inv'
  OBVIOUS
<1>1. CASE Next
  BY <1>1, UserKeeps, HostHearsKeeps, PageHearsKeeps, ServesKeeps, HostLandsKeeps, ElsewhereKeeps DEF Next
<1>2. CASE UNCHANGED vars
  BY <1>2 DEF vars, Inv, HostInv
<1>. QED BY <1>1, <1>2

LEMMA Invariant == Spec => []Inv
BY InitInv, Inductive, PTL DEF Spec

\* The page, the host, Teams and the messages between them keep their types: no
\* handler of the page or of the host is given a message it cannot read.
THEOREM TypeCorrect == Spec => []TypeOK
<1>1. Inv => TypeOK
  BY DEF Inv, HostInv, HostOK, TypeOK, TeamsStates, Pasts
<1>. QED BY <1>1, Invariant, PTL

\* A reply, an edit or a delete goes to the conversation the user chose: no late
\* answer of another one is shown, save a chat that is gone while its
\* replacement is read, and what a change crossing the choice brings back.
THEOREM ShownCorrect == Spec => []ShownIsChosen
<1>1. Inv => ShownIsChosen
  BY DEF Inv, HostInv, ShownIsChosen, Right, Replaced, Leaving
<1>. QED BY <1>1, Invariant, PTL

\* While an earlier post of the user's may be in Teams, a second one goes up
\* only after the warning.
THEOREM SecondPostCorrect == Spec => []SecondPostIsWarned
<1>1. Inv => SecondPostIsWarned
  BY DEF Inv, HostInv, Owed, SecondPostIsWarned
<1>. QED BY <1>1, Invariant, PTL

-----------------------------------------------------------------------------
(* What a handler adds to the host's queue. *)

LEMMA AppendAt ==
  ASSUME NEW S, NEW q \in Seq(S), NEW m \in S
  PROVE  /\ Append(q, m) \in Seq(S) /\ Len(q) \in Nat
         /\ DOMAIN q = 1 .. Len(q) /\ DOMAIN Append(q, m) = 1 .. Len(q) + 1
         /\ Len(Append(q, m)) = Len(q) + 1
         /\ \A i \in 1 .. Len(q) : Append(q, m)[i] = q[i]
         /\ Append(q, m)[Len(q) + 1] = m
OBVIOUS

LEMMA TailAt ==
  ASSUME NEW S, NEW q \in Seq(S), q # <<>>
  PROVE  /\ Tail(q) \in Seq(S) /\ Len(q) \in Nat \ {0}
         /\ DOMAIN q = 1 .. Len(q) /\ DOMAIN Tail(q) = 1 .. Len(q) - 1
         /\ \A i \in 1 .. Len(q) - 1 : Tail(q)[i] = q[i + 1]
         /\ Head(q) = q[1]
OBVIOUS

LEMMA StillSame ==
  ASSUME NEW S, NEW q \in Seq(S), NEW type
  PROVE  Still(type, q, q, 0)
<1>1. \A i \in DOMAIN q : i - 0 = i /\ i + 0 = i
  OBVIOUS
<1>. QED BY <1>1 DEF Still

LEMMA StillSaid ==
  ASSUME NEW S, NEW q \in Seq(S), NEW m \in S, NEW type, m.type # type
  PROVE  Still(type, Append(q, m), q, 0)
<1>1. /\ DOMAIN q = 1 .. Len(q) /\ DOMAIN Append(q, m) = 1 .. Len(q) + 1 /\ Len(q) \in Nat
      /\ \A i \in 1 .. Len(q) : Append(q, m)[i] = q[i]
      /\ Append(q, m)[Len(q) + 1] = m
  BY AppendAt
<1>2. ASSUME NEW i \in DOMAIN q
      PROVE  i - 0 \in DOMAIN Append(q, m) /\ Append(q, m)[i - 0] = q[i]
  BY <1>1
<1>3. ASSUME NEW i \in DOMAIN Append(q, m), Append(q, m)[i].type = type
      PROVE  i + 0 \in DOMAIN q /\ q[i + 0] = Append(q, m)[i]
  <2>1. i # Len(q) + 1
    BY <1>1, <1>3
  <2>2. i \in 1 .. Len(q) /\ i + 0 = i
    BY <1>1, <2>1
  <2>. QED BY <1>1, <2>2
<1>. QED BY <1>2, <1>3 DEF Still

LEMMA StillHeard ==
  ASSUME NEW S, NEW q \in Seq(S), q # <<>>, NEW type, Head(q).type # type
  PROVE  Still(type, Tail(q), q, 1)
<1>1. /\ Len(q) \in Nat \ {0} /\ DOMAIN q = 1 .. Len(q) /\ DOMAIN Tail(q) = 1 .. Len(q) - 1
      /\ \A i \in 1 .. Len(q) - 1 : Tail(q)[i] = q[i + 1]
      /\ Head(q) = q[1]
  BY TailAt
<1>2. ASSUME NEW i \in DOMAIN q, q[i].type = type
      PROVE  i - 1 \in DOMAIN Tail(q) /\ Tail(q)[i - 1] = q[i]
  <2>1. i # 1
    BY <1>1, <1>2
  <2>2. i - 1 \in 1 .. Len(q) - 1 /\ (i - 1) + 1 = i
    BY <1>1, <2>1
  <2>. QED BY <1>1, <2>2
<1>3. ASSUME NEW i \in DOMAIN Tail(q)
      PROVE  i + 1 \in DOMAIN q /\ q[i + 1] = Tail(q)[i]
  BY <1>1
<1>. QED BY <1>2, <1>3 DEF Still

LEMMA StillTrans ==
  ASSUME NEW S, NEW f \in Seq(S), NEW g \in Seq(S), NEW h \in Seq(S), NEW type,
         Still(type, f, g, 0), Still(type, g, h, 0)
  PROVE  Still(type, f, h, 0)
<1>1. \A i \in DOMAIN f \cup DOMAIN g \cup DOMAIN h : i - 0 = i /\ i + 0 = i
  OBVIOUS
<1>. QED BY <1>1 DEF Still

LEMMA OutOK ==
  ASSUME NEW h \in Hosts
  PROVE  h.out \in Seq(HostMessages)
BY DEF Hosts

LEMMA MuteTrans ==
  ASSUME NEW f \in Hosts, NEW g \in Hosts, NEW h \in Hosts, Mute(f, g), Mute(g, h)
  PROVE  Mute(f, h)
BY OutOK, StillTrans DEF Mute

LEMMA MuteStill ==
  ASSUME NEW g, NEW h \in Hosts, g.out = h.out, g.send = h.send, g.sendState = h.sendState
  PROVE  Mute(g, h)
BY OutOK, StillSame DEF Mute

LEMMA MuteSay ==
  ASSUME NEW h \in Hosts, NEW m \in HostMessages, m.type # "sendState"
  PROVE  Mute(Say(h, m), h)
<1>1. /\ Say(h, m).out = Append(h.out, m)
      /\ Say(h, m).send = h.send /\ Say(h, m).sendState = h.sendState
  BY DEF Say, Hosts
<1>. QED BY <1>1, OutOK, StillSaid DEF Mute

LEMMA ShowStateMute ==
  ASSUME NEW h \in Hosts, NEW kind \in Panels, NEW inline \in BOOLEAN
  PROVE  Mute(ShowState(h, kind, inline), h)
<1>. DEFINE f == [h EXCEPT !.state = kind, !.inline = inline]
            m == [type |-> "state", kind |-> kind, inline |-> inline]
<1>1. m \in HostMessages /\ m.type # "sendState"
  BY StateMessages
<1>2. f \in Hosts /\ f.out = h.out /\ f.send = h.send /\ f.sendState = h.sendState
  BY ZenonT(60) DEF Hosts
<1>3. ShowState(h, kind, inline) = Say(f, m)
  BY DEF ShowState
<1>. HIDE DEF f, m
<1>4. Say(f, m) \in Hosts /\ Mute(Say(f, m), f) /\ Mute(f, h)
  BY <1>1, <1>2, SayOK, MuteSay, MuteStill
<1>. QED BY <1>2, <1>3, <1>4, MuteTrans

LEMMA ShowPostStateMute ==
  ASSUME NEW h \in Hosts, NEW kind \in Answered \cup {"posting", "warning"}
  PROVE  Mute(ShowPostState(h, kind), h)
<1>. DEFINE f == [h EXCEPT !.postState = kind]
            m == [type |-> "postState", kind |-> kind, again |-> FALSE]
<1>1. m \in HostMessages /\ m.type # "sendState"
  BY StateMessages
<1>0. f \in Hosts
  BY DEF Hosts
<1>2. f \in Hosts /\ f.out = h.out /\ f.send = h.send /\ f.sendState = h.sendState
  BY <1>0 DEF Hosts
<1>3. ShowPostState(h, kind) = Say(f, m)
  BY DEF ShowPostState
<1>. HIDE DEF f, m
<1>4. Say(f, m) \in Hosts /\ Mute(Say(f, m), f) /\ Mute(f, h)
  BY <1>1, <1>2, SayOK, MuteSay, MuteStill
<1>. QED BY <1>2, <1>3, <1>4, MuteTrans

LEMMA PostChangeStateMute ==
  ASSUME NEW h \in Hosts, NEW type \in {"editState", "deleteState"}, NEW id \in Ids,
         NEW state \in {"saving", "saved", "deleting", "deleted", "cancelled", "failed", "uncertain"}
  PROVE  Mute(PostChangeState(h, type, id, state), h)
<1>. DEFINE m == [type |-> type, id |-> id, state |-> state]
<1>1. m \in HostMessages /\ m.type # "sendState"
  BY DEF HostMessages
<1>2. PostChangeState(h, type, id, state) = Say(h, m)
  BY DEF PostChangeState
<1>. HIDE DEF m
<1>. QED BY <1>1, <1>2, MuteSay

LEMMA PostConversationsMute ==
  ASSUME NEW h \in Hosts
  PROVE  Mute(PostConversations(h), h)
<1>. DEFINE m == [type |-> "conversations", chats |-> h.lastChats, selected |-> ReadConv(h.chosen)]
<1>1. m \in HostMessages /\ m.type # "sendState"
  BY ReadConvOK DEF Hosts, HostMessages
<1>2. PostConversations(h) = Say(h, m)
  BY DEF PostConversations
<1>. HIDE DEF m
<1>. QED BY <1>1, <1>2, MuteSay

LEMMA PostThreadMute ==
  ASSUME NEW h \in Hosts
  PROVE  Mute(PostThread(h), h)
<1>. DEFINE m == [type |-> "thread", thread |-> h.found]
<1>1. m \in HostMessages /\ m.type # "sendState"
  BY DEF Hosts, HostMessages
<1>2. PostThread(h) = Say(h, m)
  BY DEF PostThread
<1>. HIDE DEF m
<1>. QED BY <1>1, <1>2, MuteSay

LEMMA PostDraftMute ==
  ASSUME NEW h \in Hosts, NEW reload \in BOOLEAN
  PROVE  Mute(PostDraft(h, reload), h)
<1>. DEFINE m == [type |-> "draft", text |-> h.file, reload |-> reload]
<1>1. m \in HostMessages /\ m.type # "sendState"
  BY DEF Hosts, HostMessages
<1>2. PostDraft(h, reload) = IF h.notPosted THEN Say(h, m) ELSE h
  BY DEF PostDraft
<1>. HIDE DEF m
<1>. QED BY <1>1, <1>2, MuteSay, MuteStill

LEMMA ReadAsyncMute ==
  ASSUME NEW h \in Hosts, NEW quiet \in BOOLEAN
  PROVE  Mute(ReadAsync(h, quiet), h)
<1>1. CASE Busy(h.wait)
  BY <1>1, MuteStill DEF ReadAsync
<1>2. CASE ~Busy(h.wait) /\ Busy(h.read)
  <2>. DEFINE g == [h EXCEPT !.readAgain = TRUE]
  <2>1. g.out = h.out /\ g.send = h.send /\ g.sendState = h.sendState
    BY DEF Hosts
  <2>2. ReadAsync(h, quiet) = g
    BY <1>2 DEF ReadAsync
  <2>. QED BY <2>1, <2>2, MuteStill
<1>3. CASE ~Busy(h.wait) /\ ~Busy(h.read)
  <2>. DEFINE r == [IdleRead EXCEPT !.stage = "asked", !.conv = h.chosen, !.quiet = quiet]
              g == [h EXCEPT !.read = r]
  <2>1. r \in [stage : Stages, conv : Convs \cup {Unchosen}, quiet : BOOLEAN, result : Results]
    BY IdleOK DEF IdleRead, Hosts, Stages
  <2>. HIDE DEF r
  <2>2. g \in Hosts /\ g.out = h.out /\ g.send = h.send /\ g.sendState = h.sendState
    BY ZenonT(60), <2>1 DEF Hosts
  <2>. HIDE DEF g
  <2>3. ReadAsync(h, quiet) = IF quiet THEN g ELSE ShowState(g, "loading", FALSE)
    BY <1>3 DEF ReadAsync, g, r
  <2>4. Mute(g, h)
    BY <2>2, MuteStill
  <2>5. ShowState(g, "loading", FALSE) \in Hosts /\ Mute(ShowState(g, "loading", FALSE), g)
    BY <2>2, ShowStateOK, ShowStateMute DEF Panels
  <2>. QED BY <2>2, <2>3, <2>4, <2>5, MuteTrans
<1>. QED BY <1>1, <1>2, <1>3

LEMMA ChooseMute ==
  ASSUME NEW h \in Hosts, NEW c \in Convs
  PROVE  Mute(ChooseConversation(h, c), h)
<1>. DEFINE g == [h EXCEPT !.chosen = c]
<1>1. g \in Hosts /\ g.out = h.out /\ g.send = h.send /\ g.sendState = h.sendState
  BY ZenonT(60) DEF Hosts
<1>2. ChooseConversation(h, c) = IF g.lastChats = {} THEN g ELSE PostConversations(g)
  BY DEF ChooseConversation
<1>. HIDE DEF g
<1>3. /\ Mute(g, h) /\ PostConversations(g) \in Hosts /\ Mute(PostConversations(g), g)
  BY <1>1, MuteStill, PostConversationsOK, PostConversationsMute
<1>. QED BY <1>1, <1>2, <1>3, MuteTrans

LEMMA ListChatsMute ==
  ASSUME NEW h \in Hosts, NEW r \in Results
  PROVE  Mute(ListChats(h, r), h)
<1>. DEFINE g == [h EXCEPT !.lastChats = r.chats]
<1>0. r.chats \in SUBSET Chats
  BY DEF Results
<1>1. g \in Hosts /\ g.out = h.out /\ g.send = h.send /\ g.sendState = h.sendState
  BY ZenonT(60), <1>0 DEF Hosts
<1>2. ListChats(h, r) = IF ~r.listed THEN h ELSE IF r.chats = {} THEN g ELSE PostConversations(g)
  BY DEF ListChats
<1>. HIDE DEF g
<1>3. /\ Mute(g, h) /\ Mute(h, h)
      /\ PostConversations(g) \in Hosts /\ Mute(PostConversations(g), g)
  BY <1>1, MuteStill, PostConversationsOK, PostConversationsMute
<1>. QED BY <1>1, <1>2, <1>3, MuteTrans

LEMMA ShowResultMute ==
  ASSUME NEW h \in Hosts, NEW r \in Results, r.state # "null", r.state = "found" => r.conv \in Convs
  PROVE  Mute(ShowResult(h, r), h)
<1>1. CASE r.state = "found"
  <2>. DEFINE f == [h EXCEPT !.found = ThreadOf(r), !.notPosted = FALSE]
              c == ClearState(f)
  <2>1. ThreadOf(r) \in Threads
    BY <1>1 DEF ThreadOf, Threads, Results
  <2>2. f \in Hosts
    BY <2>1 DEF Hosts
  <2>3. f \in Hosts /\ f.out = h.out /\ f.send = h.send /\ f.sendState = h.sendState
    BY <2>2 DEF Hosts
  <2>4. ShowResult(h, r) = PostThread(c)
    BY <1>1 DEF ShowResult, ShowThread
  <2>. HIDE DEF f
  <2>5. c \in Hosts
    BY <2>3, ClearStateOK
  <2>6. c \in Hosts /\ c.out = f.out /\ c.send = f.send /\ c.sendState = f.sendState
    BY <2>3, <2>5 DEF ClearState, Hosts
  <2>. HIDE DEF c
  <2>7. Mute(c, h) /\ PostThread(c) \in Hosts /\ Mute(PostThread(c), c)
    BY <2>3, <2>6, MuteStill, PostThreadOK, PostThreadMute
  <2>. QED BY <2>4, <2>6, <2>7, MuteTrans
<1>2. CASE r.state # "found"
  <2>. DEFINE f == [h EXCEPT !.found = NoThread]
              n == [f EXCEPT !.notPosted = TRUE]
              c == ClearState(n)
  <2>1. f \in Hosts
    BY ZenonT(60) DEF Hosts, Threads, NoThread
  <2>2. f \in Hosts /\ f.out = h.out /\ f.send = h.send /\ f.sendState = h.sendState
    BY <2>1 DEF Hosts
  <2>3. ShowResult(h, r) =
          CASE r.state = "notPosted" -> PostDraft(c, FALSE)
            [] r.state = "failed" /\ f.notPosted -> ShowState(f, "failed", TRUE)
            [] OTHER -> ShowState(f, r.state, FALSE)
    BY <1>2 DEF ShowResult
  <2>4. n \in Hosts /\ n.out = f.out /\ n.send = f.send /\ n.sendState = f.sendState
    BY ZenonT(60), <2>2 DEF Hosts
  <2>5. n \in Hosts /\ n.out = h.out /\ n.send = h.send /\ n.sendState = h.sendState
    BY <2>2, <2>4
  <2>. HIDE DEF f, n
  <2>6. c \in Hosts
    BY <2>5, ClearStateOK
  <2>7. c \in Hosts /\ c.out = n.out /\ c.send = n.send /\ c.sendState = n.sendState
    BY <2>5, <2>6 DEF ClearState, Hosts
  <2>. HIDE DEF c
  <2>8. r.state \in {"notPosted", "signedOut", "failed"}
    BY <1>2 DEF Results
  <2>9. CASE r.state = "notPosted"
    <3>1. Mute(c, h) /\ PostDraft(c, FALSE) \in Hosts /\ Mute(PostDraft(c, FALSE), c)
      BY <2>5, <2>7, MuteStill, PostDraftOK, PostDraftMute
    <3>2. ShowResult(h, r) = PostDraft(c, FALSE)
      BY <2>3, <2>9
    <3>. QED BY <2>7, <3>1, <3>2, MuteTrans
  <2>10. CASE r.state \in {"signedOut", "failed"}
    <3>1. PICK kind \in Panels, inline \in BOOLEAN : ShowResult(h, r) = ShowState(f, kind, inline)
      BY <2>3, <2>10 DEF Panels
    <3>2. Mute(f, h) /\ ShowState(f, kind, inline) \in Hosts /\ Mute(ShowState(f, kind, inline), f)
      BY <2>2, MuteStill, ShowStateOK, ShowStateMute
    <3>. QED BY <2>2, <3>1, <3>2, MuteTrans
  <2>. QED BY <2>8, <2>9, <2>10
<1>. QED BY <1>1, <1>2

LEMMA ApplyResultMute ==
  ASSUME NEW h \in Hosts, NEW r \in Results, r.state # "null", r.state = "found" => r.conv \in Convs
  PROVE  ApplyResult(h, r) \in Hosts /\ Mute(ApplyResult(h, r), h)
<1>. DEFINE l == ListChats(h, r)
<1>1. l \in Hosts /\ Mute(l, h)
  BY ListChatsOK, ListChatsMute
<1>2. /\ Post \in Convs /\ Chats \subseteq Convs /\ r.chats \subseteq Chats
  BY DEF Convs, Results
<1>3. ASSUME NEW c \in Convs
      PROVE  LET g == ReadAsync(ChooseConversation(l, c), FALSE) IN g \in Hosts /\ Mute(g, h)
  <2>. DEFINE n == ChooseConversation(l, c)
              g == ReadAsync(n, FALSE)
  <2>1. n \in Hosts /\ Mute(n, l)
    BY <1>1, ChooseOK, ChooseMute
  <2>. HIDE DEF n
  <2>2. g \in Hosts /\ Mute(g, n)
    BY <2>1, ReadAsyncOK, ReadAsyncMute
  <2>. HIDE DEF g
  <2>3. Mute(g, h)
    BY <1>1, <2>1, <2>2, MuteTrans
  <2>. QED BY <2>2, <2>3 DEF g, n
<1>4. ASSUME NEW n \in Hosts, Mute(n, l)
      PROVE  ShowResult(n, r) \in Hosts /\ Mute(ShowResult(n, r), h)
  <2>1. ShowResult(n, r) \in Hosts /\ Mute(ShowResult(n, r), n)
    BY <1>4, ShowResultOK, ShowResultMute
  <2>. QED BY <1>1, <1>4, <2>1, MuteTrans
<1>5. ChooseConversation(l, Post) \in Hosts /\ Mute(ChooseConversation(l, Post), l)
  BY <1>1, <1>2, ChooseOK, ChooseMute
<1>6. Mute(l, l)
  BY <1>1, MuteStill
<1>7. TakesChat(h, r) => (CHOOSE c \in r.chats : TRUE) \in Convs
  BY <1>2 DEF TakesChat
<1>8. ApplyResult(h, r) =
        IF ChatGone(h, r) THEN ReadAsync(ChooseConversation(l, Post), FALSE)
        ELSE IF TakesChat(h, r) THEN ReadAsync(ChooseConversation(l, CHOOSE c \in r.chats : TRUE), FALSE)
        ELSE IF FirstChoice(h, r) /\ r.state = "found" THEN ShowResult(ChooseConversation(l, Post), r)
        ELSE ShowResult(l, r)
  BY DEF ApplyResult
<1>. HIDE DEF l
<1>. QED BY <1>1, <1>2, <1>3, <1>4, <1>5, <1>6, <1>7, <1>8

LEMMA QuietTrans ==
  ASSUME NEW f, NEW g, NEW h \in Hosts, Quiet(f, g), Quiet(g, h)
  PROVE  Quiet(f, h)
BY MuteTrans DEF Quiet

LEMMA QuietField ==
  ASSUME NEW g \in Hosts, NEW h \in Hosts, g.out = h.out, g.send = h.send, g.sendState = h.sendState
  PROVE  Quiet(g, h)
BY MuteStill DEF Quiet

LEMMA QuietSame ==
  ASSUME NEW h \in Hosts
  PROVE  Quiet(h, h)
BY QuietField

LEMMA QuietReadAsync ==
  ASSUME NEW h \in Hosts, NEW quiet \in BOOLEAN
  PROVE  Quiet(ReadAsync(h, quiet), h)
BY ReadAsyncOK, ReadAsyncMute DEF Quiet

LEMMA QuietDraft ==
  ASSUME NEW h \in Hosts, NEW reload \in BOOLEAN
  PROVE  Quiet(PostDraft(h, reload), h)
BY PostDraftOK, PostDraftMute DEF Quiet

LEMMA QuietActivate ==
  ASSUME NEW h \in Hosts, NEW stale \in BOOLEAN
  PROVE  Quiet(Activate(h, stale), h)
BY QuietReadAsync, QuietDraft DEF Activate

LEMMA QuietSelect ==
  ASSUME NEW h \in Hosts, NEW c \in Convs
  PROVE  Quiet(SelectConversation(h, c), h)
<1>. DEFINE f == [h EXCEPT !.found = NoThread, !.notPosted = FALSE]
            n == ChooseConversation(f, c)
<1>1. f \in Hosts
  BY ZenonT(60) DEF Hosts, NoThread, Threads
<1>2. f.out = h.out /\ f.send = h.send /\ f.sendState = h.sendState
  BY DEF Hosts
<1>3. SelectConversation(h, c) =
        IF c \notin {Post} \cup h.lastChats \/ c = h.chosen THEN h ELSE ReadAsync(n, FALSE)
  BY DEF SelectConversation
<1>. HIDE DEF f
<1>4. Quiet(f, h) /\ Quiet(h, h)
  BY <1>1, <1>2, QuietField
<1>5. Quiet(n, f)
  BY <1>1, ChooseOK, ChooseMute DEF Quiet
<1>. HIDE DEF n
<1>6. Quiet(ReadAsync(n, FALSE), n)
  BY <1>5, QuietReadAsync DEF Quiet
<1>7. Quiet(ReadAsync(n, FALSE), h)
  BY <1>1, <1>4, <1>5, <1>6, QuietTrans
<1>. QED BY <1>3, <1>4, <1>7

LEMMA QuietAgain ==
  ASSUME NEW h \in Hosts, NEW again \in BOOLEAN
  PROVE  Quiet([h EXCEPT !.readAgain = again], h)
<1>. DEFINE g == [h EXCEPT !.readAgain = again]
<1>1. g \in Hosts
  BY DEF Hosts
<1>2. g.out = h.out /\ g.send = h.send /\ g.sendState = h.sendState
  BY DEF Hosts
<1>. HIDE DEF g
<1>3. Quiet(g, h)
  BY <1>1, <1>2, QuietField
<1>. QED BY <1>3 DEF g

LEMMA QuietResult ==
  ASSUME NEW h \in Hosts, NEW r \in Results, r.state # "null", r.state = "found" => r.conv \in Convs
  PROVE  Quiet(ApplyResult(h, r), h)
BY ApplyResultMute DEF Quiet

LEMMA QuietAfter ==
  ASSUME NEW h \in Hosts, NEW r \in Results, r.state = "found" => r.conv \in Convs
  PROVE  Quiet(ShowAfter(h, r), h)
<1>1. CASE r.state = "null"
  BY <1>1, QuietReadAsync DEF ShowAfter
<1>2. CASE r.state # "null"
  <2>. DEFINE f == ApplyResult(h, r)
              g == [f EXCEPT !.readAgain = TRUE]
  <2>1. Quiet(f, h)
    BY <1>2, QuietResult
  <2>2. ShowAfter(h, r) = IF Busy(f.read) THEN g ELSE f
    BY <1>2 DEF ShowAfter
  <2>. HIDE DEF f
  <2>3. Quiet(g, f)
    BY <2>1, QuietAgain DEF Quiet
  <2>. HIDE DEF g
  <2>. QED BY <2>1, <2>2, <2>3, QuietTrans
<1>. QED BY <1>1, <1>2

LEMMA QuietReadLanded ==
  ASSUME NEW h, HostOK(h), h.read.stage = "served"
  PROVE  Quiet(ReadLanded(h), h)
<1>. DEFINE r == h.read.result
            done == [h EXCEPT !.read = IdleRead]
            f == IF AppliesRead(h) THEN ApplyResult(done, r) ELSE done
            e == [f EXCEPT !.readAgain = FALSE]
<1>0. h \in Hosts
  BY DEF HostOK
<1>1. done \in Hosts
  BY <1>0, IdleOK DEF Hosts
<1>2. done.out = h.out /\ done.send = h.send /\ done.sendState = h.sendState
  BY <1>0 DEF Hosts
<1>3. ReadLanded(h) = IF f.readAgain THEN ReadAsync(e, FALSE) ELSE f
  BY DEF ReadLanded
<1>4. /\ r \in Results /\ r.state # "null"
      /\ r.state = "found" => r.conv \in Convs
  <2>1. /\ r \in Results /\ r.state # "null" /\ h.read.conv \in Convs \cup {Unchosen}
        /\ r.state = "found" => r.conv = ReadConv(h.read.conv)
    BY DEF HostOK, Hosts, Answering, ReadAnswer, CallsFilled
  <2>. QED BY <2>1, ReadConvOK
<1>. HIDE DEF r, done
<1>5. Quiet(done, h) /\ Quiet(ApplyResult(done, r), done)
  BY <1>0, <1>1, <1>2, <1>4, QuietField, QuietResult
<1>6. Quiet(f, h)
  BY <1>0, <1>5, QuietTrans
<1>. HIDE DEF f
<1>7. Quiet(e, f)
  BY <1>6, QuietAgain DEF Quiet
<1>. HIDE DEF e
<1>8. Quiet(ReadAsync(e, FALSE), e)
  BY <1>7, QuietReadAsync DEF Quiet
<1>9. Quiet(e, h)
  BY <1>0, <1>6, <1>7, QuietTrans
<1>10. Quiet(ReadAsync(e, FALSE), h)
  BY <1>0, <1>8, <1>9, QuietTrans
<1>. QED BY <1>3, <1>6, <1>10

LEMMA QuietWaitLanded ==
  ASSUME NEW h, HostOK(h), h.wait.stage = "served"
  PROVE  Quiet(WaitLanded(h), h)
<1>. DEFINE r == h.wait.result
            done == [h EXCEPT !.wait = IdleWait]
<1>0. h \in Hosts /\ IdleWait \in [stage : Stages, result : Results]
  BY IdleOK DEF HostOK, IdleWait, Stages
<1>1. done \in Hosts
  BY <1>0 DEF Hosts
<1>2. done.out = h.out /\ done.send = h.send /\ done.sendState = h.sendState
  BY <1>0 DEF Hosts
<1>3. WaitLanded(h) = ApplyResult(done, r)
  BY DEF WaitLanded
<1>4. r \in Results /\ r.state # "null" /\ (r.state = "found" => r.conv \in Convs)
  BY DEF HostOK, Hosts, Answering, ReadAnswer, CallsFilled, Convs
<1>. HIDE DEF r, done
<1>5. Quiet(done, h) /\ Quiet(ApplyResult(done, r), done)
  BY <1>0, <1>1, <1>2, <1>4, QuietField, QuietResult
<1>. QED BY <1>0, <1>3, <1>5, QuietTrans

LEMMA QuietChangeState ==
  ASSUME NEW h \in Hosts, NEW type \in {"editState", "deleteState"}, NEW id \in Ids,
         NEW state \in {"saving", "saved", "deleting", "deleted", "cancelled", "failed", "uncertain"}
  PROVE  Quiet(PostChangeState(h, type, id, state), h)
BY PostChangeStateOK, PostChangeStateMute DEF Quiet

LEMMA QuietChange ==
  ASSUME NEW h, HostOK(h), NEW what \in {"edit", "delete"}, NEW id \in Ids
  PROVE  Quiet(ChangeAsync(h, what, id), h)
<1>0. /\ h \in Hosts /\ StateType(what) \in {"editState", "deleteState"}
      /\ Doing(what) \in {"saving", "deleting"}
  BY DEF HostOK, StateType, Doing
<1>1. CASE h.found = NoThread \/ Busy(h.change)
  <2>1. ChangeAsync(h, what, id) = PostChangeState(h, StateType(what), id, "failed")
    BY <1>1 DEF ChangeAsync
  <2>. QED BY <1>0, <2>1, QuietChangeState
<1>2. CASE ~(h.found = NoThread \/ Busy(h.change))
  <2>. DEFINE c == [IdleChange EXCEPT !.stage = "asked", !.what = what, !.conv = h.found.conv, !.id = id]
              f == [h EXCEPT !.change = c]
  <2>1. h.found.conv \in Convs
    BY <1>2 DEF HostOK, FoundFilled
  <2>2. c \in [stage : Stages, what : {"edit", "delete", ""}, conv : Convs \cup {""}, id : Ids \cup {""},
               answer : Answered \cup {""}, after : Results]
    BY <2>1, IdleOK DEF IdleChange, Stages
  <2>3. ChangeAsync(h, what, id) = PostChangeState(f, StateType(what), id, Doing(what))
    BY <1>2 DEF ChangeAsync
  <2>. HIDE DEF c
  <2>4. f \in Hosts
    BY ZenonT(60), <1>0, <2>2 DEF Hosts
  <2>5. f.out = h.out /\ f.send = h.send /\ f.sendState = h.sendState
    BY <1>0 DEF Hosts
  <2>. HIDE DEF f
  <2>6. Quiet(f, h) /\ Quiet(PostChangeState(f, StateType(what), id, Doing(what)), f)
    BY <1>0, <2>4, <2>5, QuietField, QuietChangeState
  <2>. QED BY <1>0, <2>3, <2>6, QuietTrans
<1>. QED BY <1>1, <1>2

LEMMA QuietAsking ==
  ASSUME NEW h \in Hosts, NEW ids \in SUBSET Ids
  PROVE  Quiet([h EXCEPT !.asking = ids], h)
<1>. DEFINE g == [h EXCEPT !.asking = ids]
<1>1. g \in Hosts
  BY DEF Hosts
<1>2. g.out = h.out /\ g.send = h.send /\ g.sendState = h.sendState
  BY DEF Hosts
<1>. HIDE DEF g
<1>3. Quiet(g, h)
  BY <1>1, <1>2, QuietField
<1>. QED BY <1>3 DEF g

LEMMA QuietConfirm ==
  ASSUME NEW h, HostOK(h), NEW id \in Ids, NEW yes \in BOOLEAN
  PROVE  Quiet(ConfirmDelete(h, id, yes), h)
<1>. DEFINE ids == h.asking \ {id}
            f == [h EXCEPT !.asking = ids]
<1>0. h \in Hosts /\ ids \in SUBSET Ids
  BY DEF HostOK, Hosts
<1>1. f \in Hosts /\ Same(f, h)
  <2>1. f \in Hosts
    BY <1>0 DEF Hosts
  <2>. QED BY <1>0, <2>1 DEF Hosts, Same
<1>2. ConfirmDelete(h, id, yes) =
        IF yes THEN ChangeAsync(f, "delete", id) ELSE PostChangeState(f, "deleteState", id, "cancelled")
  BY DEF ConfirmDelete
<1>. HIDE DEF ids
<1>3. Quiet(f, h)
  BY <1>0, QuietAsking
<1>. HIDE DEF f
<1>4. HostOK(f)
  BY <1>1, SameHandles DEF Handles
<1>5. Quiet(ChangeAsync(f, "delete", id), f) /\ Quiet(PostChangeState(f, "deleteState", id, "cancelled"), f)
  BY <1>1, <1>4, QuietChange, QuietChangeState
<1>. QED BY <1>0, <1>2, <1>3, <1>5, QuietTrans

LEMMA QuietChangeLanded ==
  ASSUME NEW h, HostOK(h), h.change.stage = "served"
  PROVE  Quiet(ApplyChangeResult(h), h)
<1>. DEFINE c == h.change
            r == c.after
            done == [h EXCEPT !.change = IdleChange]
            word == IF c.answer = "sent" THEN Done(c.what) ELSE c.answer
            g == PostChangeState(done, StateType(c.what), c.id, word)
<1>0. /\ h \in Hosts /\ c.answer \in Answered /\ c.id \in Ids /\ c.conv \in Convs
      /\ c.what \in {"edit", "delete"}
  <2>1. /\ h \in Hosts /\ c.answer # ""
        /\ c.id \in Ids /\ c.conv \in Convs /\ c.what # ""
    BY DEF HostOK, Answering, CallsFilled, Busy
  <2>. QED BY <2>1 DEF Hosts
<1>1. r \in Results /\ (r.state = "found" => r.conv \in Convs)
  <2>1. r \in Results
    BY <1>0 DEF Hosts
  <2>2. r.state = "found" => r.conv = c.conv
    BY DEF HostOK, Answering, AfterAnswer
  <2>. QED BY <1>0, <2>1, <2>2
<1>2. IdleChange \in [stage : Stages, what : {"edit", "delete", ""}, conv : Convs \cup {""},
                      id : Ids \cup {""}, answer : Answered \cup {""}, after : Results]
  BY IdleOK DEF IdleChange, Stages
<1>3. done \in Hosts
  BY ZenonT(60), <1>0, <1>2 DEF Hosts
<1>4. done.out = h.out /\ done.send = h.send /\ done.sendState = h.sendState
  BY <1>0 DEF Hosts
<1>5. /\ StateType(c.what) \in {"editState", "deleteState"}
      /\ word \in {"saved", "deleted", "failed", "uncertain"}
  BY <1>0 DEF StateType, Done, Answered
<1>6. ApplyChangeResult(h) =
        CASE c.answer = "uncertain" -> ReadAsync(g, FALSE)
          [] c.answer = "sent" -> ShowAfter(g, r)
          [] OTHER -> g
  BY DEF ApplyChangeResult
<1>. HIDE DEF r, c, word, done
<1>7. Quiet(done, h) /\ Quiet(g, done)
  BY <1>0, <1>3, <1>4, <1>5, QuietField, QuietChangeState
<1>. HIDE DEF g
<1>8. Quiet(g, h) /\ g \in Hosts
  BY <1>0, <1>7, QuietTrans DEF Quiet
<1>9. Quiet(ReadAsync(g, FALSE), g) /\ Quiet(ShowAfter(g, r), g)
  BY <1>1, <1>8, QuietReadAsync, QuietAfter
<1>10. Quiet(ReadAsync(g, FALSE), h) /\ Quiet(ShowAfter(g, r), h)
  BY <1>0, <1>8, <1>9, QuietTrans
<1>. QED BY <1>6, <1>8, <1>10

LEMMA QuietPostState ==
  ASSUME NEW h \in Hosts, NEW kind \in Answered \cup {"posting", "warning"}
  PROVE  Quiet(ShowPostState(h, kind), h)
BY ShowPostStateOK, ShowPostStateMute DEF Quiet

LEMMA QuietPost ==
  ASSUME NEW h \in Hosts, NEW text \in Posts
  PROVE  Quiet(PostToTeamsAsync(h, text), h)
<1>. DEFINE p == [IdlePost EXCEPT !.stage = "asked", !.text = text]
            f == [h EXCEPT !.warned = text]
            g == [h EXCEPT !.warned = "", !.postUncertain = FALSE, !.post = p]
<1>0. p \in [stage : Stages, text : Posts \cup {""}, answer : Answered \cup {""}]
  BY DEF IdlePost, Stages
<1>1. PostToTeamsAsync(h, text) =
        IF Busy(h.post) THEN h
        ELSE IF ~h.notPosted THEN ShowPostState(h, "failed")
        ELSE IF MustWarn(h, text) THEN ShowPostState(f, "warning")
        ELSE ShowPostState(g, "posting")
  BY DEF PostToTeamsAsync
<1>. HIDE DEF p
<1>2. f \in Hosts
  BY DEF Hosts
<1>3. g \in Hosts
  BY ZenonT(60), <1>0 DEF Hosts
<1>4. /\ f.out = h.out /\ f.send = h.send /\ f.sendState = h.sendState
      /\ g.out = h.out /\ g.send = h.send /\ g.sendState = h.sendState
  BY DEF Hosts
<1>. HIDE DEF f, g
<1>5. Quiet(f, h) /\ Quiet(g, h) /\ Quiet(h, h)
  BY <1>2, <1>3, <1>4, QuietField
<1>6. /\ Quiet(ShowPostState(h, "failed"), h) /\ Quiet(ShowPostState(f, "warning"), f)
      /\ Quiet(ShowPostState(g, "posting"), g)
  BY <1>2, <1>3, QuietPostState DEF Answered
<1>7. Quiet(ShowPostState(f, "warning"), h) /\ Quiet(ShowPostState(g, "posting"), h)
  BY <1>5, <1>6, QuietTrans
<1>. QED BY <1>1, <1>5, <1>6, <1>7

LEMMA QuietWait ==
  ASSUME NEW h \in Hosts
  PROVE  Quiet(WaitForPostAsync(h), h)
<1>. DEFINE w == [IdleWait EXCEPT !.stage = "asked"]
            f == [h EXCEPT !.wait = w]
<1>0. w \in [stage : Stages, result : Results]
  BY IdleOK DEF IdleWait, Stages
<1>1. WaitForPostAsync(h) = IF Busy(h.wait) THEN h ELSE ShowState(f, "waitingPost", FALSE)
  BY DEF WaitForPostAsync
<1>. HIDE DEF w
<1>2. f \in Hosts
  BY <1>0 DEF Hosts
<1>3. f.out = h.out /\ f.send = h.send /\ f.sendState = h.sendState
  BY DEF Hosts
<1>. HIDE DEF f
<1>4. Quiet(f, h) /\ Quiet(h, h)
  BY <1>2, <1>3, QuietField
<1>5. Quiet(ShowState(f, "waitingPost", FALSE), f)
  BY <1>2, ShowStateOK, ShowStateMute DEF Quiet, Panels
<1>. QED BY <1>1, <1>4, <1>5, QuietTrans

LEMMA QuietPostLanded ==
  ASSUME NEW h, HostOK(h), h.post.stage = "served"
  PROVE  Quiet(PostLanded(h), h)
<1>. DEFINE a == h.post.answer
            done == [h EXCEPT !.post = IdlePost]
            f == ShowPostState(done, a)
            u == [f EXCEPT !.postUncertain = TRUE]
            p == [f EXCEPT !.postedAt = TRUE]
<1>0. h \in Hosts /\ a \in Answered
  <2>1. h \in Hosts /\ a # ""
    BY DEF HostOK, Answering, CallsFilled
  <2>. QED BY <2>1 DEF Hosts
<1>1. IdlePost \in [stage : Stages, text : Posts \cup {""}, answer : Answered \cup {""}]
  BY DEF IdlePost, Stages
<1>2. done \in Hosts
  BY <1>0, <1>1 DEF Hosts
<1>3. done.out = h.out /\ done.send = h.send /\ done.sendState = h.sendState
  BY <1>0 DEF Hosts
<1>4. PostLanded(h) =
        CASE a = "uncertain" -> ReadAsync(u, FALSE)
          [] a = "sent" -> WaitForPostAsync(p)
          [] OTHER -> f
  BY DEF PostLanded
<1>. HIDE DEF a, done
<1>5. Quiet(done, h) /\ Quiet(f, done)
  BY <1>0, <1>2, <1>3, QuietField, QuietPostState
<1>. HIDE DEF f
<1>6. Quiet(f, h) /\ f \in Hosts
  BY <1>0, <1>5, QuietTrans DEF Quiet
<1>7. u \in Hosts
  BY <1>6 DEF Hosts
<1>8. p \in Hosts
  BY <1>6 DEF Hosts
<1>9. /\ u.out = f.out /\ u.send = f.send /\ u.sendState = f.sendState
      /\ p.out = f.out /\ p.send = f.send /\ p.sendState = f.sendState
  BY <1>6 DEF Hosts
<1>. HIDE DEF u, p
<1>10. /\ Quiet(u, f) /\ Quiet(p, f)
       /\ Quiet(ReadAsync(u, FALSE), u) /\ Quiet(WaitForPostAsync(p), p)
  BY <1>6, <1>7, <1>8, <1>9, QuietField, QuietReadAsync, QuietWait
<1>11. Quiet(ReadAsync(u, FALSE), f) /\ Quiet(WaitForPostAsync(p), f)
  BY <1>6, <1>10, QuietTrans
<1>12. Quiet(ReadAsync(u, FALSE), h) /\ Quiet(WaitForPostAsync(p), h)
  BY <1>0, <1>6, <1>11, QuietTrans
<1>. QED BY <1>4, <1>6, <1>12

-----------------------------------------------------------------------------
(* Steps that have nothing to do with the reply. *)

LEMMA Places ==
  ASSUME NEW S, NEW q \in Seq(S), NEW k \in {0, 1}
  PROVE  \A i \in DOMAIN q : i \in Int /\ (i - k) + k = i /\ (i + k) - k = i
OBVIOUS

LEMMA SendsStill ==
  ASSUME NEW q \in Seq(PageMessages), NEW r \in Seq(PageMessages), NEW k \in {0, 1},
         Still("send", r, q, k)
  PROVE  /\ NoSend(q) => NoSend(r)
         /\ \A i \in DOMAIN q : OneSend(q, i) => OneSend(r, i - k) /\ r[i - k] = q[i]
         /\ \A i \in DOMAIN r : r[i].type = "send" =>
              \E j \in DOMAIN q : q[j].type = "send" /\ q[j].text = r[i].text
<1>1. /\ \A i \in DOMAIN q : i \in Int /\ (i - k) + k = i
      /\ \A i \in DOMAIN r : i \in Int /\ (i + k) - k = i
  BY Places
<1>2. NoSend(q) => NoSend(r)
  BY DEF Still, NoSend
<1>3. ASSUME NEW i \in DOMAIN q, OneSend(q, i)
      PROVE  OneSend(r, i - k) /\ r[i - k] = q[i]
  <2>1. i - k \in DOMAIN r /\ r[i - k] = q[i] /\ q[i].type = "send"
    BY <1>3 DEF OneSend, Still
  <2>2. ASSUME NEW j \in DOMAIN r, r[j].type = "send" PROVE j = i - k
    <3>1. j + k \in DOMAIN q /\ q[j + k] = r[j]
      BY <2>2 DEF Still
    <3>2. j + k = i
      BY <1>3, <2>2, <3>1 DEF OneSend
    <3>. QED BY <1>1, <3>2
  <2>. QED BY <2>1, <2>2 DEF OneSend
<1>4. ASSUME NEW i \in DOMAIN r, r[i].type = "send"
      PROVE  \E j \in DOMAIN q : q[j].type = "send" /\ q[j].text = r[i].text
  BY <1>4 DEF Still
<1>. QED BY <1>2, <1>3, <1>4

LEMMA AnswersStill ==
  ASSUME NEW q \in Seq(HostMessages), NEW r \in Seq(HostMessages), NEW k \in {0, 1},
         Still("sendState", r, q, k)
  PROVE  /\ NoAnswer(q) => NoAnswer(r)
         /\ Calm(q) => Calm(r)
         /\ \A i \in DOMAIN q : OneAnswer(q, i) => OneAnswer(r, i - k) /\ r[i - k] = q[i]
<1>1. /\ \A i \in DOMAIN q : i \in Int /\ (i - k) + k = i
      /\ \A i \in DOMAIN r : i \in Int /\ (i + k) - k = i
  BY Places
<1>2. (NoAnswer(q) => NoAnswer(r)) /\ (Calm(q) => Calm(r))
  BY <1>1 DEF Still, NoAnswer, Calm, IsAnswer, IsSending
<1>3. ASSUME NEW i \in DOMAIN q, OneAnswer(q, i)
      PROVE  OneAnswer(r, i - k) /\ r[i - k] = q[i]
  <2>1. q[i].type = "sendState" /\ IsAnswer(q[i])
    BY <1>3 DEF OneAnswer, IsAnswer
  <2>2. i - k \in DOMAIN r /\ r[i - k] = q[i]
    BY <1>3, <2>1 DEF Still
  <2>3. ASSUME NEW j \in DOMAIN r, r[j].type = "sendState"
        PROVE  /\ IsAnswer(r[j]) => j = i - k
               /\ j > i - k => ~IsSending(r[j])
    <3>1. j + k \in DOMAIN q /\ q[j + k] = r[j]
      BY <2>3 DEF Still
    <3>2. (IsAnswer(r[j]) => j + k = i) /\ (j + k > i => ~IsSending(r[j]))
      BY <1>3, <3>1 DEF OneAnswer
    <3>3. i \in Int /\ j \in Int /\ k \in Int
      BY <1>1
    <3>. QED BY <3>2, <3>3
  <2>4. ASSUME NEW j \in DOMAIN r
        PROVE  /\ IsAnswer(r[j]) => j = i - k
               /\ j > i - k => ~IsSending(r[j])
    BY <2>3 DEF IsAnswer, IsSending
  <2>. QED BY <2>1, <2>2, <2>4 DEF OneAnswer
<1>. QED BY <1>2, <1>3

LEMMA StillReply ==
  ASSUME NEW p \in Pages, NEW q \in Pages, NEW h \in Hosts, NEW g \in Hosts, NEW x, NEW y,
         PageStill(q, p), HostStill(g, h), PastStill(y, x), ReplyInv(p, h, x)
  PROVE  ReplyInv(q, g, y)
<1>0. /\ p.out \in Seq(PageMessages) /\ q.out \in Seq(PageMessages)
      /\ h.out \in Seq(HostMessages) /\ g.out \in Seq(HostMessages)
  BY OutOK DEF Pages
<1>1. PICK k \in {0, 1} : Still("send", q.out, p.out, k)
  BY DEF PageStill
<1>2. PICK l \in {0, 1} : Still("sendState", g.out, h.out, l)
  BY DEF HostStill
<1>3. /\ NoSend(p.out) => NoSend(q.out)
      /\ \A i \in DOMAIN p.out : OneSend(p.out, i) => OneSend(q.out, i - k) /\ q.out[i - k] = p.out[i]
      /\ \A i \in DOMAIN q.out : q.out[i].type = "send" =>
           \E j \in DOMAIN p.out : p.out[j].type = "send" /\ p.out[j].text = q.out[i].text
  BY <1>0, <1>1, SendsStill
<1>4. /\ NoAnswer(h.out) => NoAnswer(g.out)
      /\ Calm(h.out) => Calm(g.out)
      /\ \A i \in DOMAIN h.out : OneAnswer(h.out, i) => OneAnswer(g.out, i - l) /\ g.out[i - l] = h.out[i]
  BY <1>0, <1>2, AnswersStill
<1>5. /\ q.reply = p.reply /\ q.replySending = p.replySending
      /\ g.send = h.send /\ g.sendState = h.sendState
      /\ y.written = x.written /\ y.letGo = x.letGo /\ y.copies = x.copies
      /\ y.told = x.told /\ y.misled = x.misled
  BY DEF PageStill, HostStill, PastStill
<1>6. Covered(q, y) = Covered(p, x) /\ InTeams(y) = InTeams(x) /\ \A t : Mine(q, y, t) <=> Mine(p, x, t)
  BY <1>5 DEF Covered, InTeams, Mine
<1>7. Accounted(q, g, y)
  BY <1>3, <1>5, <1>6 DEF ReplyInv, Accounted
<1>8. SendKnown(g)
  BY <1>5 DEF ReplyInv, SendKnown
<1>9. ASSUME ~y.misled PROVE InOrder(q, g, y)
  <2>0. InOrder(p, h, x)
    BY <1>5, <1>9 DEF ReplyInv
  <2>1. Unsent(p, h) => Unsent(q, g)
    BY <1>3, <1>4, <1>5 DEF Unsent
  <2>2. ASSUME Requested(p, h, x) PROVE Requested(q, g, y)
    <3>1. PICK i \in DOMAIN p.out : OneSend(p.out, i) /\ Mine(p, x, p.out[i].text)
      BY <2>2 DEF Requested
    <3>2. OneSend(q.out, i - k) /\ q.out[i - k] = p.out[i] /\ i - k \in DOMAIN q.out
      BY <1>3, <3>1 DEF OneSend
    <3>. QED BY <1>4, <1>5, <1>6, <2>2, <3>1, <3>2 DEF Requested
  <2>3. Underway(p, h, x) => Underway(q, g, y)
    BY <1>3, <1>4, <1>5, <1>6 DEF Underway
  <2>4. ASSUME Replied(p, h, x) PROVE Replied(q, g, y)
    <3>1. PICK i \in DOMAIN h.out :
            OneAnswer(h.out, i) /\ (h.out[i].kind = "sent" => p.reply \in InTeams(x) \cup x.letGo)
      BY <2>4 DEF Replied
    <3>2. OneAnswer(g.out, i - l) /\ g.out[i - l] = h.out[i] /\ i - l \in DOMAIN g.out
      BY <1>4, <3>1 DEF OneAnswer
    <3>. QED BY <1>3, <1>5, <1>6, <2>4, <3>1, <3>2 DEF Replied
  <2>5. OnlyOnce(q, g, y)
    <3>. SUFFICES ASSUME NEW t \in Texts, y.copies[t] > 0, t \notin y.told
         PROVE /\ y.copies[t] = 1
               /\ \A i \in DOMAIN q.out : q.out[i].type = "send" => q.out[i].text # t
               /\ g.send.text = t => g.send.stage = "served" /\ g.send.answer \in {"sent", "uncertain"}
               /\ q.reply = t =>
                    /\ q.replySending
                    /\ g.send.text = t \/ \E i \in DOMAIN g.out : OneAnswer(g.out, i) /\ g.out[i].kind = "sent"
      BY DEF OnlyOnce
    <3>1. /\ x.copies[t] = 1
          /\ \A i \in DOMAIN p.out : p.out[i].type = "send" => p.out[i].text # t
          /\ h.send.text = t => h.send.stage = "served" /\ h.send.answer \in {"sent", "uncertain"}
          /\ p.reply = t =>
               /\ p.replySending
               /\ h.send.text = t \/ \E i \in DOMAIN h.out : OneAnswer(h.out, i) /\ h.out[i].kind = "sent"
      BY <1>5, <2>0 DEF InOrder, OnlyOnce
    <3>2. ASSUME NEW i \in DOMAIN h.out, OneAnswer(h.out, i), h.out[i].kind = "sent"
          PROVE  \E j \in DOMAIN g.out : OneAnswer(g.out, j) /\ g.out[j].kind = "sent"
      <4>1. OneAnswer(g.out, i - l) /\ g.out[i - l].kind = "sent" /\ i - l \in DOMAIN g.out
        BY <1>4, <3>2 DEF OneAnswer
      <4>. QED BY <4>1
    <3>. QED BY <1>3, <1>5, <3>1, <3>2
  <2>. QED BY <2>0, <2>1, <2>2, <2>3, <2>4, <2>5 DEF InOrder
<1>. QED BY <1>7, <1>8, <1>9 DEF ReplyInv

-----------------------------------------------------------------------------
(* What one message more or less does to the queues. *)

LEMMA SaidAt ==
  ASSUME NEW S, NEW q \in Seq(S), NEW m \in S
  PROVE  /\ Append(q, m) \in Seq(S) /\ Len(q) \in Nat
         /\ Len(q) + 1 \in DOMAIN Append(q, m) /\ Append(q, m)[Len(q) + 1] = m
         /\ \A i \in DOMAIN q : i \in Nat /\ i < Len(q) + 1 /\ i \in DOMAIN Append(q, m) /\ Append(q, m)[i] = q[i]
         /\ \A i \in DOMAIN Append(q, m) : i \in Nat /\ i <= Len(q) + 1 /\ (i # Len(q) + 1 => i \in DOMAIN q)
<1>1. /\ DOMAIN q = 1 .. Len(q) /\ DOMAIN Append(q, m) = 1 .. Len(q) + 1 /\ Len(q) \in Nat
      /\ \A i \in 1 .. Len(q) : Append(q, m)[i] = q[i]
      /\ Append(q, m)[Len(q) + 1] = m /\ Append(q, m) \in Seq(S)
  BY AppendAt
<1>. QED BY <1>1

LEMMA HeardAt ==
  ASSUME NEW S, NEW q \in Seq(S), q # <<>>
  PROVE  /\ Tail(q) \in Seq(S) /\ 1 \in DOMAIN q /\ Head(q) = q[1]
         /\ \A i \in DOMAIN q : i \in Nat /\ (i = 1 \/ (i - 1 \in DOMAIN Tail(q) /\ Tail(q)[i - 1] = q[i]))
         /\ \A i \in DOMAIN Tail(q) : i \in Nat /\ i + 1 \in DOMAIN q /\ i + 1 # 1 /\ Tail(q)[i] = q[i + 1]
<1>1. /\ Len(q) \in Nat \ {0} /\ DOMAIN q = 1 .. Len(q) /\ DOMAIN Tail(q) = 1 .. Len(q) - 1
      /\ \A i \in 1 .. Len(q) - 1 : Tail(q)[i] = q[i + 1]
      /\ Head(q) = q[1] /\ Tail(q) \in Seq(S)
  BY TailAt
<1>2. ASSUME NEW i \in DOMAIN q, i # 1
      PROVE  i - 1 \in DOMAIN Tail(q) /\ Tail(q)[i - 1] = q[i]
  <2>1. i - 1 \in 1 .. Len(q) - 1 /\ (i - 1) + 1 = i
    BY <1>1, <1>2
  <2>. QED BY <1>1, <2>1
<1>3. ASSUME NEW i \in DOMAIN Tail(q)
      PROVE  i \in Nat /\ i + 1 \in DOMAIN q /\ i + 1 # 1 /\ Tail(q)[i] = q[i + 1]
  BY <1>1
<1>4. \A i \in DOMAIN q : i \in Nat
  BY <1>1
<1>5. 1 \in DOMAIN q
  BY <1>1
<1>. QED BY <1>1, <1>2, <1>3, <1>4, <1>5

LEMMA SendSaid ==
  ASSUME NEW q \in Seq(PageMessages), NEW m \in PageMessages, m.type = "send"
  PROVE  /\ NoSend(q) => OneSend(Append(q, m), Len(q) + 1)
         /\ Append(q, m)[Len(q) + 1] = m /\ Len(q) + 1 \in DOMAIN Append(q, m)
         /\ \A i \in DOMAIN Append(q, m) : Append(q, m)[i] = m \/ (i \in DOMAIN q /\ Append(q, m)[i] = q[i])
BY SaidAt DEF NoSend, OneSend

LEMMA SendHeard ==
  ASSUME NEW q \in Seq(PageMessages), q # <<>>, Head(q).type = "send"
  PROVE  /\ ~NoSend(q)
         /\ \A i \in DOMAIN q : OneSend(q, i) => NoSend(Tail(q)) /\ q[i] = Head(q)
         /\ \A i \in DOMAIN Tail(q) : \E j \in DOMAIN q : Tail(q)[i] = q[j]
         /\ \E j \in DOMAIN q : Head(q) = q[j]
<1>1. /\ 1 \in DOMAIN q /\ Head(q) = q[1]
      /\ \A i \in DOMAIN Tail(q) : i \in Nat /\ i + 1 \in DOMAIN q /\ i + 1 # 1 /\ Tail(q)[i] = q[i + 1]
  BY HeardAt
<1>2. ASSUME NEW i \in DOMAIN q, OneSend(q, i) PROVE NoSend(Tail(q)) /\ q[i] = Head(q)
  <2>1. i = 1
    BY <1>1, <1>2 DEF OneSend
  <2>2. ASSUME NEW j \in DOMAIN Tail(q), Tail(q)[j].type = "send" PROVE FALSE
    <3>1. j + 1 \in DOMAIN q /\ q[j + 1].type = "send" /\ j + 1 # 1
      BY <1>1, <2>2
    <3>. QED BY <1>2, <2>1, <3>1 DEF OneSend
  <2>. QED BY <1>1, <2>1, <2>2 DEF NoSend
<1>. QED BY <1>1, <1>2 DEF NoSend

LEMMA AnswerSaid ==
  ASSUME NEW q \in Seq(HostMessages), NEW m \in HostMessages
  PROVE  /\ NoAnswer(q) /\ ~IsAnswer(m) => NoAnswer(Append(q, m))
         /\ NoAnswer(q) /\ IsAnswer(m) => OneAnswer(Append(q, m), Len(q) + 1)
         /\ Calm(q) /\ ~IsAnswer(m) /\ ~IsSending(m) => Calm(Append(q, m))
         /\ Append(q, m)[Len(q) + 1] = m /\ Len(q) + 1 \in DOMAIN Append(q, m)
         /\ \A i \in DOMAIN q : OneAnswer(q, i) /\ ~IsAnswer(m) /\ ~IsSending(m) =>
              OneAnswer(Append(q, m), i) /\ Append(q, m)[i] = q[i] /\ i \in DOMAIN Append(q, m)
<1>. DEFINE r == Append(q, m)
            n == Len(q) + 1
<1>1. /\ r \in Seq(HostMessages) /\ Len(q) \in Nat
      /\ n \in DOMAIN r /\ r[n] = m
      /\ \A i \in DOMAIN q : i \in Nat /\ i < n /\ i \in DOMAIN r /\ r[i] = q[i]
      /\ \A i \in DOMAIN r : i \in Nat /\ i <= n /\ (i # n => i \in DOMAIN q)
  BY SaidAt
<1>. HIDE DEF r, n
<1>2. \A j \in DOMAIN r : r[j] = m \/ (j \in DOMAIN q /\ r[j] = q[j])
  BY <1>1
<1>3. NoAnswer(q) /\ ~IsAnswer(m) => NoAnswer(r)
  BY <1>2 DEF NoAnswer
<1>4. Calm(q) /\ ~IsAnswer(m) /\ ~IsSending(m) => Calm(r)
  BY <1>2 DEF Calm
<1>5. ASSUME NoAnswer(q), IsAnswer(m) PROVE OneAnswer(r, n)
  <2>1. \A j \in DOMAIN r : (IsAnswer(r[j]) => j = n) /\ ~(j > n)
    BY <1>1, <1>5 DEF NoAnswer, n
  <2>. QED BY <1>1, <1>5, <2>1 DEF OneAnswer
<1>6. ASSUME NEW i \in DOMAIN q, OneAnswer(q, i), ~IsAnswer(m), ~IsSending(m)
      PROVE  OneAnswer(r, i) /\ r[i] = q[i] /\ i \in DOMAIN r
  <2>1. i \in DOMAIN r /\ r[i] = q[i]
    BY <1>1
  <2>2. ASSUME NEW j \in DOMAIN r PROVE (IsAnswer(r[j]) => j = i) /\ (j > i => ~IsSending(r[j]))
    BY <1>2, <1>6 DEF OneAnswer
  <2>. QED BY <1>6, <2>1, <2>2 DEF OneAnswer
<1>. QED BY <1>1, <1>3, <1>4, <1>5, <1>6 DEF r, n

LEMMA AnswerHeard ==
  ASSUME NEW q \in Seq(HostMessages), q # <<>>
  PROVE  /\ NoAnswer(q) => NoAnswer(Tail(q)) /\ ~IsAnswer(Head(q))
         /\ Calm(q) => Calm(Tail(q)) /\ ~IsAnswer(Head(q)) /\ ~IsSending(Head(q))
         /\ \A i \in DOMAIN q : OneAnswer(q, i) =>
              /\ IsAnswer(Head(q)) => q[i] = Head(q) /\ Calm(Tail(q))
              /\ ~IsAnswer(Head(q)) => OneAnswer(Tail(q), i - 1) /\ Tail(q)[i - 1] = q[i]
<1>. DEFINE r == Tail(q)
<1>1. /\ r \in Seq(HostMessages) /\ 1 \in DOMAIN q /\ Head(q) = q[1]
      /\ \A i \in DOMAIN q : i \in Nat /\ (i = 1 \/ (i - 1 \in DOMAIN r /\ r[i - 1] = q[i]))
      /\ \A i \in DOMAIN r : i \in Nat /\ i + 1 \in DOMAIN q /\ i + 1 # 1 /\ r[i] = q[i + 1]
  BY HeardAt
<1>. HIDE DEF r
<1>2. NoAnswer(q) => NoAnswer(r) /\ ~IsAnswer(Head(q))
  BY <1>1 DEF NoAnswer
<1>3. Calm(q) => Calm(r) /\ ~IsAnswer(Head(q)) /\ ~IsSending(Head(q))
  BY <1>1 DEF Calm
<1>4. ASSUME NEW i \in DOMAIN q, OneAnswer(q, i), IsAnswer(Head(q))
      PROVE  q[i] = Head(q) /\ Calm(r)
  <2>1. i = 1
    BY <1>1, <1>4 DEF OneAnswer
  <2>2. ASSUME NEW j \in DOMAIN r PROVE ~IsAnswer(r[j]) /\ ~IsSending(r[j])
    <3>1. j + 1 \in DOMAIN q /\ j + 1 # 1 /\ j + 1 > 1 /\ r[j] = q[j + 1]
      BY SMTT(40), <1>1, <2>2
    <3>. QED BY <1>4, <2>1, <3>1 DEF OneAnswer
  <2>. QED BY <1>1, <2>1, <2>2 DEF Calm
<1>5. ASSUME NEW i \in DOMAIN q, OneAnswer(q, i), ~IsAnswer(Head(q))
      PROVE  OneAnswer(r, i - 1) /\ r[i - 1] = q[i]
  <2>1. IsAnswer(q[i]) /\ i # 1
    BY <1>1, <1>5 DEF OneAnswer
  <2>2. i - 1 \in DOMAIN r /\ r[i - 1] = q[i] /\ i \in Nat
    BY <1>1, <2>1
  <2>3. ASSUME NEW j \in DOMAIN r
        PROVE  (IsAnswer(r[j]) => j = i - 1) /\ (j > i - 1 => ~IsSending(r[j]))
    <3>1. j + 1 \in DOMAIN q /\ r[j] = q[j + 1] /\ j \in Nat
      BY <1>1, <2>3
    <3>2. (IsAnswer(q[j + 1]) => j + 1 = i) /\ (j + 1 > i => ~IsSending(q[j + 1]))
      BY <1>5, <3>1 DEF OneAnswer
    <3>. QED BY <2>2, <3>1, <3>2
  <2>. QED BY <2>1, <2>2, <2>3 DEF OneAnswer
<1>. QED BY <1>2, <1>3, <1>4, <1>5 DEF r

-----------------------------------------------------------------------------
(* The steps that have to do with the reply. *)

LEMMA Words ==
  /\ "" \notin Texts
  /\ \A t \in Texts : Word(t) = {t}
  /\ Word("") = {}
BY KindsOfText DEF Word

LEMMA WritesReply ==
  ASSUME Inv, ReplyInv(page, host, past), NEW t \in Texts, WriteReply(t) \/ PutWhileSending(t)
  PROVE  ReplyInv(page', host', past')
<1>. DEFINE w == past.written \cup {t}
            l == IF page.replySending THEN past.letGo \cup Word(page.reply) \cup {t}
                 ELSE past.letGo \cup Word(page.reply)
<1>0. page \in Pages /\ past \in Pasts /\ "" \notin Texts
  BY Words DEF Inv, HostInv
<1>1. OnPage(PutReply(page, t)) /\ t \notin past.written
  BY DEF WriteReply, PutWhileSending
<1>2. past' = [past EXCEPT !.written = w, !.letGo = l]
  BY DEF WriteReply, PutWhileSending, CanWrite
<1>3. /\ page'.reply = t /\ page'.replySending = page.replySending /\ page'.out = page.out
      /\ host' = host
  BY <1>0, <1>1 DEF OnPage, PutReply, Pages
<1>4. /\ past'.written = w /\ past'.letGo = l /\ past'.copies = past.copies
      /\ past'.told = past.told /\ past'.misled = past.misled
  BY <1>0, <1>2 DEF Pasts
<1>5. /\ Covered(page', past') = {t} \cup InTeams(past) \cup l
      /\ Covered(page, past) = Word(page.reply) \cup InTeams(past) \cup past.letGo
      /\ InTeams(past') = InTeams(past)
  BY <1>0, <1>3, <1>4, Words DEF Covered, InTeams
<1>6. Accounted(page', host', past')
  <2>1. Covered(page, past) \subseteq past.written
    BY DEF ReplyInv, Accounted
  <2>2. Covered(page, past) \subseteq Covered(page', past')
    BY <1>5
  <2>3. Covered(page', past') \subseteq past'.written
    BY <1>4, <1>5, <2>1
  <2>. QED BY <1>3, <2>2, <2>3 DEF ReplyInv, Accounted
<1>7. SendKnown(host')
  BY <1>3 DEF ReplyInv
<1>8. t \notin InTeams(past)
  BY <1>1, <1>5 DEF ReplyInv, Accounted
<1>9. ASSUME ~past'.misled PROVE InOrder(page', host', past')
  <2>0. InOrder(page, host, past)
    BY <1>4, <1>9 DEF ReplyInv
  <2>1. OnlyOnce(page', host', past')
    BY <1>3, <1>4, <1>8, <2>0 DEF InOrder, OnlyOnce, InTeams
  <2>2. CASE ~page.replySending
    <3>1. Unsent(page, host)
      BY <2>0, <2>2 DEF InOrder, Requested, Underway, Replied
    <3>2. Unsent(page', host')
      BY <1>3, <3>1 DEF Unsent
    <3>. QED BY <2>1, <3>2 DEF InOrder
  <2>3. CASE page.replySending
    <3>0. page'.reply \in past'.letGo
      BY <1>3, <1>4, <2>3
    <3>1. \A s : Mine(page', past', s)
      BY <3>0 DEF Mine
    <3>2. Requested(page, host, past) => Requested(page', host', past')
      BY <1>3, <3>1 DEF Requested
    <3>3. Underway(page, host, past) => Underway(page', host', past')
      BY <1>3, <1>5, <3>1 DEF Underway
    <3>4. Replied(page, host, past) => Replied(page', host', past')
      BY <1>3, <3>0 DEF Replied
    <3>. QED BY <2>0, <2>1, <2>3, <3>2, <3>3, <3>4 DEF InOrder, Unsent
  <2>. QED BY <2>2, <2>3
<1>. QED BY <1>6, <1>7, <1>9 DEF ReplyInv

LEMMA ClickSendReply ==
  ASSUME Inv, ReplyInv(page, host, past), ClickSend
  PROVE  ReplyInv(page', host', past')
<1>. DEFINE m == [type |-> "send", text |-> page.reply]
            n == Len(page.out) + 1
<1>0. page \in Pages /\ page.out \in Seq(PageMessages)
  BY DEF Inv, Pages
<1>1. page.reply \in Texts /\ ~page.replySending
  BY <1>0 DEF ClickSend, CanSend, Pages
<1>2. m \in PageMessages /\ m.type = "send" /\ m.text = page.reply
  BY <1>1 DEF PageMessages
<1>3. /\ page'.reply = page.reply /\ page'.replySending /\ page'.out = Append(page.out, m)
      /\ host' = host /\ past' = past
  BY <1>0 DEF ClickSend, UserActs, OnPage, PressSend, Say, Pages
<1>. HIDE DEF m
<1>4. /\ NoSend(page.out) => OneSend(page'.out, n)
      /\ page'.out[n] = m /\ n \in DOMAIN page'.out
      /\ \A i \in DOMAIN page'.out :
           page'.out[i] = m \/ (i \in DOMAIN page.out /\ page'.out[i] = page.out[i])
  BY <1>0, <1>2, <1>3, SendSaid
<1>. HIDE DEF n
<1>5. Covered(page', past') = Covered(page, past) /\ page.reply \in Covered(page, past)
  BY <1>1, <1>3, Words DEF Covered
<1>6. Accounted(page', host', past')
  BY <1>2, <1>3, <1>4, <1>5 DEF ReplyInv, Accounted
<1>7. ASSUME ~past.misled PROVE InOrder(page', host', past')
  <2>1. Unsent(page, host) /\ OnlyOnce(page, host, past)
    BY <1>1, <1>7 DEF ReplyInv, InOrder, Requested, Underway, Replied
  <2>2. Requested(page', host', past')
    BY <1>2, <1>3, <1>4, <2>1 DEF Unsent, Requested, Mine
  <2>3. OnlyOnce(page', host', past')
    BY <1>1, <1>2, <1>3, <1>4, <2>1 DEF OnlyOnce
  <2>. QED BY <2>2, <2>3 DEF InOrder
<1>. QED BY <1>3, <1>6, <1>7 DEF ReplyInv

LEMMA StepPast ==
  ASSUME NEW h, NEW p \in Pasts, Step(h, p)
  PROVE  /\ host' = h /\ PastStill(past', p)
         /\ past'.published = p.published /\ past'.risky = p.risky
<1>. DEFINE c == p.crossed \/ Crossing(h)
            o == p.overlap \/ Overlapping(h)
<1>1. host' = h /\ past' = [p EXCEPT !.crossed = c, !.overlap = o]
  BY DEF Step
<1>. HIDE DEF c, o
<1>. QED BY <1>1 DEF Pasts, PastStill

LEMMA StillPast ==
  ASSUME NEW p, NEW h, NEW x, NEW y, PastStill(y, x), ReplyInv(p, h, x)
  PROVE  ReplyInv(p, h, y)
<1>1. /\ y.written = x.written /\ y.letGo = x.letGo /\ y.copies = x.copies
      /\ y.told = x.told /\ y.misled = x.misled
  BY DEF PastStill
<1>2. InTeams(y) = InTeams(x) /\ Covered(p, y) = Covered(p, x) /\ \A t : Mine(p, y, t) <=> Mine(p, x, t)
  BY <1>1 DEF InTeams, Covered, Mine
<1>3. Accounted(p, h, y)
  BY <1>1, <1>2 DEF ReplyInv, Accounted
<1>4. InOrder(p, h, x) => InOrder(p, h, y)
  BY <1>1, <1>2 DEF InOrder, Requested, Underway, Replied, OnlyOnce
<1>. QED BY <1>1, <1>3, <1>4 DEF ReplyInv

LEMMA ShowSendStateSays ==
  ASSUME NEW h \in Hosts, NEW kind \in Answered \cup {"sending"}
  PROVE  LET g == ShowSendState(h, kind)
         IN  /\ g \in Hosts /\ g.send = h.send /\ g.sendState = kind
             /\ g.out = Append(h.out, SendMessage(kind))
             /\ SendMessage(kind) \in HostMessages
             /\ IsAnswer(SendMessage(kind)) <=> kind # "sending"
<1>. DEFINE f == [h EXCEPT !.sendState = kind]
            g == ShowSendState(h, kind)
            m == SendMessage(kind)
<1>1. f \in Hosts
  BY DEF Hosts
<1>2. f.out = h.out /\ f.send = h.send /\ f.sendState = kind
  BY DEF Hosts
<1>3. g = Say(f, m)
  BY DEF ShowSendState, SendMessage
<1>4. g \in Hosts
  BY ShowSendStateOK
<1>5. m \in HostMessages
  BY StateMessages DEF SendMessage
<1>6. IsAnswer(m) <=> kind # "sending"
  BY DEF IsAnswer, SendMessage
<1>. HIDE DEF f, m
<1>7. Say(f, m).out = Append(f.out, m) /\ Say(f, m).send = f.send /\ Say(f, m).sendState = f.sendState
  BY <1>1 DEF Say, Hosts
<1>. QED BY <1>2, <1>3, <1>4, <1>5, <1>6, <1>7 DEF m

LEMMA SendAsyncDoes ==
  ASSUME NEW h, HostOK(h), NEW text \in Texts
  PROVE  LET g == SendAsync(h, text)
         IN  /\ Busy(h.send) => g = h
             /\ ~Busy(h.send) =>
                  \/ /\ g.send = h.send /\ g.sendState = "failed"
                     /\ g.out = Append(h.out, SendMessage("failed"))
                  \/ /\ Busy(g.send) /\ g.send.stage = "asked" /\ g.send.text = text
                     /\ g.sendState = "sending"
                     /\ g.out = Append(h.out, SendMessage("sending"))
<1>0. h \in Hosts /\ "failed" \in Answered
  BY DEF HostOK, Answered
<1>1. CASE Busy(h.send)
  BY <1>1 DEF SendAsync
<1>2. CASE ~Busy(h.send) /\ h.found = NoThread
  BY <1>0, <1>2, ShowSendStateSays DEF SendAsync
<1>3. CASE ~Busy(h.send) /\ h.found # NoThread
  <2>. DEFINE s == [IdleSend EXCEPT !.stage = "asked", !.conv = h.found.conv, !.text = text]
              f == [h EXCEPT !.send = s]
  <2>1. h.found.conv \in Convs
    BY <1>3 DEF HostOK, FoundFilled
  <2>2. /\ s \in [stage : Stages, conv : Convs \cup {""}, text : Texts \cup {""},
                  answer : Answered \cup {""}, after : Results]
        /\ s.stage = "asked" /\ s.text = text
    BY <2>1, IdleOK DEF IdleSend, Stages
  <2>3. SendAsync(h, text) = ShowSendState(f, "sending")
    BY <1>3 DEF SendAsync
  <2>. HIDE DEF s
  <2>4. f \in Hosts
    BY <1>0, <2>2 DEF Hosts
  <2>5. f.send = s /\ f.out = h.out
    BY <1>0 DEF Hosts
  <2>. HIDE DEF f
  <2>6. LET g == ShowSendState(f, "sending")
        IN  g.send = f.send /\ g.sendState = "sending" /\ g.out = Append(f.out, SendMessage("sending"))
    BY <2>4, ShowSendStateSays
  <2>. QED BY <1>3, <2>2, <2>3, <2>5, <2>6 DEF Busy
<1>. QED BY <1>1, <1>2, <1>3

LEMMA HearSendReply ==
  ASSUME Inv, ReplyInv(page, host, past), HearSend
  PROVE  ReplyInv(page', host', past')
<1>. DEFINE g == SendAsync(host, Message.text)
<1>0. /\ page \in Pages /\ page.out \in Seq(PageMessages) /\ page.out # <<>> /\ HostOK(host)
      /\ host \in Hosts /\ host.out \in Seq(HostMessages) /\ past \in Pasts
  BY OutOK DEF Inv, HostInv, HostOK, Pages, HearSend, Asked
<1>1. Message = Head(page.out) /\ Message \in PageMessages /\ Message.type = "send" /\ Message.text \in Texts
  BY <1>0, PageDrops, PageMessageTypes DEF HearSend, Asked, Message
<1>2. /\ page'.reply = page.reply /\ page'.replySending = page.replySending
      /\ page'.out = Tail(page.out)
  BY <1>0 DEF HearSend, Took, Pages
<1>3. host' = g /\ PastStill(past', past)
  BY <1>0, StepPast DEF HearSend, Took
<1>4. /\ Busy(host.send) => g = host
      /\ ~Busy(host.send) =>
           \/ /\ g.send = host.send /\ g.sendState = "failed"
              /\ g.out = Append(host.out, SendMessage("failed"))
           \/ /\ Busy(g.send) /\ g.send.stage = "asked" /\ g.send.text = Message.text
              /\ g.sendState = "sending"
              /\ g.out = Append(host.out, SendMessage("sending"))
  BY <1>0, <1>1, SendAsyncDoes
<1>. HIDE DEF g
<1>5. /\ ~NoSend(page.out)
      /\ \A i \in DOMAIN page.out : OneSend(page.out, i) => NoSend(page'.out) /\ page.out[i] = Message
      /\ \A i \in DOMAIN page'.out : \E j \in DOMAIN page.out : page'.out[i] = page.out[j]
      /\ \E j \in DOMAIN page.out : Message = page.out[j]
  BY <1>0, <1>1, <1>2, SendHeard
<1>6. Covered(page', past) = Covered(page, past) /\ Message.text \in Covered(page, past)
  BY <1>1, <1>2, <1>5 DEF Covered, ReplyInv, Accounted
<1>7. Accounted(page', g, past)
  BY <1>1, <1>4, <1>5, <1>6 DEF ReplyInv, Accounted
<1>8. SendKnown(g)
  BY <1>4 DEF ReplyInv, SendKnown
<1>9. ASSUME ~past.misled PROVE InOrder(page', g, past)
  <2>0. InOrder(page, host, past)
    BY <1>9 DEF ReplyInv
  <2>1. Requested(page, host, past)
    BY <1>5, <2>0 DEF InOrder, Unsent, Underway, Replied
  <2>2. PICK i \in DOMAIN page.out : OneSend(page.out, i) /\ Mine(page, past, page.out[i].text)
    BY <2>1 DEF Requested
  <2>3. /\ NoSend(page'.out) /\ Mine(page', past, Message.text)
        /\ page'.replySending /\ ~Busy(host.send) /\ host.send.text = ""
        /\ Calm(host.out) /\ NoAnswer(host.out)
    BY <1>2, <1>5, <2>1, <2>2 DEF Requested, Mine, ReplyInv, SendKnown, Calm, NoAnswer
  <2>4. /\ SendMessage("failed") \in HostMessages /\ SendMessage("sending") \in HostMessages
        /\ IsAnswer(SendMessage("failed")) /\ ~IsAnswer(SendMessage("sending"))
        /\ SendMessage("failed").kind = "failed"
    BY StateMessages DEF SendMessage, IsAnswer, Answered
  <2>5. ASSUME NEW t \in Texts, past.copies[t] > 0, t \notin past.told
        PROVE  past.copies[t] = 1 /\ Message.text # t /\ page'.reply # t
    <3>1. /\ past.copies[t] = 1
          /\ \A j \in DOMAIN page.out : page.out[j].type = "send" => page.out[j].text # t
          /\ page.reply = t =>
               host.send.text = t \/ \E j \in DOMAIN host.out : OneAnswer(host.out, j) /\ host.out[j].kind = "sent"
      BY <2>0, <2>5 DEF InOrder, OnlyOnce
    <3>2. \A j \in DOMAIN host.out : ~OneAnswer(host.out, j)
      BY <2>3 DEF OneAnswer, NoAnswer
    <3>3. t # ""
      BY Words
    <3>. QED BY <1>1, <1>2, <1>5, <2>3, <3>1, <3>2, <3>3
  <2>6. CASE /\ g.send = host.send /\ g.sendState = "failed"
             /\ g.out = Append(host.out, SendMessage("failed"))
    <3>1. /\ OneAnswer(g.out, Len(host.out) + 1) /\ Len(host.out) + 1 \in DOMAIN g.out
          /\ g.out[Len(host.out) + 1].kind = "failed"
      <4>. DEFINE q == Append(host.out, SendMessage("failed"))
      <4>1. /\ OneAnswer(q, Len(host.out) + 1) /\ Len(host.out) + 1 \in DOMAIN q
            /\ q[Len(host.out) + 1] = SendMessage("failed")
        BY <1>0, <2>3, <2>4, AnswerSaid
      <4>. HIDE DEF q
      <4>2. g.out = q
        BY <2>6 DEF q
      <4>. QED BY <2>4, <4>1, <4>2
    <3>2. Replied(page', g, past)
      BY <2>3, <2>6, <3>1 DEF Replied
    <3>3. OnlyOnce(page', g, past)
      BY <2>3, <2>5, <2>6, Words DEF OnlyOnce, NoSend
    <3>. QED BY <3>2, <3>3 DEF InOrder
  <2>7. CASE /\ Busy(g.send) /\ g.send.stage = "asked" /\ g.send.text = Message.text
             /\ g.sendState = "sending"
             /\ g.out = Append(host.out, SendMessage("sending"))
    <3>1. NoAnswer(g.out)
      BY <1>0, <2>3, <2>4, <2>7, AnswerSaid
    <3>2. Underway(page', g, past)
      BY <2>3, <2>7, <3>1 DEF Underway
    <3>3. OnlyOnce(page', g, past)
      BY <2>3, <2>5, <2>7 DEF OnlyOnce, NoSend
    <3>. QED BY <3>2, <3>3 DEF InOrder
  <2>. QED BY <1>4, <2>3, <2>6, <2>7
<1>10. ReplyInv(page', g, past)
  BY <1>7, <1>8, <1>9 DEF ReplyInv
<1>. QED BY <1>3, <1>10, StillPast

LEMMA QuietStill ==
  ASSUME NEW g, NEW h, Quiet(g, h)
  PROVE  HostStill(g, h)
BY DEF Quiet, Mute, HostStill

LEMMA PageSame ==
  ASSUME NEW p \in Pages
  PROVE  PageStill(p, p)
<1>1. p.out \in Seq(PageMessages)
  BY DEF Pages
<1>2. Still("send", p.out, p.out, 0)
  BY <1>1, StillSame
<1>. QED BY <1>2 DEF PageStill

LEMMA QuietReply ==
  ASSUME NEW p \in Pages, NEW h \in Hosts, NEW g, NEW x, Quiet(g, h), ReplyInv(p, h, x)
  PROVE  ReplyInv(p, g, x)
<1>1. PastStill(x, x) /\ PageStill(p, p) /\ HostStill(g, h) /\ g \in Hosts
  BY PageSame, QuietStill DEF PastStill, Quiet
<1>. QED BY <1>1, StillReply

LEMMA SendLandedDoes ==
  ASSUME NEW h, HostOK(h), h.send.stage = "served"
  PROVE  \E g \in Hosts :
           /\ Quiet(SendLanded(h), g)
           /\ g.send = IdleSend /\ g.sendState = h.send.answer
           /\ g.out = Append(h.out, SendMessage(h.send.answer))
           /\ h.send.answer \in Answered
           /\ SendMessage(h.send.answer) \in HostMessages /\ IsAnswer(SendMessage(h.send.answer))
<1>. DEFINE a == h.send.answer
            r == h.send.after
            done == [h EXCEPT !.send = IdleSend]
            g == ShowSendState(done, a)
<1>0. h \in Hosts /\ a \in Answered
  <2>1. h \in Hosts /\ a # ""
    BY DEF HostOK, Answering, CallsFilled
  <2>. QED BY <2>1 DEF Hosts
<1>1. IdleSend \in [stage : Stages, conv : Convs \cup {""}, text : Texts \cup {""},
                    answer : Answered \cup {""}, after : Results]
  BY IdleOK DEF IdleSend, Stages
<1>2. done \in Hosts
  BY ZenonT(60), <1>0, <1>1 DEF Hosts
<1>3. done.send = IdleSend /\ done.out = h.out
  BY <1>0 DEF Hosts
<1>4. SendLanded(h) = IF a = "sent" THEN ShowAfter(g, r) ELSE g
  BY DEF SendLanded
<1>5. r \in Results /\ (r.state = "found" => r.conv \in Convs)
  <2>1. r \in Results
    BY <1>0 DEF Hosts
  <2>2. (r.state = "found" => r.conv = h.send.conv) /\ h.send.conv \in Convs
    BY DEF HostOK, Answering, AfterAnswer, CallsFilled, Busy
  <2>. QED BY <2>1, <2>2
<1>6. a # "sending" /\ a \in Answered \cup {"sending"}
  BY <1>0 DEF Answered
<1>. HIDE DEF a, r, done
<1>7. /\ g \in Hosts /\ g.send = IdleSend /\ g.sendState = a
      /\ g.out = Append(h.out, SendMessage(a))
      /\ SendMessage(a) \in HostMessages /\ IsAnswer(SendMessage(a))
  BY <1>2, <1>3, <1>6, ShowSendStateSays
<1>. HIDE DEF g
<1>8. Quiet(g, g) /\ Quiet(ShowAfter(g, r), g)
  BY <1>5, <1>7, QuietSame, QuietAfter
<1>9. Quiet(SendLanded(h), g)
  BY <1>4, <1>8
<1>. QED BY <1>0, <1>7, <1>9 DEF a

LEMMA SendLandsReply ==
  ASSUME Inv, ReplyInv(page, host, past), SendLands
  PROVE  ReplyInv(page', host', past')
<1>. DEFINE s == host.send
            h == SendLanded(host)
            told == IF h.sendState = "uncertain" THEN past.told \cup {s.text} ELSE past.told
            acked == IF s.answer = "sent"
                     THEN Forgotten(past.acked, s.conv, s.text)
                            \cup {[conv |-> s.conv, id |-> s.text, ver |-> "first"]}
                     ELSE past.acked
            x == [past EXCEPT !.told = told, !.acked = acked]
<1>0. /\ page \in Pages /\ HostOK(host) /\ host \in Hosts /\ past \in Pasts
      /\ host.out \in Seq(HostMessages)
  BY OutOK DEF Inv, HostInv, HostOK
<1>1. Step(h, x) /\ s.stage = "served" /\ page' = page
  BY DEF SendLands, Lands
<1>2. PICK g \in Hosts :
        /\ Quiet(h, g)
        /\ g.send = IdleSend /\ g.sendState = s.answer
        /\ g.out = Append(host.out, SendMessage(s.answer))
        /\ s.answer \in Answered
        /\ SendMessage(s.answer) \in HostMessages /\ IsAnswer(SendMessage(s.answer))
  BY <1>0, <1>1, SendLandedDoes
<1>3. s.text \in Texts /\ Busy(s) /\ s.conv \in Convs
  BY <1>0, <1>1 DEF HostOK, Answering, CallsFilled, Busy
<1>4. told = IF s.answer = "uncertain" THEN past.told \cup {s.text} ELSE past.told
  BY <1>2 DEF Quiet, Mute
<1>5. told \in SUBSET Texts
  BY <1>0, <1>3, <1>4 DEF Pasts
<1>6. acked \in SUBSET [conv : Convs, id : Ids, ver : {"first", "edited", "gone"}]
  <2>1. past.acked \in SUBSET [conv : Convs, id : Ids, ver : {"first", "edited", "gone"}] /\ s.text \in Ids
    BY <1>0, <1>3 DEF Pasts, Ids
  <2>. QED BY <1>0, <1>3, <2>1, AckedOK
<1>7. ~Busy(IdleSend) /\ IdleSend.text = ""
  BY IdleFacts DEF IdleSend
<1>. HIDE DEF told, acked, h
<1>8. /\ x \in Pasts /\ x.written = past.written /\ x.letGo = past.letGo /\ x.copies = past.copies
      /\ x.told = told /\ x.misled = past.misled
  BY <1>0, <1>5, <1>6 DEF Pasts
<1>. HIDE DEF x
<1>9. /\ InTeams(x) = InTeams(past) /\ Covered(page, x) = Covered(page, past)
      /\ \A t : Mine(page, x, t) <=> Mine(page, past, t)
  BY <1>8 DEF InTeams, Covered, Mine
<1>10. Accounted(page, g, x)
  BY <1>2, <1>7, <1>8, <1>9 DEF ReplyInv, Accounted
<1>11. SendKnown(g)
  BY <1>2, <1>7 DEF SendKnown, Answered
<1>12. ASSUME ~x.misled PROVE InOrder(page, g, x)
  <2>. DEFINE n == Len(host.out) + 1
  <2>1. Underway(page, host, past) /\ OnlyOnce(page, host, past)
    BY <1>3, <1>8, <1>12 DEF ReplyInv, InOrder, Unsent, Requested, Replied
  <2>2. OneAnswer(g.out, n) /\ n \in DOMAIN g.out /\ g.out[n] = SendMessage(s.answer)
    <3>. DEFINE q == Append(host.out, SendMessage(s.answer))
    <3>1. OneAnswer(q, n) /\ n \in DOMAIN q /\ q[n] = SendMessage(s.answer)
      BY <1>0, <1>2, <2>1, AnswerSaid DEF Underway
    <3>. HIDE DEF q
    <3>2. g.out = q
      BY <1>2 DEF q
    <3>. QED BY <3>1, <3>2
  <2>3. g.out[n].kind = s.answer
    BY <2>2 DEF SendMessage
  <2>. HIDE DEF n
  <2>4. s.answer = "sent" => page.reply \in InTeams(x) \cup x.letGo
    BY <1>1, <1>8, <1>9, <2>1 DEF Underway, Mine
  <2>5. Replied(page, g, x)
    BY <1>2, <1>7, <2>1, <2>2, <2>3, <2>4 DEF Replied, Underway
  <2>6. ASSUME NEW t \in Texts, x.copies[t] > 0, t \notin x.told
        PROVE  /\ x.copies[t] = 1
               /\ \A i \in DOMAIN page.out : page.out[i].type = "send" => page.out[i].text # t
               /\ g.send.text # t
               /\ page.reply = t => page.replySending /\ g.out[n].kind = "sent"
    <3>1. t \notin past.told /\ (s.answer = "uncertain" => t # s.text) /\ t # ""
      BY <1>4, <1>8, <2>6, Words
    <3>2. /\ past.copies[t] = 1
          /\ \A i \in DOMAIN page.out : page.out[i].type = "send" => page.out[i].text # t
          /\ s.text = t => s.answer \in {"sent", "uncertain"}
          /\ page.reply = t =>
               /\ page.replySending
               /\ s.text = t \/ \E i \in DOMAIN host.out : OneAnswer(host.out, i)
      BY <1>8, <2>1, <2>6, <3>1 DEF OnlyOnce
    <3>3. \A i \in DOMAIN host.out : ~OneAnswer(host.out, i)
      BY <2>1 DEF Underway, NoAnswer, OneAnswer
    <3>. QED BY <1>2, <1>7, <1>8, <2>3, <3>1, <3>2, <3>3
  <2>7. OnlyOnce(page, g, x)
    BY <2>2, <2>6 DEF OnlyOnce
  <2>. QED BY <2>5, <2>7 DEF InOrder
<1>13. ReplyInv(page, g, x)
  BY <1>10, <1>11, <1>12 DEF ReplyInv
<1>14. ReplyInv(page, h, x)
  BY <1>0, <1>2, <1>13, QuietReply
<1>15. host' = h /\ PastStill(past', x)
  BY <1>1, <1>8, StepPast
<1>. QED BY <1>1, <1>14, <1>15, StillPast

LEMMA ServeSendDoes ==
  ASSUME Inv, ServeSend
  PROVE  \E o \in Outcomes :
           /\ host.send.stage = "asked" /\ host.send.text \in Texts
           /\ page' = page
           /\ host'.send.stage = "served" /\ host'.send.text = host.send.text
           /\ host'.send.answer = AnswerOf(o)
           /\ host'.sendState = host.sendState /\ host'.out = host.out
           /\ past' \in Pasts
           /\ past'.copies = [past.copies EXCEPT ![host.send.text] = IF IsDone(o) THEN @ + 1 ELSE @]
           /\ past'.written = past.written /\ past'.letGo = past.letGo
           /\ past'.told = past.told /\ past'.misled = past.misled
           /\ past'.published = past.published /\ past'.risky = past.risky
<1>0. host \in Hosts /\ Answering(host) /\ past \in Pasts
  BY DEF Inv, HostInv, HostOK
<1>. DEFINE s == host.send
            after == teams.in[s.conv] \cup {[id |-> s.text, ver |-> "first"]}
<1>1. PICK o \in Outcomes :
        /\ s.stage = "asked"
        /\ host' = [host EXCEPT !.send.stage = "served", !.send.answer = AnswerOf(o),
                      !.send.after = IF o = "sent" THEN Reread(s.conv, after) ELSE NoResult]
        /\ past' = IF ~IsDone(o) THEN past
                   ELSE [past EXCEPT !.copies[s.text] = @ + 1, !.acked = Forgotten(@, s.conv, s.text)]
        /\ page' = page
  BY DEF ServeSend
<1>2. s.text \in Texts
  BY <1>0, <1>1 DEF Answering, CallsFilled, Busy
<1>3. past' \in Pasts
  BY ServeSendKeeps DEF Inv, HostInv
<1>. DEFINE a == IF o = "sent" THEN Reread(s.conv, after) ELSE NoResult
<1>4. host' = [host EXCEPT !.send.stage = "served", !.send.answer = AnswerOf(o), !.send.after = a]
  BY <1>1
<1>. HIDE DEF a, after
<1>5. /\ host'.send.stage = "served" /\ host'.send.text = s.text /\ host'.send.answer = AnswerOf(o)
      /\ host'.sendState = host.sendState /\ host'.out = host.out
  BY <1>0, <1>4 DEF Hosts
<1>. DEFINE f == [past.copies EXCEPT ![s.text] = IF IsDone(o) THEN @ + 1 ELSE @]
            ak == Forgotten(past.acked, s.conv, s.text)
<1>6. past' = IF ~IsDone(o) THEN past ELSE [past EXCEPT !.copies = f, !.acked = ak]
  <2>1. CASE ~IsDone(o)
    BY <1>1, <2>1
  <2>2. CASE IsDone(o)
    <3>1. past' = [past EXCEPT !.copies[s.text] = @ + 1, !.acked = ak]
      BY <1>1, <2>2
    <3>2. f = [past.copies EXCEPT ![s.text] = @ + 1]
      BY <2>2
    <3>. HIDE DEF f, ak
    <3>. QED BY <1>0, <2>2, <3>1, <3>2 DEF Pasts
  <2>. QED BY <2>1, <2>2
<1>7. ~IsDone(o) => f = past.copies
  BY <1>0 DEF Pasts
<1>. HIDE DEF f, ak
<1>8. /\ past'.copies = f
      /\ past'.written = past.written /\ past'.letGo = past.letGo
      /\ past'.told = past.told /\ past'.misled = past.misled
      /\ past'.published = past.published /\ past'.risky = past.risky
  BY <1>0, <1>6, <1>7 DEF Pasts
<1>. QED BY <1>1, <1>2, <1>3, <1>5, <1>8 DEF f

LEMMA ServeSendReply ==
  ASSUME Inv, ReplyInv(page, host, past), ServeSend
  PROVE  ReplyInv(page', host', past')
<1>. DEFINE text == host.send.text
<1>1. PICK o \in Outcomes :
           /\ host.send.stage = "asked" /\ text \in Texts
           /\ page' = page
           /\ host'.send.stage = "served" /\ host'.send.text = text
           /\ host'.send.answer = AnswerOf(o)
           /\ host'.sendState = host.sendState /\ host'.out = host.out
           /\ past' \in Pasts
           /\ past'.copies = [past.copies EXCEPT ![text] = IF IsDone(o) THEN @ + 1 ELSE @]
           /\ past'.written = past.written /\ past'.letGo = past.letGo
           /\ past'.told = past.told /\ past'.misled = past.misled
  BY ServeSendDoes
<1>2. past.copies \in [Texts -> Nat]
  BY DEF Inv, HostInv, Pasts
<1>. HIDE DEF text
<1>3. /\ \A t \in Texts : past.copies[t] \in Nat /\ (t # text => past'.copies[t] = past.copies[t])
      /\ past'.copies[text] = IF IsDone(o) THEN past.copies[text] + 1 ELSE past.copies[text]
  BY <1>1, <1>2
<1>4. Busy(host.send) /\ Busy(host'.send)
  BY <1>1 DEF Busy
<1>5. /\ InTeams(past) \subseteq InTeams(past') /\ InTeams(past') \subseteq InTeams(past) \cup {text}
      /\ IsDone(o) => text \in InTeams(past')
  BY <1>1, <1>3 DEF InTeams
<1>6. text \in Covered(page, past) /\ Covered(page, past) \subseteq past.written
  BY <1>4 DEF ReplyInv, Accounted, text
<1>7. Covered(page', past') \subseteq Covered(page, past) /\ Covered(page, past) \subseteq Covered(page', past')
  <2>1. /\ Covered(page', past') = Word(page.reply) \cup InTeams(past') \cup past.letGo
        /\ Covered(page, past) = Word(page.reply) \cup InTeams(past) \cup past.letGo
    BY <1>1 DEF Covered
  <2>. QED BY <1>5, <1>6, <2>1
<1>8. Accounted(page', host', past')
  BY <1>1, <1>6, <1>7 DEF ReplyInv, Accounted
<1>9. SendKnown(host')
  BY <1>4 DEF SendKnown
<1>10. (AnswerOf(o) = "sent" => IsDone(o)) /\ (IsDone(o) => AnswerOf(o) \in {"sent", "uncertain"})
  BY DEF AnswerOf, IsDone, Outcomes
<1>11. ASSUME ~past'.misled PROVE InOrder(page', host', past')
  <2>1. Underway(page, host, past) /\ OnlyOnce(page, host, past)
    BY <1>1, <1>4, <1>11 DEF ReplyInv, InOrder, Unsent, Requested, Replied
  <2>2. Underway(page', host', past')
    BY <1>1, <1>4, <1>5, <1>10, <2>1 DEF Underway, Mine, text
  <2>3. ASSUME NEW t \in Texts, past'.copies[t] > 0, t \notin past'.told
        PROVE  /\ past'.copies[t] = 1
               /\ text = t => IsDone(o)
               /\ page.reply = t => text = t
    <3>1. past.copies[t] > 0 =>
            /\ past.copies[t] = 1 /\ text # t
            /\ page.reply = t => \E i \in DOMAIN host.out : OneAnswer(host.out, i)
      BY <1>1, <2>1, <2>3 DEF OnlyOnce, text
    <3>2. \A i \in DOMAIN host.out : ~OneAnswer(host.out, i)
      BY <2>1 DEF Underway, NoAnswer, OneAnswer
    <3>3. CASE t = text
      <4>1. past.copies[t] = 0
        BY <1>3, <3>1, <3>3
      <4>. QED BY <1>3, <2>3, <3>3, <4>1
    <3>4. CASE t # text
      BY <1>3, <2>3, <3>1, <3>2, <3>4
    <3>. QED BY <3>3, <3>4
  <2>4. OnlyOnce(page', host', past')
    BY <1>1, <1>10, <2>1, <2>3 DEF OnlyOnce, Underway, NoSend
  <2>. QED BY <2>2, <2>4 DEF InOrder
<1>. QED BY <1>8, <1>9, <1>11 DEF ReplyInv

\* What the page's handler of a "sendState" does to the box and to the history.
LEMMA PageSendStateDoes ==
  ASSUME Inv, PageSendState
  PROVE  /\ page' = ShowSendStateOnPage(page, News)
         /\ page' \in Pages /\ host' \in Hosts /\ past' \in Pasts
         /\ host.out # <<>> /\ News \in HostMessages /\ News.type = "sendState"
         /\ page'.reply = IF ClearsReply(page, News) THEN "" ELSE page.reply
         /\ page'.replySending = (News.kind = "sending")
         /\ page'.out = page.out /\ page'.draft = page.draft /\ page'.postDirty = page.postDirty
         /\ host'.send = host.send /\ host'.sendState = host.sendState
         /\ host'.out = Tail(host.out)
         /\ past'.misled = (past.misled \/ (News.again /\ page.replySending /\ News.kind # "sending"))
         /\ past'.letGo = IF past'.misled /\ ClearsReply(page, News)
                          THEN past.letGo \cup Word(page.reply) ELSE past.letGo
         /\ past'.written = past.written /\ past'.copies = past.copies /\ past'.told = past.told
         /\ past'.published = past.published /\ past'.risky = past.risky
<1>. DEFINE m == past.misled \/ (News.again /\ page.replySending /\ News.kind # "sending")
            l == IF m /\ ClearsReply(page, News) THEN past.letGo \cup Word(page.reply) ELSE past.letGo
            reply == IF ClearsReply(page, News) THEN "" ELSE page.reply
            busy == (News.kind = "sending")
<1>0. page \in Pages /\ host \in Hosts /\ past \in Pasts
  BY DEF Inv, HostInv, HostOK
<1>1. /\ host.out # <<>> /\ News.type = "sendState"
      /\ page' = ShowSendStateOnPage(page, News)
      /\ host' = [host EXCEPT !.out = Tail(@)]
      /\ past' = [past EXCEPT !.misled = m, !.letGo = l]
  BY DEF PageSendState, Told, Shown
<1>2. News \in HostMessages /\ host' \in Hosts
  BY <1>0, <1>1, HostDrops DEF News
<1>3. page' = [page EXCEPT !.reply = reply, !.replySending = busy]
  BY <1>1 DEF ShowSendStateOnPage
<1>4. page' \in Pages
  BY <1>0, <1>1, <1>2, PageShows
<1>5. past' \in Pasts
  BY PageHearsKeeps DEF PageHears, Inv, HostInv
<1>. HIDE DEF m, l, reply, busy
<1>6. /\ page'.reply = reply /\ page'.replySending = busy
      /\ page'.out = page.out /\ page'.draft = page.draft /\ page'.postDirty = page.postDirty
  BY <1>0, <1>3 DEF Pages
<1>7. host'.send = host.send /\ host'.sendState = host.sendState /\ host'.out = Tail(host.out)
  BY <1>0, <1>1 DEF Hosts
<1>8. /\ past'.misled = m /\ past'.letGo = l
      /\ past'.written = past.written /\ past'.copies = past.copies /\ past'.told = past.told
      /\ past'.published = past.published /\ past'.risky = past.risky
  BY <1>0, <1>1 DEF Pasts
<1>. QED BY <1>1, <1>2, <1>4, <1>5, <1>6, <1>7, <1>8 DEF m, l, reply, busy

\* The answer the page clears its box for is the one to the text in the box, unless it was misled.
LEMMA ClearedIsAnswered ==
  ASSUME Inv, ReplyInv(page, host, past), PageSendState, ~past'.misled
  PROVE  /\ IsAnswer(News) =>
              /\ Replied(page, host, past) /\ Calm(host'.out)
              /\ \A i \in DOMAIN host.out : OneAnswer(host.out, i) => host.out[i] = News
         /\ ClearsReply(page, News) => IsAnswer(News) /\ page.reply \in InTeams(past) \cup past.letGo
<1>0. host.out \in Seq(HostMessages)
  BY OutOK DEF Inv, HostInv, HostOK
<1>1. /\ host.out # <<>> /\ News.type = "sendState" /\ host'.out = Tail(host.out)
      /\ ~past.misled /\ ~(News.again /\ page.replySending /\ News.kind # "sending")
  BY PageSendStateDoes
<1>2. InOrder(page, host, past)
  BY <1>1 DEF ReplyInv
<1>3. /\ NoAnswer(host.out) => ~IsAnswer(News)
      /\ Calm(host.out) => ~IsAnswer(News)
      /\ \A i \in DOMAIN host.out : OneAnswer(host.out, i) /\ IsAnswer(News) =>
           host.out[i] = News /\ Calm(host'.out)
  BY <1>0, <1>1, AnswerHeard DEF News
<1>4. IsAnswer(News) => Replied(page, host, past)
  BY <1>2, <1>3 DEF InOrder, Unsent, Requested, Underway
<1>5. ASSUME IsAnswer(News) PROVE Calm(host'.out)
  BY <1>3, <1>4, <1>5 DEF Replied
<1>6. ASSUME ClearsReply(page, News)
      PROVE  IsAnswer(News) /\ page.reply \in InTeams(past) \cup past.letGo
  <2>1. News.kind = "sent" /\ page.replySending
    BY <1>6 DEF ClearsReply
  <2>2. IsAnswer(News)
    BY <1>1, <2>1 DEF IsAnswer
  <2>. QED BY <1>3, <1>4, <2>1, <2>2 DEF Replied
<1>. QED BY <1>3, <1>4, <1>5, <1>6

LEMMA PageSendStateReply ==
  ASSUME Inv, ReplyInv(page, host, past), PageSendState
  PROVE  ReplyInv(page', host', past')
<1>0. page \in Pages /\ host.out \in Seq(HostMessages)
  BY OutOK DEF Inv, HostInv, HostOK
<1>1. /\ host.out # <<>> /\ News.type = "sendState"
      /\ page'.reply = IF ClearsReply(page, News) THEN "" ELSE page.reply
      /\ page'.replySending = (News.kind = "sending") /\ page'.out = page.out
      /\ host'.send = host.send /\ host'.sendState = host.sendState
      /\ host'.out = Tail(host.out)
      /\ past'.misled = (past.misled \/ (News.again /\ page.replySending /\ News.kind # "sending"))
      /\ past'.letGo = IF past'.misled /\ ClearsReply(page, News)
                       THEN past.letGo \cup Word(page.reply) ELSE past.letGo
      /\ past'.written = past.written /\ past'.copies = past.copies /\ past'.told = past.told
  BY PageSendStateDoes
<1>2. InTeams(past') = InTeams(past)
  BY <1>1 DEF InTeams
<1>3. ~past'.misled /\ ClearsReply(page, News) => Word(page.reply) \subseteq InTeams(past) \cup past.letGo
  BY ClearedIsAnswered DEF Word
<1>4. Covered(page', past') = Covered(page, past)
  BY <1>1, <1>2, <1>3, Words DEF Covered
<1>5. Accounted(page', host', past')
  BY <1>1, <1>4 DEF ReplyInv, Accounted
<1>6. SendKnown(host')
  BY <1>1 DEF ReplyInv, SendKnown
<1>7. ASSUME ~past'.misled PROVE InOrder(page', host', past')
  <2>0. InOrder(page, host, past) /\ past'.letGo = past.letGo
    BY <1>1, <1>7 DEF ReplyInv
  <2>3. OnlyOnce(page, host, past)
    BY <2>0 DEF InOrder
  <2>1. CASE IsAnswer(News)
    <3>1. /\ Replied(page, host, past) /\ Calm(host'.out)
          /\ \A i \in DOMAIN host.out : OneAnswer(host.out, i) => host.out[i] = News
      BY <1>7, <2>1, ClearedIsAnswered
    <3>2. Unsent(page', host')
      BY <1>1, <2>1, <3>1 DEF Unsent, Replied, IsAnswer
    <3>3. ASSUME NEW t \in Texts, past.copies[t] > 0, t \notin past.told PROVE page'.reply # t
      <4>1. page.reply = t =>
              host.send.text = t \/ \E i \in DOMAIN host.out : OneAnswer(host.out, i) /\ host.out[i].kind = "sent"
        BY <2>3, <3>3 DEF OnlyOnce
      <4>2. host.send.text = "" /\ t # ""
        BY <3>1, Words DEF ReplyInv, SendKnown, Replied
      <4>3. page.reply = t => News.kind = "sent"
        BY <3>1, <4>1, <4>2
      <4>. QED BY <1>1, <3>1, <4>2, <4>3 DEF ClearsReply, Replied
    <3>4. OnlyOnce(page', host', past')
      <4>1. ASSUME NEW t \in Texts, past'.copies[t] > 0, t \notin past'.told
            PROVE  /\ past'.copies[t] = 1 /\ page'.reply # t
                   /\ \A i \in DOMAIN page'.out : page'.out[i].type = "send" => page'.out[i].text # t
                   /\ host'.send.text = t => host'.send.stage = "served" /\ host'.send.answer \in {"sent", "uncertain"}
        <5>1. past.copies[t] > 0 /\ t \notin past.told
          BY <1>1, <4>1
        <5>2. /\ past.copies[t] = 1
              /\ \A i \in DOMAIN page.out : page.out[i].type = "send" => page.out[i].text # t
              /\ host.send.text = t => host.send.stage = "served" /\ host.send.answer \in {"sent", "uncertain"}
          BY <2>3, <5>1 DEF OnlyOnce
        <5>. QED BY <1>1, <3>3, <5>1, <5>2
      <4>. QED BY <4>1 DEF OnlyOnce
    <3>. QED BY <3>2, <3>4 DEF InOrder
  <2>2. CASE ~IsAnswer(News)
    <3>1. ~ClearsReply(page, News)
      BY <1>7, <2>2, ClearedIsAnswered
    <3>2. /\ NoAnswer(host.out) => NoAnswer(host'.out)
          /\ Calm(host.out) => Calm(host'.out) /\ ~IsSending(News)
          /\ \A i \in DOMAIN host.out : OneAnswer(host.out, i) =>
               OneAnswer(host'.out, i - 1) /\ host'.out[i - 1] = host.out[i]
      BY <1>0, <1>1, <2>2, AnswerHeard DEF News
    <3>3. page'.replySending = page.replySending
      <4>1. CASE News.kind = "sending"
        <5>1. IsSending(News)
          BY <1>1, <4>1 DEF IsSending
        <5>. QED BY <1>1, <2>0, <3>2, <4>1, <5>1 DEF InOrder, Unsent, Requested, Underway, Replied
      <4>2. CASE News.kind # "sending"
        <5>1. ~page.replySending
          BY <1>1, <1>7, <2>2, <4>2 DEF IsAnswer
        <5>2. page.replySending \in BOOLEAN
          BY <1>0 DEF Pages
        <5>. QED BY <1>1, <4>2, <5>1, <5>2
      <4>. QED BY <4>1, <4>2
    <3>4. page'.reply = page.reply
      BY <1>1, <3>1
    <3>5. \A t : Mine(page', past', t) <=> Mine(page, past, t)
      BY <2>0, <3>4 DEF Mine
    <3>6. ASSUME NEW i \in DOMAIN host.out, OneAnswer(host.out, i)
          PROVE  \E j \in DOMAIN host'.out : OneAnswer(host'.out, j) /\ host'.out[j].kind = host.out[i].kind
      <4>1. OneAnswer(host'.out, i - 1) /\ host'.out[i - 1] = host.out[i]
        BY <3>2, <3>6
      <4>2. i - 1 \in DOMAIN host'.out
        BY <4>1 DEF OneAnswer
      <4>. QED BY <4>1, <4>2
    <3>7. Unsent(page, host) => Unsent(page', host')
      BY <1>1, <3>2, <3>3 DEF Unsent
    <3>8. Requested(page, host, past) => Requested(page', host', past')
      BY <1>1, <3>2, <3>3, <3>5 DEF Requested
    <3>9. Underway(page, host, past) => Underway(page', host', past')
      BY <1>1, <1>2, <3>2, <3>3, <3>5 DEF Underway
    <3>10. Replied(page, host, past) => Replied(page', host', past')
      BY <1>1, <1>2, <2>0, <3>3, <3>4, <3>6 DEF Replied
    <3>11. OnlyOnce(page', host', past')
      <4>. SUFFICES ASSUME NEW t \in Texts, past'.copies[t] > 0, t \notin past'.told
           PROVE /\ past'.copies[t] = 1
                 /\ \A i \in DOMAIN page'.out : page'.out[i].type = "send" => page'.out[i].text # t
                 /\ host'.send.text = t => host'.send.stage = "served" /\ host'.send.answer \in {"sent", "uncertain"}
                 /\ page'.reply = t =>
                      /\ page'.replySending
                      /\ \/ host'.send.text = t
                         \/ \E i \in DOMAIN host'.out : OneAnswer(host'.out, i) /\ host'.out[i].kind = "sent"
        BY DEF OnlyOnce
      <4>1. /\ past.copies[t] = 1
            /\ \A i \in DOMAIN page.out : page.out[i].type = "send" => page.out[i].text # t
            /\ host.send.text = t => host.send.stage = "served" /\ host.send.answer \in {"sent", "uncertain"}
            /\ page.reply = t =>
                 /\ page.replySending
                 /\ host.send.text = t \/ \E i \in DOMAIN host.out : OneAnswer(host.out, i) /\ host.out[i].kind = "sent"
        BY <1>1, <2>3 DEF OnlyOnce
      <4>2. ASSUME host.send.text = t \/ \E i \in DOMAIN host.out : OneAnswer(host.out, i) /\ host.out[i].kind = "sent"
            PROVE  \/ host'.send.text = t
                   \/ \E i \in DOMAIN host'.out : OneAnswer(host'.out, i) /\ host'.out[i].kind = "sent"
        <5>1. CASE host.send.text = t
          BY <1>1, <5>1
        <5>2. ASSUME NEW i \in DOMAIN host.out, OneAnswer(host.out, i), host.out[i].kind = "sent"
              PROVE  \E j \in DOMAIN host'.out : OneAnswer(host'.out, j) /\ host'.out[j].kind = "sent"
          <6>1. PICK j \in DOMAIN host'.out : OneAnswer(host'.out, j) /\ host'.out[j].kind = host.out[i].kind
            BY <3>6, <5>2
          <6>. QED BY <5>2, <6>1
        <5>. QED BY <4>2, <5>1, <5>2
      <4>3. /\ past'.copies[t] = 1
            /\ \A i \in DOMAIN page'.out : page'.out[i].type = "send" => page'.out[i].text # t
            /\ host'.send.text = t => host'.send.stage = "served" /\ host'.send.answer \in {"sent", "uncertain"}
        BY ZenonT(60), <1>1, <4>1
      <4>4. ASSUME page'.reply = t
            PROVE  /\ page'.replySending
                   /\ host.send.text = t \/ \E i \in DOMAIN host.out : OneAnswer(host.out, i) /\ host.out[i].kind = "sent"
        BY <3>3, <3>4, <4>1, <4>4
      <4>. QED BY <4>2, <4>3, <4>4
    <3>. QED BY <2>0, <3>7, <3>8, <3>9, <3>10, <3>11 DEF InOrder
  <2>. QED BY <2>1, <2>2
<1>. QED BY <1>5, <1>6, <1>7 DEF ReplyInv

LEMMA RepeatReply ==
  ASSUME NEW p \in Pages, NEW h \in Hosts, NEW x, h.sendState # "", ReplyInv(p, h, x)
  PROVE  Say(h, Repeated(h.sendState)) \in Hosts /\ ReplyInv(p, Say(h, Repeated(h.sendState)), x)
<1>. DEFINE m == Repeated(h.sendState)
            g == Say(h, m)
<1>0. h.out \in Seq(HostMessages) /\ h.sendState \in Answered \cup {"sending"}
  BY OutOK DEF Hosts
<1>1. m \in HostMessages
  BY <1>0, StateMessages DEF Repeated
<1>2. ~IsAnswer(m) /\ (IsSending(m) => Busy(h.send))
  BY DEF Repeated, IsAnswer, IsSending, ReplyInv, SendKnown
<1>. HIDE DEF m
<1>3. g \in Hosts /\ g.send = h.send /\ g.sendState = h.sendState /\ g.out = Append(h.out, m)
  <2>1. g \in Hosts
    BY <1>1, SayOK
  <2>. QED BY <2>1 DEF Say, Hosts
<1>. HIDE DEF g
<1>4. /\ NoAnswer(h.out) => NoAnswer(g.out)
      /\ ~Busy(h.send) /\ Calm(h.out) => Calm(g.out)
      /\ \A i \in DOMAIN h.out : ~Busy(h.send) /\ OneAnswer(h.out, i) =>
           OneAnswer(g.out, i) /\ g.out[i] = h.out[i] /\ i \in DOMAIN g.out
  <2>. DEFINE q == Append(h.out, m)
  <2>1. /\ NoAnswer(h.out) => NoAnswer(q)
        /\ ~Busy(h.send) /\ Calm(h.out) => Calm(q)
        /\ \A i \in DOMAIN h.out : ~Busy(h.send) /\ OneAnswer(h.out, i) =>
             OneAnswer(q, i) /\ q[i] = h.out[i] /\ i \in DOMAIN q
    BY <1>0, <1>1, <1>2, AnswerSaid
  <2>. HIDE DEF q
  <2>2. g.out = q
    BY <1>3 DEF q
  <2>. QED BY <2>1, <2>2
<1>5. Accounted(p, g, x) /\ SendKnown(g)
  BY <1>3 DEF ReplyInv, Accounted, SendKnown
<1>6. ASSUME ~x.misled PROVE InOrder(p, g, x)
  <2>0. InOrder(p, h, x)
    BY <1>6 DEF ReplyInv
  <2>1. Unsent(p, h) => Unsent(p, g)
    BY <1>3, <1>4 DEF Unsent
  <2>2. Requested(p, h, x) => Requested(p, g, x)
    BY <1>3, <1>4 DEF Requested
  <2>3. Underway(p, h, x) => Underway(p, g, x)
    BY <1>3, <1>4 DEF Underway
  <2>4. Replied(p, h, x) => Replied(p, g, x)
    <3>. SUFFICES ASSUME Replied(p, h, x) PROVE Replied(p, g, x)
      OBVIOUS
    <3>1. PICK i \in DOMAIN h.out :
            OneAnswer(h.out, i) /\ (h.out[i].kind = "sent" => p.reply \in InTeams(x) \cup x.letGo)
      BY DEF Replied
    <3>2. OneAnswer(g.out, i) /\ g.out[i] = h.out[i] /\ i \in DOMAIN g.out
      BY <1>4, <3>1 DEF Replied
    <3>. QED BY <1>3, <3>1, <3>2 DEF Replied
  <2>5. ASSUME NEW i \in DOMAIN h.out, OneAnswer(h.out, i)
        PROVE  OneAnswer(g.out, i) /\ g.out[i] = h.out[i] /\ i \in DOMAIN g.out
    <3>1. ~NoAnswer(h.out)
      BY <2>5 DEF NoAnswer, OneAnswer
    <3>2. ~Busy(h.send)
      BY <2>0, <3>1 DEF InOrder, Unsent, Requested, Underway, Replied
    <3>. QED BY <1>4, <2>5, <3>2
  <2>6. OnlyOnce(p, h, x)
    BY <2>0 DEF InOrder
  <2>7. ASSUME NEW t \in Texts, x.copies[t] > 0, t \notin x.told
        PROVE  /\ x.copies[t] = 1
               /\ \A i \in DOMAIN p.out : p.out[i].type = "send" => p.out[i].text # t
               /\ g.send.text = t => g.send.stage = "served" /\ g.send.answer \in {"sent", "uncertain"}
               /\ p.reply = t =>
                    /\ p.replySending
                    /\ g.send.text = t \/ \E i \in DOMAIN g.out : OneAnswer(g.out, i) /\ g.out[i].kind = "sent"
    <3>1. /\ x.copies[t] = 1
          /\ \A i \in DOMAIN p.out : p.out[i].type = "send" => p.out[i].text # t
          /\ h.send.text = t => h.send.stage = "served" /\ h.send.answer \in {"sent", "uncertain"}
          /\ p.reply = t =>
               /\ p.replySending
               /\ h.send.text = t \/ \E i \in DOMAIN h.out : OneAnswer(h.out, i) /\ h.out[i].kind = "sent"
      BY <2>6, <2>7 DEF OnlyOnce
    <3>2. ASSUME NEW i \in DOMAIN h.out, OneAnswer(h.out, i), h.out[i].kind = "sent"
          PROVE  \E j \in DOMAIN g.out : OneAnswer(g.out, j) /\ g.out[j].kind = "sent"
      <4>1. OneAnswer(g.out, i) /\ g.out[i].kind = "sent" /\ i \in DOMAIN g.out
        BY <2>5, <3>2
      <4>. QED BY <4>1
    <3>. QED BY <1>3, <3>1, <3>2
  <2>8. OnlyOnce(p, g, x)
    BY <2>7 DEF OnlyOnce
  <2>. QED BY <2>0, <2>1, <2>2, <2>3, <2>4, <2>8 DEF InOrder
<1>. QED BY <1>3, <1>5, <1>6 DEF ReplyInv, g, m

LEMMA LanguageReply ==
  ASSUME NEW p \in Pages, NEW h, HostOK(h), NEW x, ReplyInv(p, h, x)
  PROVE  ReplyInv(p, OnLanguageChanged(h), x)
<1>. DEFINE ms == Repeated(h.sendState)
            mp == [type |-> "postState", kind |-> h.postState, again |-> TRUE]
            h1 == IF h.state = "" THEN h ELSE ShowState(h, h.state, h.inline)
            h2 == IF h.sendState = "" THEN h1 ELSE Say(h1, ms)
            h3 == IF h.postState = "" THEN h2 ELSE Say(h2, mp)
            h4 == IF h.lastChats = {} THEN h3 ELSE PostConversations(h3)
            h5 == IF h.found = NoThread THEN h4 ELSE PostThread(h4)
<1>0. /\ h \in Hosts /\ h.state \in Panels \cup {""} /\ h.inline \in BOOLEAN
      /\ h.postState \in Answered \cup {"posting", "warning", ""}
  BY DEF HostOK, Hosts
<1>1. h.postState # "" => mp \in HostMessages /\ mp.type # "sendState"
  BY <1>0, StateMessages
<1>2. OnLanguageChanged(h) = PostDraft(h5, FALSE)
  BY DEF OnLanguageChanged, Repeated
<1>. HIDE DEF mp
<1>3. h1 \in Hosts /\ Quiet(h1, h) /\ h1.sendState = h.sendState
  <2>1. Quiet(h1, h)
    BY <1>0, QuietSame, ShowStateOK, ShowStateMute DEF Quiet
  <2>. QED BY <2>1 DEF Quiet, Mute
<1>. HIDE DEF h1
<1>4. ReplyInv(p, h1, x)
  BY <1>0, <1>3, QuietReply
<1>5. h2 \in Hosts /\ ReplyInv(p, h2, x)
  BY <1>3, <1>4, RepeatReply
<1>. HIDE DEF h2, ms
<1>6. h3 \in Hosts /\ Quiet(h3, h2)
  BY <1>1, <1>5, SayOK, MuteSay, QuietSame DEF Quiet
<1>. HIDE DEF h3
<1>7. h4 \in Hosts /\ Quiet(h4, h3)
  BY <1>6, PostConversationsOK, PostConversationsMute, QuietSame DEF Quiet
<1>. HIDE DEF h4
<1>8. h5 \in Hosts /\ Quiet(h5, h4)
  BY <1>7, PostThreadOK, PostThreadMute, QuietSame DEF Quiet
<1>. HIDE DEF h5
<1>9. Quiet(PostDraft(h5, FALSE), h5)
  BY <1>8, QuietDraft
<1>10. ReplyInv(p, h3, x)
  BY <1>5, <1>6, QuietReply
<1>11. ReplyInv(p, h4, x)
  BY <1>6, <1>7, <1>10, QuietReply
<1>12. ReplyInv(p, h5, x)
  BY <1>7, <1>8, <1>11, QuietReply
<1>. QED BY <1>2, <1>8, <1>9, <1>12, QuietReply

-----------------------------------------------------------------------------
(* The page's operators: which leave the reply alone, and which the draft. *)

LEMMA BoxStill ==
  ASSUME NEW p \in Pages, NEW q, BoxSame(q, p)
  PROVE  PageStill(q, p)
<1>1. p.out \in Seq(PageMessages)
  BY DEF Pages
<1>2. Still("send", q.out, p.out, 0)
  BY <1>1, StillSame DEF BoxSame
<1>. QED BY <1>2 DEF PageStill, BoxSame

LEMMA BoxTrans ==
  ASSUME NEW f, NEW g, NEW p, BoxSame(f, g), DraftSame(f, g), BoxSame(g, p), DraftSame(g, p)
  PROVE  BoxSame(f, p) /\ DraftSame(f, p)
BY DEF BoxSame, DraftSame

LEMMA ModeLeaves ==
  ASSUME NEW p \in Pages, NEW mode, NEW panel
  PROVE  BoxSame(SetMode(p, mode, panel), p) /\ DraftSame(SetMode(p, mode, panel), p)
BY DEF SetMode, Pages, BoxSame, DraftSame

LEMMA RenderLeaves ==
  ASSUME NEW p \in Pages
  PROVE  BoxSame(RenderThread(p), p) /\ DraftSame(RenderThread(p), p)
BY DEF RenderThread, Pages, BoxSame, DraftSame

LEMMA PageShowsBox ==
  ASSUME NEW p \in Pages, NEW m \in HostMessages
  PROVE  /\ m.type = "state" =>
              BoxSame(ShowStatePanel(p, m), p) /\ DraftSame(ShowStatePanel(p, m), p)
         /\ m.type = "thread" =>
              BoxSame(ShowThreadOnPage(p, m), p) /\ DraftSame(ShowThreadOnPage(p, m), p)
         /\ m.type = "conversations" =>
              BoxSame(ApplyConversations(p, m), p) /\ DraftSame(ApplyConversations(p, m), p)
         /\ m.type = "editState" =>
              BoxSame(ShowEditState(p, m), p) /\ DraftSame(ShowEditState(p, m), p)
         /\ m.type = "deleteState" =>
              BoxSame(ShowDeleteState(p, m), p) /\ DraftSame(ShowDeleteState(p, m), p)
         /\ m.type = "draft" =>
              /\ BoxSame(ShowDraft(p, m), p)
              /\ TakesDraft(p, m) => ShowDraft(p, m).draft = m.text /\ m.text \in Drafts
              /\ ~TakesDraft(p, m) => DraftSame(ShowDraft(p, m), p)
         /\ m.type = "postState" =>
              /\ BoxSame(ShowPostStateOnPage(p, m), p)
              /\ ShowPostStateOnPage(p, m).draft = p.draft
              /\ m.kind # "sent" => ShowPostStateOnPage(p, m).postDirty = p.postDirty
<1>0. BoxSame(p, p) /\ DraftSame(p, p)
  BY DEF BoxSame, DraftSame
<1>1. ASSUME m.type = "state"
      PROVE  BoxSame(ShowStatePanel(p, m), p) /\ DraftSame(ShowStatePanel(p, m), p)
  BY <1>0, <1>1, ModeLeaves DEF ShowStatePanel
<1>2. ASSUME m.type = "thread"
      PROVE  BoxSame(ShowThreadOnPage(p, m), p) /\ DraftSame(ShowThreadOnPage(p, m), p)
  <2>. DEFINE q == [p EXCEPT !.thread = m.thread]
              r == SetMode(q, "thread", "hidden")
  <2>1. m.thread \in Threads
    BY <1>2 DEF HostMessages
  <2>2. q \in Pages
    BY <2>1 DEF Pages
  <2>3. BoxSame(q, p) /\ DraftSame(q, p)
    BY DEF Pages, BoxSame, DraftSame
  <2>4. ShowThreadOnPage(p, m) = RenderThread(r)
    BY DEF ShowThreadOnPage
  <2>. HIDE DEF q
  <2>5. r \in Pages /\ BoxSame(r, q) /\ DraftSame(r, q)
    BY <2>2, ModeOK, ModeLeaves
  <2>. HIDE DEF r
  <2>6. BoxSame(RenderThread(r), r) /\ DraftSame(RenderThread(r), r)
    BY <2>5, RenderLeaves
  <2>. QED BY <2>3, <2>4, <2>5, <2>6, BoxTrans
<1>3. BoxSame(ApplyConversations(p, m), p) /\ DraftSame(ApplyConversations(p, m), p)
  BY DEF ApplyConversations, Pages, BoxSame, DraftSame
<1>4. BoxSame(ShowEditState(p, m), p) /\ DraftSame(ShowEditState(p, m), p)
  BY DEF ShowEditState, Pages, BoxSame, DraftSame
<1>5. ASSUME m.type = "deleteState"
      PROVE  BoxSame(ShowDeleteState(p, m), p) /\ DraftSame(ShowDeleteState(p, m), p)
  <2>. DEFINE d == IF m.state = "deleting" THEN m.id ELSE ""
              q == [p EXCEPT !.deleting = d]
  <2>1. d \in Ids \cup {""}
    BY <1>5 DEF HostMessages
  <2>2. ShowDeleteState(p, m) = RenderThread(q)
    BY DEF ShowDeleteState
  <2>. HIDE DEF d
  <2>3. q \in Pages
    BY <2>1 DEF Pages
  <2>4. BoxSame(q, p) /\ DraftSame(q, p)
    BY DEF Pages, BoxSame, DraftSame
  <2>. HIDE DEF q
  <2>5. BoxSame(RenderThread(q), q) /\ DraftSame(RenderThread(q), q)
    BY <2>3, RenderLeaves
  <2>. QED BY <2>2, <2>4, <2>5, BoxTrans
<1>6. ASSUME m.type = "draft"
      PROVE  /\ BoxSame(ShowDraft(p, m), p)
             /\ TakesDraft(p, m) => ShowDraft(p, m).draft = m.text /\ m.text \in Drafts
             /\ ~TakesDraft(p, m) => DraftSame(ShowDraft(p, m), p)
  <2>. DEFINE q == SetMode(p, "post", "hidden")
  <2>1. m.text \in Drafts
    BY <1>6 DEF HostMessages
  <2>2. q \in Pages /\ BoxSame(q, p) /\ DraftSame(q, p)
    BY ModeOK, ModeLeaves
  <2>3. ShowDraft(p, m) =
          IF TakesDraft(p, m)
          THEN [q EXCEPT !.draft = m.text, !.postDirty = FALSE, !.applied = m.text]
          ELSE q
    BY DEF ShowDraft
  <2>. HIDE DEF q
  <2>4. CASE TakesDraft(p, m)
    <3>1. BoxSame(ShowDraft(p, m), q) /\ ShowDraft(p, m).draft = m.text
      BY <2>2, <2>3, <2>4 DEF Pages, BoxSame
    <3>. QED BY <2>1, <2>2, <2>4, <3>1 DEF BoxSame
  <2>5. CASE ~TakesDraft(p, m)
    BY <2>2, <2>3, <2>5
  <2>. QED BY <2>4, <2>5
<1>7. /\ BoxSame(ShowPostStateOnPage(p, m), p)
      /\ ShowPostStateOnPage(p, m).draft = p.draft
      /\ m.kind # "sent" => ShowPostStateOnPage(p, m).postDirty = p.postDirty
  BY DEF ShowPostStateOnPage, Pages, BoxSame
<1>. QED BY <1>1, <1>2, <1>3, <1>4, <1>5, <1>6, <1>7

\* A page that says something else than "send".
LEMMA SaysStill ==
  ASSUME NEW p \in Pages, NEW q \in Pages, BoxSame(q, p), DraftSame(q, p),
         NEW m \in PageMessages, m.type # "send"
  PROVE  PageStill(Say(q, m), p) /\ DraftSame(Say(q, m), p)
<1>1. p.out \in Seq(PageMessages)
  BY DEF Pages
<1>2. Say(q, m).out = Append(p.out, m)
  BY DEF Say, Pages, BoxSame
<1>3. /\ Say(q, m).reply = p.reply /\ Say(q, m).replySending = p.replySending
      /\ DraftSame(Say(q, m), p)
  BY DEF Say, Pages, BoxSame, DraftSame
<1>4. Still("send", Say(q, m).out, p.out, 0)
  BY <1>1, <1>2, StillSaid
<1>. QED BY <1>3, <1>4 DEF PageStill

LEMMA PageActsBox ==
  ASSUME NEW p \in Pages
  PROVE  /\ \A c \in Convs : PageStill(PickConversation(p, c), p) /\ DraftSame(PickConversation(p, c), p)
         /\ PageStill(PressRefresh(p), p) /\ DraftSame(PressRefresh(p), p)
         /\ PageStill(PressReload(p), p) /\ DraftSame(PressReload(p), p)
         /\ \A o \in Own : PageStill(EditPost(p, o), p)
         /\ CanPost(p) => PageStill(PressPost(p), p) /\ DraftSame(PressPost(p), p)
         /\ \A id \in Ids : PageStill(StartEdit(p, id), p) /\ DraftSame(StartEdit(p, id), p)
         /\ CanSave(p) => PageStill(SaveEdit(p), p) /\ DraftSame(SaveEdit(p), p)
         /\ PageStill(CancelEdit(p), p) /\ DraftSame(CancelEdit(p), p)
         /\ \A id \in Ids : PageStill(PressDelete(p, id), p) /\ DraftSame(PressDelete(p, id), p)
<1>0. BoxSame(p, p) /\ DraftSame(p, p)
  BY DEF BoxSame, DraftSame
<1>3. ASSUME NEW c \in Convs PROVE PageStill(PickConversation(p, c), p) /\ DraftSame(PickConversation(p, c), p)
  <2>. DEFINE m == [type |-> "selectConversation", conv |-> c]
              q == [p EXCEPT !.selected = c]
  <2>1. m \in PageMessages /\ m.type # "send"
    BY DEF PageMessages
  <2>2. q \in Pages
    BY DEF Pages
  <2>3. BoxSame(q, p) /\ DraftSame(q, p)
    BY DEF Pages, BoxSame, DraftSame
  <2>4. PickConversation(p, c) = Say(q, m)
    BY DEF PickConversation
  <2>. HIDE DEF m, q
  <2>. QED BY <2>1, <2>2, <2>3, <2>4, SaysStill
<1>4. /\ PageStill(PressRefresh(p), p) /\ DraftSame(PressRefresh(p), p)
      /\ PageStill(PressReload(p), p) /\ DraftSame(PressReload(p), p)
  <2>1. [type |-> "refresh"] \in PageMessages /\ [type |-> "reloadDraft"] \in PageMessages
    BY DEF PageMessages
  <2>. QED BY <1>0, <2>1, SaysStill DEF PressRefresh, PressReload
<1>5. ASSUME NEW o \in Own PROVE PageStill(EditPost(p, o), p)
  <2>1. BoxSame(EditPost(p, o), p)
    BY DEF EditPost, Pages, BoxSame
  <2>. QED BY <2>1, BoxStill
<1>6. ASSUME CanPost(p) PROVE PageStill(PressPost(p), p) /\ DraftSame(PressPost(p), p)
  <2>. DEFINE m == [type |-> "post", text |-> p.draft]
              q == [p EXCEPT !.postBusy = TRUE]
  <2>0. p.draft \in Posts
    BY <1>6 DEF CanPost, Pages
  <2>1. m \in PageMessages /\ m.type # "send"
    BY <2>0 DEF PageMessages
  <2>2. q \in Pages
    BY DEF Pages
  <2>3. BoxSame(q, p) /\ DraftSame(q, p)
    BY DEF Pages, BoxSame, DraftSame
  <2>4. PressPost(p) = Say(q, m)
    BY DEF PressPost
  <2>. HIDE DEF m, q
  <2>. QED BY <2>1, <2>2, <2>3, <2>4, SaysStill
<1>7. ASSUME NEW id \in Ids PROVE PageStill(StartEdit(p, id), p) /\ DraftSame(StartEdit(p, id), p)
  <2>1. BoxSame(StartEdit(p, id), p) /\ DraftSame(StartEdit(p, id), p)
    BY DEF StartEdit, Pages, BoxSame, DraftSame
  <2>. QED BY <2>1, BoxStill
<1>8. ASSUME CanSave(p) PROVE PageStill(SaveEdit(p), p) /\ DraftSame(SaveEdit(p), p)
  <2>. DEFINE m == [type |-> "edit", id |-> p.edit.id]
              q == [p EXCEPT !.edit.busy = TRUE]
  <2>0. p.edit.id \in Ids
    BY <1>8 DEF CanSave, Pages
  <2>1. m \in PageMessages /\ m.type # "send"
    BY <2>0 DEF PageMessages
  <2>2. q \in Pages
    BY DEF Pages
  <2>3. BoxSame(q, p) /\ DraftSame(q, p)
    BY DEF Pages, BoxSame, DraftSame
  <2>4. SaveEdit(p) = Say(q, m)
    BY DEF SaveEdit
  <2>. HIDE DEF m, q
  <2>. QED BY <2>1, <2>2, <2>3, <2>4, SaysStill
<1>9. PageStill(CancelEdit(p), p) /\ DraftSame(CancelEdit(p), p)
  <2>1. BoxSame(CancelEdit(p), p) /\ DraftSame(CancelEdit(p), p)
    BY DEF CancelEdit, Pages, BoxSame, DraftSame
  <2>. QED BY <2>1, BoxStill
<1>10. ASSUME NEW id \in Ids PROVE PageStill(PressDelete(p, id), p) /\ DraftSame(PressDelete(p, id), p)
  <2>. DEFINE m == [type |-> "delete", id |-> id]
  <2>1. m \in PageMessages /\ m.type # "send"
    BY DEF PageMessages
  <2>2. PressDelete(p, id) = Say(p, m)
    BY DEF PressDelete
  <2>. HIDE DEF m
  <2>. QED BY <1>0, <2>1, <2>2, SaysStill
<1>. QED BY <1>3, <1>4, <1>5, <1>6, <1>7, <1>8, <1>9, <1>10

-----------------------------------------------------------------------------
(* Every step but seven leaves the reply alone, every step but three the draft. *)

LEMMA PastSame ==
  ASSUME NEW h, past \in Pasts, Step(h, past)
  PROVE  host' = h /\ PastStill(past', past) /\ past'.published = past.published /\ past'.risky = past.risky
BY StepPast

LEMMA HostStays ==
  ASSUME Inv
  PROVE  HostStill(host, host) /\ PageStill(page, page) /\ PastStill(past, past) /\ DraftSame(page, page)
<1>1. page \in Pages /\ host \in Hosts
  BY DEF Inv, HostInv, HostOK
<1>. QED BY <1>1, PageSame, QuietSame, QuietStill DEF PastStill, DraftSame

\* The user's acts on the page.
LEMMA UserActsApart ==
  ASSUME Inv, NEW p, NEW kind, UserActs(p, kind), PageStill(p, page)
  PROVE  Apart /\ (DraftSame(p, page) => DraftKept)
<1>1. page' = p /\ host' = host /\ past' = past
  BY DEF UserActs, OnPage
<1>. QED BY <1>1, HostStays DEF Apart, DraftKept

\* A handler of the host that a timer or the user starts.
LEMMA ByHostApart ==
  ASSUME Inv, NEW h, Quiet(h, host), page' = page, Step(h, past)
  PROVE  Apart /\ DraftKept
<1>1. /\ host' = h /\ PastStill(past', past)
      /\ past'.published = past.published /\ past'.risky = past.risky
  BY PastSame DEF Inv, HostInv
<1>. QED BY <1>1, QuietStill, HostStays DEF Apart, DraftKept

LEMMA UserApart ==
  ASSUME Inv, UserNext
  PROVE  /\ Apart \/ ClickSend \/ SwitchLanguage \/ \E t \in Texts : WriteReply(t) \/ PutWhileSending(t)
         /\ DraftKept \/ TypePost
<1>0. page \in Pages /\ HostOK(host) /\ host \in Hosts
  BY DEF Inv, HostInv, HostOK
<1>1. ASSUME NEW t \in Texts, WriteReply(t) \/ PutWhileSending(t) PROVE DraftKept
  <2>. DEFINE w == past.written \cup {t}
              l == past'.letGo
  <2>1. page' = PutReply(page, t)
    BY <1>1 DEF WriteReply, PutWhileSending, OnPage
  <2>2. past'.published = past.published /\ past'.risky = past.risky
    BY <1>1 DEF WriteReply, PutWhileSending, Inv, HostInv, Pasts
  <2>. QED BY <1>0, <2>1, <2>2 DEF PutReply, Pages, DraftKept, DraftSame
<1>2. CASE ClickSend
  <2>1. page' = PressSend(page) /\ past' = past
    BY <1>2 DEF ClickSend, UserActs, OnPage
  <2>2. DraftSame(page', page)
    BY <1>0, <2>1 DEF PressSend, Say, Pages, DraftSame
  <2>. QED BY <1>2, <2>1, <2>2 DEF DraftKept
<1>3. CASE ClickConversation
  <2>1. PICK c \in Convs : UserActs(PickConversation(page, c), "pick")
    BY <1>3 DEF ClickConversation
  <2>. QED BY <1>0, <2>1, PageActsBox, UserActsApart
<1>4. CASE ClickRefresh
  BY <1>0, <1>4, PageActsBox, UserActsApart DEF ClickRefresh
<1>5. CASE ClickReload
  BY <1>0, <1>5, PageActsBox, UserActsApart DEF ClickReload
<1>6. CASE TypePost
  BY <1>0, <1>6, PageActsBox, UserActsApart DEF TypePost
<1>7. CASE ClickPost
  BY <1>0, <1>7, PageActsBox, UserActsApart DEF ClickPost
<1>8. CASE OpenEdit
  <2>1. PICK id \in Ids : UserActs(StartEdit(page, id), "change")
    BY <1>8 DEF OpenEdit
  <2>. QED BY <1>0, <2>1, PageActsBox, UserActsApart
<1>9. CASE ClickSave
  BY <1>0, <1>9, PageActsBox, UserActsApart DEF ClickSave
<1>10. CASE EscapeEdit
  BY <1>0, <1>10, PageActsBox, UserActsApart DEF EscapeEdit
<1>11. CASE ClickDelete
  <2>1. PICK id \in Ids : UserActs(PressDelete(page, id), "change")
    BY <1>11 DEF ClickDelete
  <2>. QED BY <1>0, <2>1, PageActsBox, UserActsApart
<1>12. CASE ShowTab
  <2>1. PICK stale \in BOOLEAN : ByHost(Activate(host, stale), "look")
    BY <1>12 DEF ShowTab
  <2>. QED BY <1>0, <2>1, QuietActivate, ByHostApart DEF ByHost
<1>13. CASE PollTick
  BY <1>0, <1>13, QuietReadAsync, ByHostApart DEF PollTick, OnPollTick, ByHost
<1>14. CASE SwitchLanguage
  <2>1. page' = page /\ past'.published = past.published /\ past'.risky = past.risky
    BY <1>14, PastSame DEF SwitchLanguage, ByHost, Inv, HostInv
  <2>. QED BY <1>14, <2>1 DEF DraftKept, DraftSame
<1>15. CASE RewriteDraft
  <2>1. PICK d \in Drafts : ByHost([host EXCEPT !.file = d], "rewrite")
    BY <1>15 DEF RewriteDraft
  <2>. DEFINE h == [host EXCEPT !.file = d]
  <2>2. h \in Hosts
    BY ZenonT(60), <1>0 DEF Hosts
  <2>3. h.out = host.out /\ h.send = host.send /\ h.sendState = host.sendState
    BY <1>0 DEF Hosts
  <2>4. ByHost(h, "rewrite")
    BY <2>1
  <2>. HIDE DEF h
  <2>. QED BY <1>0, <2>2, <2>3, <2>4, QuietField, ByHostApart DEF ByHost
<1>16. CASE AnswerDialog
  <2>1. PICK id \in host.asking, yes \in BOOLEAN :
          Step(ConfirmDelete(host, id, yes), past) /\ UNCHANGED <<page, teams, left>>
    BY <1>16 DEF AnswerDialog
  <2>2. id \in Ids
    BY <1>0, <2>1 DEF Hosts
  <2>. QED BY <1>0, <2>1, <2>2, QuietConfirm, ByHostApart
<1>. QED BY <1>1, <1>2, <1>3, <1>4, <1>5, <1>6, <1>7, <1>8, <1>9, <1>10, <1>11, <1>12, <1>13,
            <1>14, <1>15, <1>16 DEF UserNext

\* A message of the page that is no "send".
LEMMA TookApart ==
  ASSUME Inv, page.out # <<>>, Message.type # "send", NEW h, Quiet(h, host),
         NEW p \in Pasts, PastStill(p, past), p.published = past.published, p.risky = past.risky, Took(h, p)
  PROVE  Apart /\ DraftKept
<1>0. page \in Pages /\ page.out \in Seq(PageMessages)
  BY DEF Inv, Pages
<1>1. page' = [page EXCEPT !.out = Tail(@)] /\ Step(h, p)
  BY DEF Took
<1>2. /\ page'.reply = page.reply /\ page'.replySending = page.replySending
      /\ page'.out = Tail(page.out) /\ DraftSame(page', page)
  BY <1>0, <1>1 DEF Pages, DraftSame
<1>3. Still("send", page'.out, page.out, 1)
  BY <1>0, <1>2, StillHeard DEF Message
<1>4. /\ host' = h /\ PastStill(past', p)
      /\ past'.published = p.published /\ past'.risky = p.risky
  BY <1>1, StepPast
<1>5. PageStill(page', page) /\ HostStill(host', host) /\ PastStill(past', past)
  BY <1>2, <1>3, <1>4, QuietStill DEF PageStill, PastStill
<1>. QED BY <1>2, <1>4, <1>5 DEF Apart, DraftKept

LEMMA HostHearsApart ==
  ASSUME Inv, HostHears
  PROVE  DraftKept /\ (Apart \/ HearSend)
<1>0. /\ page \in Pages /\ HostOK(host) /\ host \in Hosts /\ past \in Pasts
      /\ PastStill(past, past)
  BY HostStays DEF Inv, HostInv, HostOK
<1>1. ASSUME page.out # <<>> PROVE Message \in PageMessages
  BY <1>0, <1>1, PageDrops DEF Message
<1>2. CASE HearRefresh
  BY <1>0, <1>2, QuietReadAsync, TookApart DEF HearRefresh, Asked
<1>3. CASE HearSelect
  <2>1. Message.conv \in Convs
    BY <1>1, <1>3, PageMessageTypes DEF HearSelect, Asked
  <2>. QED BY <1>0, <1>3, <2>1, QuietSelect, TookApart DEF HearSelect, Asked
<1>4. CASE HearReload
  BY <1>0, <1>4, QuietDraft, TookApart DEF HearReload, Asked
<1>5. CASE HearSend
  <2>1. page' = [page EXCEPT !.out = Tail(@)] /\ past'.published = past.published /\ past'.risky = past.risky
    BY <1>0, <1>5, StepPast DEF HearSend, Took
  <2>2. DraftSame(page', page)
    BY <1>0, <2>1 DEF Pages, DraftSame
  <2>. QED BY <1>5, <2>1, <2>2 DEF DraftKept
<1>6. CASE HearEdit
  <2>1. Message.id \in Ids
    BY <1>1, <1>6, PageMessageTypes DEF HearEdit, Asked
  <2>. QED BY <1>0, <1>6, <2>1, QuietChange, TookApart DEF HearEdit, Asked
<1>7. CASE HearDelete
  <2>1. Message.id \in Ids
    BY <1>1, <1>7, PageMessageTypes DEF HearDelete, Asked
  <2>. DEFINE ids == host.asking \cup {Message.id}
  <2>2. AskDelete(host, Message.id) = [host EXCEPT !.asking = ids] /\ ids \in SUBSET Ids
    BY ZenonT(60), <1>0, <2>1 DEF AskDelete, Hosts
  <2>. HIDE DEF ids
  <2>3. Quiet(AskDelete(host, Message.id), host)
    BY <1>0, <2>2, QuietAsking
  <2>. QED BY <1>0, <1>7, <2>3, TookApart DEF HearDelete, Asked
<1>8. CASE HearPost
  <2>. DEFINE h == PostToTeamsAsync(host, Message.text)
              w == past.warned \/ (h.warned # host.warned /\ h.postState = "warning")
              p == [past EXCEPT !.warned = w]
  <2>1. Message.text \in Posts /\ page.out # <<>> /\ Message.type = "post"
    BY <1>1, <1>8, PageMessageTypes DEF HearPost, Asked
  <2>2. Took(h, p) /\ Quiet(h, host)
    BY <1>0, <1>8, <2>1, QuietPost DEF HearPost
  <2>3. w \in BOOLEAN
    BY <1>0 DEF Pasts
  <2>. HIDE DEF w
  <2>4. p \in Pasts /\ PastStill(p, past) /\ p.published = past.published /\ p.risky = past.risky
    BY <1>0, <2>3 DEF Pasts, PastStill
  <2>. HIDE DEF h, p
  <2>. QED BY <1>0, <2>1, <2>2, <2>4, TookApart
<1>. QED BY <1>2, <1>3, <1>4, <1>5, <1>6, <1>7, <1>8 DEF HostHears

\* A message of the host that is no "sendState".
LEMMA ShownApart ==
  ASSUME Inv, host.out # <<>>, News.type # "sendState", NEW p, Shown(p), BoxSame(p, page), PastStill(past', past)
  PROVE  Apart /\ page' = p
<1>0. page \in Pages /\ host \in Hosts /\ host.out \in Seq(HostMessages)
  BY OutOK DEF Inv, HostInv, HostOK
<1>1. page' = p /\ host' = [host EXCEPT !.out = Tail(@)]
  BY DEF Shown
<1>2. host'.send = host.send /\ host'.sendState = host.sendState /\ host'.out = Tail(host.out)
  BY <1>0, <1>1 DEF Hosts
<1>3. Still("sendState", host'.out, host.out, 1)
  BY <1>0, <1>2, StillHeard DEF News
<1>4. PageStill(page', page) /\ HostStill(host', host)
  BY <1>0, <1>1, <1>2, <1>3, BoxStill DEF HostStill
<1>. QED BY <1>1, <1>4 DEF Apart

LEMMA PageHearsApart ==
  ASSUME Inv, PageHears
  PROVE  (Apart \/ PageSendState) /\ (DraftKept \/ PageDraft \/ PagePostState)
<1>0. page \in Pages /\ host \in Hosts /\ past \in Pasts /\ PastStill(past, past)
  BY HostStays DEF Inv, HostInv, HostOK
<1>1. host.out # <<>> /\ News \in HostMessages
  <2>1. host.out # <<>>
    BY DEF PageHears, PageState, PageThread, PageConversations, PageEditState, PageDeleteState,
           PageDraft, PageSendState, PagePostState, Told
  <2>. QED BY <1>0, <2>1, HostDrops DEF News
<1>2. CASE PageState \/ PageThread \/ PageConversations \/ PageEditState \/ PageDeleteState
  <2>1. past' = past /\ News.type # "sendState"
    BY <1>2 DEF PageState, PageThread, PageConversations, PageEditState, PageDeleteState, Told
  <2>2. \E p : Shown(p) /\ BoxSame(p, page) /\ DraftSame(p, page)
    BY <1>0, <1>1, <1>2, PageShowsBox
       DEF PageState, PageThread, PageConversations, PageEditState, PageDeleteState, Told
  <2>3. PICK p : Shown(p) /\ BoxSame(p, page) /\ DraftSame(p, page)
    BY <2>2
  <2>4. Apart /\ page' = p
    BY <1>0, <1>1, <2>1, <2>3, ShownApart
  <2>. QED BY <2>1, <2>3, <2>4 DEF DraftKept
<1>3. CASE PageDraft
  <2>. DEFINE r == past.risky /\ ~TakesDraft(page, News)
              p == ShowDraft(page, News)
  <2>1. past' = [past EXCEPT !.risky = r] /\ News.type = "draft" /\ Shown(p)
    BY <1>3 DEF PageDraft, Told
  <2>2. BoxSame(p, page)
    BY <1>0, <1>1, <2>1, PageShowsBox
  <2>. HIDE DEF r, p
  <2>3. PastStill(past', past)
    BY <1>0, <2>1 DEF Pasts, PastStill
  <2>4. Apart
    BY <1>1, <2>1, <2>2, <2>3, ShownApart
  <2>. QED BY <1>3, <2>4
<1>4. CASE PageSendState
  <2>1. DraftKept
    BY <1>4, PageSendStateDoes DEF DraftKept, DraftSame
  <2>. QED BY <1>4, <2>1
<1>5. CASE PagePostState
  <2>. DEFINE r == past.risky \/ (News.kind = "sent" /\ page.draft \notin past.published)
              p == ShowPostStateOnPage(page, News)
  <2>1. past' = [past EXCEPT !.risky = r] /\ News.type = "postState" /\ Shown(p)
    BY <1>5 DEF PagePostState, Told
  <2>2. BoxSame(p, page)
    BY <1>0, <1>1, <2>1, PageShowsBox
  <2>. HIDE DEF r, p
  <2>3. PastStill(past', past)
    BY <1>0, <2>1 DEF Pasts, PastStill
  <2>4. Apart
    BY <1>1, <2>1, <2>2, <2>3, ShownApart
  <2>. QED BY <1>5, <2>4
<1>. QED BY <1>2, <1>3, <1>4, <1>5 DEF PageHears

\* Teams answers another call than a send.
LEMMA AnswerApart ==
  ASSUME Inv, host'.send = host.send, host'.sendState = host.sendState, host'.out = host.out,
         page' = page, PastStill(past', past)
  PROVE  Apart
<1>0. host \in Hosts /\ host.out \in Seq(HostMessages)
  BY OutOK DEF Inv, HostInv, HostOK
<1>1. Still("sendState", host'.out, host.out, 0)
  BY <1>0, StillSame
<1>2. HostStill(host', host)
  BY <1>1 DEF HostStill
<1>. QED BY <1>2, HostStays DEF Apart

LEMMA ServesApart ==
  ASSUME Inv, Serves
  PROVE  DraftKept /\ (Apart \/ ServeSend)
<1>0. host \in Hosts /\ past \in Pasts
  BY DEF Inv, HostInv, HostOK
<1>1. CASE ServeRead
  <2>1. PICK r : /\ host' = [host EXCEPT !.read.stage = "served", !.read.result = r]
                 /\ page' = page /\ past' = past
    BY <1>1 DEF ServeRead
  <2>2. /\ host'.send = host.send /\ host'.sendState = host.sendState /\ host'.out = host.out
        /\ page' = page /\ past' = past
    BY <1>0, <2>1 DEF Hosts
  <2>. QED BY <2>2, AnswerApart, HostStays DEF DraftKept
<1>2. CASE ServeWait
  <2>1. PICK r : /\ host' = [host EXCEPT !.wait.stage = "served", !.wait.result = r]
                 /\ page' = page /\ past' = past
    BY <1>2 DEF ServeWait
  <2>2. /\ host'.send = host.send /\ host'.sendState = host.sendState /\ host'.out = host.out
        /\ page' = page /\ past' = past
    BY <1>0, <2>1 DEF Hosts
  <2>. QED BY <2>2, AnswerApart, HostStays DEF DraftKept
<1>3. CASE ServeSend
  <2>1. page' = page /\ past'.published = past.published /\ past'.risky = past.risky
    BY <1>3, ServeSendDoes
  <2>. QED BY <1>3, <2>1 DEF DraftKept, DraftSame
<1>4. CASE ServePost
  <2>1. PICK o \in Outcomes :
          /\ host' = [host EXCEPT !.post.stage = "served", !.post.answer = AnswerOf(o)]
          /\ past' = IF ~IsDone(o) THEN past
                     ELSE [past EXCEPT !.posts = @ + 1, !.warned = FALSE,
                             !.published = @ \cup {host.post.text},
                             !.acked = {a \in @ : a.conv # Post}]
          /\ page' = page
    BY <1>4 DEF ServePost
  <2>2. host'.send = host.send /\ host'.sendState = host.sendState /\ host'.out = host.out
    BY <1>0, <2>1 DEF Hosts
  <2>. DEFINE pb == past.published \cup {host.post.text}
              ak == {a \in past.acked : a.conv # Post}
              ps == past.posts + 1
  <2>3. past' = IF ~IsDone(o) THEN past
                ELSE [past EXCEPT !.posts = ps, !.warned = FALSE, !.published = pb, !.acked = ak]
    BY <2>1
  <2>4. past.published \subseteq pb
    OBVIOUS
  <2>. HIDE DEF pb, ak, ps
  <2>5. /\ PastStill(past', past) /\ past.published \subseteq past'.published
        /\ past'.risky = past.risky
    BY <1>0, <2>3, <2>4 DEF Pasts, PastStill
  <2>. QED BY <2>1, <2>2, <2>5, AnswerApart, HostStays DEF DraftKept
<1>5. CASE ServeChange
  <2>. DEFINE c == host.change
              dropsPost == c.what = "delete" /\ c.id = "root"
              ak == IF dropsPost THEN {a \in past.acked : a.conv # Post}
                    ELSE Forgotten(past.acked, c.conv, c.id)
  <2>0. PICK o \in Outcomes :
          /\ \E r : host' = [host EXCEPT !.change.stage = "served", !.change.answer = AnswerOf(o),
                               !.change.after = r]
          /\ past' = IF ~IsDone(o) THEN past ELSE [past EXCEPT !.acked = ak]
          /\ page' = page
    BY <1>5 DEF ServeChange
  <2>. HIDE DEF ak
  <2>1. PICK r : host' = [host EXCEPT !.change.stage = "served", !.change.answer = AnswerOf(o),
                            !.change.after = r]
    BY <2>0
  <2>2. /\ host'.send = host.send /\ host'.sendState = host.sendState /\ host'.out = host.out
        /\ page' = page
    BY <1>0, <2>0, <2>1 DEF Hosts
  <2>3. /\ PastStill(past', past) /\ past'.published = past.published
        /\ past'.risky = past.risky
    BY <1>0, <2>0 DEF Pasts, PastStill
  <2>. QED BY <2>2, <2>3, AnswerApart, HostStays DEF DraftKept
<1>. QED BY <1>1, <1>2, <1>3, <1>4, <1>5 DEF Serves

\* A continuation of the host, but for the one of a send.
LEMMA LandsApart ==
  ASSUME Inv, NEW call, NEW h, Quiet(h, host), NEW p \in Pasts, PastStill(p, past),
         p.published = past.published, p.risky = past.risky, Lands(call, h, p)
  PROVE  Apart /\ DraftKept
<1>1. page' = page /\ Step(h, p)
  BY DEF Lands
<1>2. host' = h /\ PastStill(past', p) /\ past'.published = p.published /\ past'.risky = p.risky
  BY <1>1, StepPast
<1>3. PastStill(past', past)
  BY <1>2 DEF PastStill
<1>. QED BY <1>1, <1>2, <1>3, QuietStill, HostStays DEF Apart, DraftKept

LEMMA HostLandsApart ==
  ASSUME Inv, HostLands
  PROVE  DraftKept /\ (Apart \/ SendLands)
<1>0. HostOK(host) /\ host \in Hosts /\ past \in Pasts /\ PastStill(past, past)
  BY HostStays DEF Inv, HostInv, HostOK
<1>1. CASE ReadLands
  <2>. DEFINE h == ReadLanded(host)
              crossed == past.crossed /\ ~(AppliesRead(host) /\ ~ChatGone(host, host.read.result))
              p == [past EXCEPT !.crossed = crossed]
  <2>1. Lands(host.read, h, p) /\ host.read.stage = "served"
    BY <1>1 DEF ReadLands, Lands
  <2>2. Quiet(h, host)
    BY <1>0, <2>1, QuietReadLanded
  <2>3. crossed \in BOOLEAN
    BY <1>0 DEF Pasts
  <2>. HIDE DEF h, crossed
  <2>4. p \in Pasts /\ PastStill(p, past) /\ p.published = past.published /\ p.risky = past.risky
    BY <1>0, <2>3 DEF Pasts, PastStill
  <2>. HIDE DEF p
  <2>. QED BY <2>1, <2>2, <2>4, LandsApart
<1>2. CASE WaitLands
  <2>1. Lands(host.wait, WaitLanded(host), past) /\ host.wait.stage = "served"
    BY <1>2 DEF WaitLands, Lands
  <2>. QED BY <1>0, <2>1, QuietWaitLanded, LandsApart
<1>3. CASE SendLands
  <2>. DEFINE s == host.send
              told == IF SendLanded(host).sendState = "uncertain" THEN past.told \cup {s.text} ELSE past.told
              acked == IF s.answer = "sent"
                       THEN Forgotten(past.acked, s.conv, s.text)
                              \cup {[conv |-> s.conv, id |-> s.text, ver |-> "first"]}
                       ELSE past.acked
              p == [past EXCEPT !.told = told, !.acked = acked]
  <2>1. page' = page /\ Step(SendLanded(host), p)
    BY <1>3 DEF SendLands, Lands
  <2>. HIDE DEF told, acked, s
  <2>2. past'.published = past.published /\ past'.risky = past.risky
    <3>. DEFINE h == SendLanded(host)
                c == p.crossed \/ Crossing(h)
                o == p.overlap \/ Overlapping(h)
    <3>1. past' = [p EXCEPT !.crossed = c, !.overlap = o]
      BY <2>1 DEF Step
    <3>. HIDE DEF c, o
    <3>. QED BY <1>0, <3>1 DEF Pasts
  <2>. QED BY <1>3, <2>1, <2>2, HostStays DEF DraftKept
<1>4. CASE PostLands
  <2>1. Lands(host.post, PostLanded(host), past) /\ host.post.stage = "served"
    BY <1>4 DEF PostLands, Lands
  <2>. QED BY <1>0, <2>1, QuietPostLanded, LandsApart
<1>5. CASE ChangeLands
  <2>. DEFINE c == host.change
              h == ApplyChangeResult(host)
              ver == IF c.what = "edit" THEN "edited" ELSE "gone"
              acked == IF c.answer = "sent" /\ c.id # "root"
                       THEN past.acked \cup {[conv |-> c.conv, id |-> c.id, ver |-> ver]} ELSE past.acked
              p == [past EXCEPT !.acked = acked]
  <2>1. Lands(c, h, p) /\ c.stage = "served"
    BY <1>5 DEF ChangeLands, Lands
  <2>2. Quiet(h, host)
    BY <1>0, <2>1, QuietChangeLanded
  <2>3. c.conv \in Convs /\ c.id \in Ids
    BY <1>0, <2>1 DEF HostOK, Answering, CallsFilled, Busy
  <2>4. acked \in SUBSET [conv : Convs, id : Ids, ver : {"first", "edited", "gone"}]
    <3>1. past.acked \in SUBSET [conv : Convs, id : Ids, ver : {"first", "edited", "gone"}]
      BY <1>0 DEF Pasts
    <3>2. ver \in {"first", "edited", "gone"}
      OBVIOUS
    <3>. QED BY <1>0, <2>3, <3>1, <3>2, AckedOK
  <2>. HIDE DEF c, h, acked
  <2>5. p \in Pasts /\ PastStill(p, past) /\ p.published = past.published /\ p.risky = past.risky
    BY <1>0, <2>4 DEF Pasts, PastStill
  <2>. HIDE DEF p
  <2>. QED BY <2>1, <2>2, <2>5, LandsApart
<1>. QED BY <1>1, <1>2, <1>3, <1>4, <1>5 DEF HostLands

LEMMA SwitchReply ==
  ASSUME Inv, ReplyInv(page, host, past), SwitchLanguage
  PROVE  ReplyInv(page', host', past')
<1>0. page \in Pages /\ HostOK(host) /\ past \in Pasts
  BY DEF Inv, HostInv
<1>1. page' = page /\ Step(OnLanguageChanged(host), past)
  BY DEF SwitchLanguage, ByHost
<1>2. host' = OnLanguageChanged(host) /\ PastStill(past', past)
  BY <1>0, <1>1, PastSame
<1>3. ReplyInv(page, OnLanguageChanged(host), past)
  BY <1>0, LanguageReply
<1>. QED BY <1>1, <1>2, <1>3, StillPast

\* Whatever is done, the reply is where the invariant says.
LEMMA NextApart ==
  ASSUME Inv, [Next]_vars
  PROVE  /\ \/ Apart
            \/ \E t \in Texts : WriteReply(t) \/ PutWhileSending(t)
            \/ ClickSend \/ SwitchLanguage \/ HearSend \/ PageSendState \/ ServeSend \/ SendLands
         /\ DraftKept \/ TypePost \/ PageDraft \/ PagePostState
<1>1. CASE UNCHANGED vars
  BY <1>1, HostStays DEF vars, Apart, DraftKept
<1>2. CASE Elsewhere
  BY <1>2, HostStays DEF Elsewhere, Apart, DraftKept
<1>. QED BY <1>1, <1>2, UserApart, HostHearsApart, PageHearsApart, ServesApart, HostLandsApart DEF Next

LEMMA ReplyStep ==
  ASSUME Inv, Inv', ReplyInv(page, host, past), [Next]_vars
  PROVE  ReplyInv(page', host', past')
<1>1. CASE Apart
  <2>1. page \in Pages /\ page' \in Pages /\ host \in Hosts /\ host' \in Hosts
    BY DEF Inv, HostInv, HostOK
  <2>. QED BY <1>1, <2>1, StillReply DEF Apart
<1>2. ASSUME NEW t \in Texts, WriteReply(t) \/ PutWhileSending(t) PROVE ReplyInv(page', host', past')
  BY <1>2, WritesReply
<1>. QED BY <1>1, <1>2, ClickSendReply, SwitchReply, HearSendReply, PageSendStateReply, ServeSendReply,
            SendLandsReply, NextApart

LEMMA InitReply == Init => ReplyInv(page, host, past)
<1>. SUFFICES ASSUME NEW s \in Starts, page = PageAtStart,
                     host = HostAtStart(s.chosen, s.file, s.posted), past = PastAtStart(s.posted)
              PROVE  ReplyInv(page, host, past)
  BY DEF Init
<1>1. /\ page.reply = "" /\ ~page.replySending /\ page.out = <<>>
      /\ host.send = IdleSend /\ host.sendState = "" /\ host.out = <<>>
  BY DEF PageAtStart, HostAtStart
<1>2. /\ past.copies = [t \in Texts |-> 0] /\ past.written = {} /\ past.letGo = {}
  BY DEF PastAtStart
<1>3. ~Busy(IdleSend) /\ IdleSend.text = ""
  BY IdleFacts DEF IdleSend
<1>4. DOMAIN page.out = {} /\ DOMAIN host.out = {}
  <2>1. DOMAIN <<>> = {}
    OBVIOUS
  <2>. QED BY ONLY <1>1, <2>1
<1>5. \A t \in Texts : ~(past.copies[t] > 0)
  <2>. SUFFICES ASSUME NEW t \in Texts PROVE ~(past.copies[t] > 0)
    OBVIOUS
  <2>1. past.copies[t] = 0
    BY ONLY <1>2
  <2>. QED BY ONLY <2>1
<1>6. InTeams(past) = {} /\ Covered(page, past) = {}
  BY <1>1, <1>2, <1>5, Words DEF InTeams, Covered
<1>7. Accounted(page, host, past) /\ SendKnown(host)
  BY <1>1, <1>2, <1>3, <1>4, <1>6 DEF Accounted, SendKnown
<1>8. Unsent(page, host) /\ OnlyOnce(page, host, past)
  BY <1>1, <1>3, <1>4, <1>5 DEF Unsent, NoSend, Calm, OnlyOnce
<1>. QED BY <1>7, <1>8 DEF ReplyInv, InOrder

LEMMA ReplyInvariant == Spec => []ReplyKnown
<1>1. Init => ReplyKnown
  BY InitReply DEF ReplyKnown
<1>2. Inv /\ Inv' /\ ReplyKnown /\ [Next]_vars => ReplyKnown'
  BY ReplyStep DEF ReplyKnown
<1>. QED BY <1>1, <1>2, Invariant, PTL DEF Spec

\* A reply goes up a second time only after the user was told that the first may
\* have gone up: whatever is answered, repeated or late, SendAsync is not run
\* twice for one press of Send, and the box is freed only by the answer of its send.
THEOREM TwiceOnlyWhenTold == Spec => []TwiceOnlyIfTold
<1>1. Inv /\ ReplyKnown => TwiceOnlyIfTold
  <2>. SUFFICES ASSUME Inv, ReplyKnown, ~past.misled, NEW t \in Texts, past.copies[t] > 1, t \notin past.told
       PROVE FALSE
    BY DEF TwiceOnlyIfTold
  <2>1. past.copies[t] \in Nat
    BY DEF Inv, HostInv, Pasts
  <2>2. OnlyOnce(page, host, past) /\ past.copies[t] > 0
    BY <2>1 DEF ReplyKnown, ReplyInv, InOrder
  <2>3. past.copies[t] = 1
    BY <2>2 DEF OnlyOnce
  <2>. QED BY <2>3
<1>. QED BY <1>1, Invariant, ReplyInvariant, PTL

-----------------------------------------------------------------------------
(* The reply box keeps the promise of Letters. *)

LEMMA InitPromise == Init => Promise!Init
<1>. SUFFICES ASSUME NEW posted, page = PageAtStart, past = PastAtStart(posted) PROVE Promise!Init
  BY DEF Init
<1>1. page.reply = "" /\ past.letGo = {} /\ past.copies = [t \in Texts |-> 0]
  BY DEF PageAtStart, PastAtStart
<1>2. ASSUME NEW t \in Texts PROVE ~(past.copies[t] > 0)
  <2>1. past.copies[t] = 0
    BY ONLY <1>1
  <2>. QED BY ONLY <2>1
<1>3. {t \in Texts : past.copies[t] > 0} = {}
  BY <1>2
<1>. QED BY <1>1, <1>3 DEF Promise!Init

\* A step that leaves the box, what is in Teams and what was let go.
LEMMA PromiseStutters ==
  ASSUME page'.reply = page.reply, past'.letGo = past.letGo, past'.copies = past.copies
  PROVE  UNCHANGED Promise!vars
BY DEF Promise!vars

LEMMA PromiseWrites ==
  ASSUME Inv, ReplyKnown, NEW t \in Texts, WriteReply(t) \/ PutWhileSending(t)
  PROVE  Promise!Write(t) \/ Promise!Interrupt(t)
<1>. DEFINE w == past.written \cup {t}
            l == IF page.replySending THEN past.letGo \cup Word(page.reply) \cup {t}
                 ELSE past.letGo \cup Word(page.reply)
<1>0. page \in Pages /\ past \in Pasts
  BY DEF Inv, HostInv
<1>1. page' = PutReply(page, t) /\ t \notin past.written
  BY DEF WriteReply, PutWhileSending, OnPage
<1>2. past' = [past EXCEPT !.written = w, !.letGo = l]
  BY DEF WriteReply, PutWhileSending, CanWrite
<1>3. page'.reply = t
  BY <1>0, <1>1 DEF PutReply, Pages
<1>4. past'.letGo = l /\ past'.copies = past.copies
  BY <1>0, <1>2 DEF Pasts
<1>5. t \notin Word(page.reply) \cup InTeams(past) \cup past.letGo
  BY <1>1 DEF ReplyKnown, ReplyInv, Accounted, Covered
<1>6. Promise!Boxed = Word(page.reply)
  BY DEF Promise!Boxed, Word
<1>7. CASE ~page.replySending
  BY <1>3, <1>4, <1>5, <1>6, <1>7 DEF Promise!Write, InTeams
<1>8. CASE page.replySending
  BY <1>3, <1>4, <1>5, <1>6, <1>8 DEF Promise!Interrupt, InTeams
<1>. QED BY <1>7, <1>8

LEMMA PromiseDelivers ==
  ASSUME Inv, ReplyKnown, ServeSend
  PROVE  Promise!Next \/ UNCHANGED Promise!vars
<1>. DEFINE text == host.send.text
<1>1. PICK o \in Outcomes :
           /\ host.send.stage = "asked" /\ text \in Texts
           /\ page' = page
           /\ past'.copies = [past.copies EXCEPT ![text] = IF IsDone(o) THEN @ + 1 ELSE @]
           /\ past'.letGo = past.letGo
  BY ServeSendDoes
<1>2. past.copies \in [Texts -> Nat]
  BY DEF Inv, HostInv, Pasts
<1>3. text \in Word(page.reply) \cup InTeams(past) \cup past.letGo
  BY <1>1 DEF ReplyKnown, ReplyInv, Accounted, Covered, Busy
<1>. HIDE DEF text
<1>4. CASE IsDone(o)
  <2>1. /\ \A t \in Texts : past.copies[t] \in Nat /\ (t # text => past'.copies[t] = past.copies[t])
        /\ past'.copies[text] = past.copies[text] + 1
    BY <1>1, <1>2, <1>4
  <2>2. ASSUME NEW t \in Texts PROVE past'.copies[t] > 0 <=> past.copies[t] > 0 \/ t = text
    BY <2>1
  <2>3. {t \in Texts : past'.copies[t] > 0} = {t \in Texts : past.copies[t] > 0} \cup {text}
    BY <1>1, <2>2
  <2>4. Promise!Boxed = Word(page.reply)
    BY DEF Promise!Boxed, Word
  <2>5. Promise!Deliver(text)
    BY <1>1, <1>3, <2>3, <2>4 DEF Promise!Deliver, InTeams
  <2>6. \E t \in Texts : Promise!Deliver(t)
    BY <1>1, <2>5 DEF Promise!Deliver
  <2>. QED BY <2>6 DEF Promise!Next
<1>5. CASE ~IsDone(o)
  <2>1. past'.copies = past.copies
    BY <1>1, <1>2, <1>5
  <2>. QED BY <1>1, <2>1, PromiseStutters
<1>. QED BY <1>4, <1>5

LEMMA PromiseClears ==
  ASSUME Inv, ReplyKnown, PageSendState
  PROVE  Promise!Next \/ UNCHANGED Promise!vars
<1>0. page.reply \in Texts \cup {""}
  BY DEF Inv, Pages
<1>1. /\ page'.reply = IF ClearsReply(page, News) THEN "" ELSE page.reply
      /\ past'.letGo = IF past'.misled /\ ClearsReply(page, News)
                       THEN past.letGo \cup Word(page.reply) ELSE past.letGo
      /\ past'.copies = past.copies
  BY PageSendStateDoes
<1>2. CASE ~ClearsReply(page, News) \/ page.reply = ""
  BY <1>1, <1>2, Words, PromiseStutters
<1>3. CASE ClearsReply(page, News) /\ past'.misled /\ page.reply # ""
  BY <1>0, <1>1, <1>3, Words DEF Promise!Mislay, Promise!Next
<1>4. CASE ClearsReply(page, News) /\ ~past'.misled
  <2>1. page.reply \in InTeams(past) \cup past.letGo
    BY <1>4, ClearedIsAnswered DEF ReplyKnown
  <2>. QED BY <1>1, <1>4, <2>1 DEF Promise!Clear, Promise!Next, InTeams
<1>. QED BY <1>2, <1>3, <1>4

\* Any other step of the reply's leaves the box.
LEMMA PromiseKept ==
  ASSUME Inv, Apart \/ ClickSend \/ SwitchLanguage \/ HearSend \/ SendLands
  PROVE  UNCHANGED Promise!vars
<1>0. page \in Pages /\ past \in Pasts
  BY DEF Inv, HostInv
<1>1. CASE Apart
  BY <1>1, PromiseStutters DEF Apart, PageStill, PastStill
<1>2. CASE ClickSend
  <2>1. page'.reply = page.reply /\ past' = past
    BY <1>0, <1>2 DEF ClickSend, UserActs, OnPage, PressSend, Say, Pages
  <2>. QED BY <2>1, PromiseStutters
<1>3. CASE SwitchLanguage
  <2>1. page' = page /\ PastStill(past', past)
    BY <1>0, <1>3, PastSame DEF SwitchLanguage, ByHost
  <2>. QED BY <2>1, PromiseStutters DEF PastStill
<1>4. CASE HearSend
  <2>1. page'.reply = page.reply /\ PastStill(past', past)
    BY <1>0, <1>4, StepPast DEF HearSend, Took, Pages
  <2>. QED BY <2>1, PromiseStutters DEF PastStill
<1>5. CASE SendLands
  <2>. DEFINE s == host.send
              h == SendLanded(host)
              told == IF h.sendState = "uncertain" THEN past.told \cup {s.text} ELSE past.told
              acked == IF s.answer = "sent"
                       THEN Forgotten(past.acked, s.conv, s.text)
                              \cup {[conv |-> s.conv, id |-> s.text, ver |-> "first"]}
                       ELSE past.acked
              p == [past EXCEPT !.told = told, !.acked = acked]
              c == p.crossed \/ Crossing(h)
              o == p.overlap \/ Overlapping(h)
  <2>1. page' = page /\ past' = [p EXCEPT !.crossed = c, !.overlap = o]
    BY <1>5 DEF SendLands, Lands, Step
  <2>. HIDE DEF told, acked, c, o
  <2>2. past'.letGo = past.letGo /\ past'.copies = past.copies
    BY <1>0, <2>1 DEF Pasts
  <2>. QED BY <2>1, <2>2, PromiseStutters
<1>. QED BY <1>1, <1>2, <1>3, <1>4, <1>5

LEMMA PromiseStep ==
  ASSUME Inv, ReplyKnown, [Next]_vars
  PROVE  [Promise!Next]_(Promise!vars)
<1>1. ASSUME NEW t \in Texts, WriteReply(t) \/ PutWhileSending(t) PROVE Promise!Next
  BY <1>1, PromiseWrites DEF Promise!Next
<1>. QED BY <1>1, PromiseDelivers, PromiseClears, PromiseKept, NextApart

\* The tab keeps what Letters promises of a reply: it stays in the box until it
\* is in Teams, unless the user put another text there or a repeated answer
\* misled the page.  Pressing Send writes nothing, an answer that comes late or
\* beside a poll, an edit or a change of conversation clears nothing.
THEOREM RepliesKept == Spec => KeepsPromise
<1>1. Init => Promise!Init
  BY InitPromise
<1>2. Inv /\ ReplyKnown /\ [Next]_vars => [Promise!Next]_(Promise!vars)
  BY PromiseStep
<1>. QED BY <1>1, <1>2, Invariant, ReplyInvariant, PTL DEF Spec, KeepsPromise, Promise!Spec

-----------------------------------------------------------------------------
(* What the user made of the draft. *)

LEMMA DraftStep ==
  ASSUME Inv, DraftKnown, [Next]_vars
  PROVE  /\ DraftKnown'
         /\ page.draft \in Own /\ page'.draft \in Drafts =>
              \/ Told("draft") /\ News.reload
              \/ page.draft \in past.published \/ past.risky
<1>0. page \in Pages /\ host \in Hosts /\ past \in Pasts /\ Drafts \cap Own = {}
  BY KindsOfText DEF Inv, HostInv, HostOK
<1>1. CASE DraftKept
  BY <1>0, <1>1 DEF DraftKept, DraftSame, DraftKnown
<1>2. CASE TypePost
  <2>1. PICK o \in Own : page' = EditPost(page, o)
    BY <1>2 DEF TypePost, UserActs, OnPage
  <2>2. page'.draft = o /\ page'.postDirty
    BY <1>0, <2>1 DEF EditPost, Pages
  <2>. QED BY <1>0, <2>2 DEF DraftKnown
<1>3. CASE PageDraft
  <2>. DEFINE r == past.risky /\ ~TakesDraft(page, News)
  <2>1. /\ Told("draft") /\ page' = ShowDraft(page, News)
        /\ past' = [past EXCEPT !.risky = r]
    BY <1>3 DEF PageDraft, Shown
  <2>2. News \in HostMessages /\ News.type = "draft"
    BY <1>0, <2>1, HostDrops DEF Told, News
  <2>3. /\ TakesDraft(page, News) => page'.draft \in Drafts
        /\ ~TakesDraft(page, News) => DraftSame(page', page)
    BY <1>0, <2>1, <2>2, PageShowsBox
  <2>. HIDE DEF r
  <2>4. past'.risky = r /\ past'.published = past.published
    BY <1>0, <2>1 DEF Pasts
  <2>5. CASE TakesDraft(page, News)
    BY <1>0, <2>1, <2>3, <2>5 DEF DraftKnown, TakesDraft
  <2>6. CASE ~TakesDraft(page, News)
    BY <1>0, <2>3, <2>4, <2>6 DEF DraftKnown, DraftSame, r
  <2>. QED BY <2>5, <2>6
<1>4. CASE PagePostState
  <2>. DEFINE r == past.risky \/ (News.kind = "sent" /\ page.draft \notin past.published)
  <2>1. /\ Told("postState") /\ page' = ShowPostStateOnPage(page, News)
        /\ past' = [past EXCEPT !.risky = r]
    BY <1>4 DEF PagePostState, Shown
  <2>2. News \in HostMessages /\ News.type = "postState"
    BY <1>0, <2>1, HostDrops DEF Told, News
  <2>3. page'.draft = page.draft /\ (News.kind # "sent" => page'.postDirty = page.postDirty)
    BY <1>0, <2>1, <2>2, PageShowsBox
  <2>. HIDE DEF r
  <2>4. past'.risky = r /\ past'.published = past.published
    BY <1>0, <2>1 DEF Pasts
  <2>. QED BY <1>0, <2>3, <2>4 DEF DraftKnown, r
<1>. QED BY <1>1, <1>2, <1>3, <1>4, NextApart

LEMMA DraftInvariant == Spec => []DraftKnown
<1>1. ASSUME Init PROVE DraftKnown
  <2>1. page = PageAtStart
    BY <1>1 DEF Init
  <2>2. page.draft = "" /\ "" \notin Own
    BY <2>1, KindsOfText DEF PageAtStart
  <2>. QED BY <2>2 DEF DraftKnown
<1>2. Inv /\ DraftKnown /\ [Next]_vars => DraftKnown'
  BY DraftStep
<1>. QED BY <1>1, <1>2, Invariant, PTL DEF Spec

\* What the user made of the draft gives way to a draft of the file only when
\* Reload draft was pressed or that very text went up.
THEOREM DraftsSurvive == Spec => DraftEditsSurvive
<1>. DEFINE Ok == page.draft \in Own /\ page'.draft \in Drafts =>
                    \/ Told("draft") /\ News.reload
                    \/ page.draft \in past.published \/ past.risky
<1>1. Inv /\ DraftKnown /\ [Next]_vars => [Ok]_vars
  BY DraftStep
<1>. QED BY <1>1, Invariant, DraftInvariant, PTL DEF Spec, DraftEditsSurvive

-----------------------------------------------------------------------------
(* The screen: what the page will show when it has heard what the host says. *)

LEMMA ShowsSaid ==
  ASSUME NEW q \in Seq(HostMessages), NEW m \in HostMessages, NEW p
  PROVE  /\ \A th : Shows(p, q, th) /\ ~Moves(m) => Shows(p, Append(q, m), th)
         /\ m.type = "thread" => Shows(p, Append(q, m), m.thread)
<1>. DEFINE r == Append(q, m)
            n == Len(q) + 1
<1>1. /\ n \in DOMAIN r /\ r[n] = m
      /\ \A i \in DOMAIN q : i \in Nat /\ i < n /\ i \in DOMAIN r /\ r[i] = q[i]
      /\ \A i \in DOMAIN r : i \in Nat /\ i <= n /\ (i # n => i \in DOMAIN q)
  BY SaidAt
<1>2. n \in Nat
  BY <1>1
<1>. HIDE DEF r, n
<1>3. \A i \in DOMAIN r : r[i] = m \/ (i \in DOMAIN q /\ r[i] = q[i])
  BY <1>1
<1>4. ASSUME NEW th, Shows(p, q, th), ~Moves(m) PROVE Shows(p, r, th)
  <2>1. CASE p.mode = "thread" /\ p.thread = th /\ \A j \in DOMAIN q : ~Moves(q[j])
    BY <1>3, <1>4, <2>1 DEF Shows
  <2>2. CASE \E i \in DOMAIN q : q[i].type = "thread" /\ q[i].thread = th
                                  /\ \A j \in DOMAIN q : j > i => ~Moves(q[j])
    <3>1. PICK i \in DOMAIN q : q[i].type = "thread" /\ q[i].thread = th
                                  /\ \A j \in DOMAIN q : j > i => ~Moves(q[j])
      BY <2>2
    <3>2. i \in DOMAIN r /\ r[i] = q[i]
      BY <1>1
    <3>3. \A j \in DOMAIN r : j > i => ~Moves(r[j])
      BY <1>3, <1>4, <3>1
    <3>. QED BY <3>1, <3>2, <3>3 DEF Shows
  <2>. QED BY <1>4, <2>1, <2>2 DEF Shows
<1>5. ASSUME m.type = "thread" PROVE Shows(p, r, m.thread)
  <2>1. \A j \in DOMAIN r : ~(j > n)
    BY <1>1, <1>2
  <2>. QED BY <1>1, <1>5, <2>1 DEF Shows
<1>. QED BY <1>4, <1>5 DEF r

LEMMA WaitsSaid ==
  ASSUME NEW q \in Seq(HostMessages), NEW m \in HostMessages, NEW p
  PROVE  /\ Ends(m) => ~Waits(p, Append(q, m))
         /\ ~Begins(m) /\ Waits(p, Append(q, m)) => Waits(p, q)
<1>. DEFINE r == Append(q, m)
            n == Len(q) + 1
<1>1. /\ n \in DOMAIN r /\ r[n] = m
      /\ \A i \in DOMAIN q : i \in Nat /\ i < n /\ i \in DOMAIN r /\ r[i] = q[i]
      /\ \A i \in DOMAIN r : i \in Nat /\ i <= n /\ (i # n => i \in DOMAIN q)
  BY SaidAt
<1>2. n \in Nat
  BY <1>1
<1>. HIDE DEF r, n
<1>3. ASSUME Ends(m), Waits(p, r) PROVE FALSE
  <2>1. PICK i \in DOMAIN r : Begins(r[i]) /\ \A j \in DOMAIN r : j > i => ~Ends(r[j])
    BY <1>1, <1>3 DEF Waits
  <2>2. i # n
    BY <1>1, <1>3, <2>1 DEF Begins, Ends, IsPanel
  <2>3. n > i
    BY <1>1, <1>2, <2>2
  <2>. QED BY <1>1, <1>3, <2>1, <2>3
<1>4. ASSUME ~Begins(m), Waits(p, r) PROVE Waits(p, q)
  <2>1. CASE p.panel \in Waiting /\ \A j \in DOMAIN r : ~Ends(r[j])
    <3>1. \A j \in DOMAIN q : ~Ends(q[j])
      BY <1>1, <2>1
    <3>. QED BY <2>1, <3>1 DEF Waits
  <2>2. CASE \E i \in DOMAIN r : Begins(r[i]) /\ \A j \in DOMAIN r : j > i => ~Ends(r[j])
    <3>1. PICK i \in DOMAIN r : Begins(r[i]) /\ \A j \in DOMAIN r : j > i => ~Ends(r[j])
      BY <2>2
    <3>2. i \in DOMAIN q /\ r[i] = q[i]
      BY <1>1, <1>4, <3>1
    <3>3. \A j \in DOMAIN q : j > i => ~Ends(q[j])
      BY <1>1, <3>1
    <3>. QED BY <3>1, <3>2, <3>3 DEF Waits
  <2>. QED BY <1>4, <2>1, <2>2 DEF Waits
<1>. QED BY <1>3, <1>4 DEF r

LEMMA QueueHeard ==
  ASSUME NEW q \in Seq(HostMessages), q # <<>>, NEW p, NEW s, Turns(s, p, Head(q))
  PROVE  /\ \A th : Shows(p, q, th) => Shows(s, Tail(q), th)
         /\ Waits(s, Tail(q)) => Waits(p, q)
<1>. DEFINE r == Tail(q)
<1>1. /\ 1 \in DOMAIN q /\ Head(q) = q[1]
      /\ \A i \in DOMAIN q : i \in Nat /\ (i = 1 \/ (i - 1 \in DOMAIN r /\ r[i - 1] = q[i]))
      /\ \A i \in DOMAIN r : i \in Nat /\ i + 1 \in DOMAIN q /\ i + 1 # 1 /\ r[i] = q[i + 1]
  BY HeardAt
<1>. HIDE DEF r
<1>2. \A i \in DOMAIN r : i + 1 > 1 /\ \A j \in DOMAIN r : j + 1 > i + 1 => j > i
  BY <1>1
<1>3. \A i, j \in DOMAIN q : i # 1 /\ j # 1 /\ j - 1 > i - 1 => j > i
  BY <1>1
<1>4. ASSUME NEW th, Shows(p, q, th) PROVE Shows(s, r, th)
  <2>1. CASE p.mode = "thread" /\ p.thread = th /\ \A j \in DOMAIN q : ~Moves(q[j])
    <3>1. s.mode = "thread" /\ s.thread = th
      BY <1>1, <2>1 DEF Turns
    <3>. QED BY <1>1, <2>1, <3>1 DEF Shows
  <2>2. CASE \E i \in DOMAIN q : q[i].type = "thread" /\ q[i].thread = th
                                  /\ \A j \in DOMAIN q : j > i => ~Moves(q[j])
    <3>1. PICK i \in DOMAIN q : q[i].type = "thread" /\ q[i].thread = th
                                  /\ \A j \in DOMAIN q : j > i => ~Moves(q[j])
      BY <2>2
    <3>2. CASE i = 1
      <4>1. s.mode = "thread" /\ s.thread = th
        BY <1>1, <3>1, <3>2 DEF Turns
      <4>2. \A j \in DOMAIN r : ~Moves(r[j])
        BY <1>1, <1>2, <3>1, <3>2
      <4>. QED BY <4>1, <4>2 DEF Shows
    <3>3. CASE i # 1
      <4>1. i - 1 \in DOMAIN r /\ r[i - 1] = q[i]
        BY <1>1, <3>3
      <4>2. ASSUME NEW j \in DOMAIN r, j > i - 1 PROVE ~Moves(r[j])
        <5>1. j + 1 \in DOMAIN q /\ j + 1 > i /\ r[j] = q[j + 1]
          BY SMTT(30), <1>1, <4>2
        <5>. QED BY <3>1, <5>1
      <4>. QED BY <3>1, <4>1, <4>2 DEF Shows
    <3>. QED BY <3>2, <3>3
  <2>. QED BY <1>4, <2>1, <2>2 DEF Shows
<1>5. ASSUME Waits(s, r) PROVE Waits(p, q)
  <2>1. CASE s.panel \in Waiting /\ \A j \in DOMAIN r : ~Ends(r[j])
    <3>1. ~Ends(q[1])
      BY <1>1, <2>1 DEF Turns
    <3>2. \A j \in DOMAIN q : ~Ends(q[j])
      BY <1>1, <2>1, <3>1
    <3>3. CASE Begins(q[1])
      BY <1>1, <3>2, <3>3 DEF Waits
    <3>4. CASE ~Begins(q[1])
      BY <1>1, <2>1, <3>1, <3>2, <3>4 DEF Turns, Waits
    <3>. QED BY <3>3, <3>4
  <2>2. CASE \E i \in DOMAIN r : Begins(r[i]) /\ \A j \in DOMAIN r : j > i => ~Ends(r[j])
    <3>1. PICK i \in DOMAIN r : Begins(r[i]) /\ \A j \in DOMAIN r : j > i => ~Ends(r[j])
      BY <2>2
    <3>2. i + 1 \in DOMAIN q /\ q[i + 1] = r[i] /\ i \in Nat
      BY <1>1
    <3>3. ASSUME NEW j \in DOMAIN q, j > i + 1 PROVE ~Ends(q[j])
      <4>1. j \in Nat /\ j # 1
        BY <1>1, <3>2, <3>3
      <4>2. j - 1 \in DOMAIN r /\ r[j - 1] = q[j] /\ j - 1 > i
        BY <1>1, <3>2, <3>3, <4>1
      <4>. QED BY <3>1, <4>2
    <3>. QED BY <3>1, <3>2, <3>3 DEF Waits
  <2>. QED BY <1>5, <2>1, <2>2 DEF Waits
<1>. QED BY <1>4, <1>5 DEF r

LEMMA MurmursTrans ==
  ASSUME NEW f, NEW g, NEW h, Murmurs(f, g), Murmurs(g, h)
  PROVE  Murmurs(f, h)
BY DEF Murmurs

LEMMA MurmursScreen ==
  ASSUME NEW p \in Pages, NEW h \in Hosts, NEW g, Murmurs(g, h), Screen(p, h)
  PROVE  Screen(p, g)
<1>1. h.found \in Threads
  BY DEF Hosts
<1>. QED BY <1>1 DEF Murmurs, Screen, StateKnown

LEMMA FieldMurmurs ==
  ASSUME NEW g \in Hosts, NEW h \in Hosts, g.found = h.found, g.notPosted = h.notPosted,
         g.state = h.state, g.inline = h.inline, g.out = h.out, Replaced(h) => Replaced(g)
  PROVE  Murmurs(g, h)
BY DEF Murmurs

LEMMA SayMurmurs ==
  ASSUME NEW h \in Hosts, NEW m \in HostMessages, m.type \notin {"thread", "draft", "state"}
  PROVE  Murmurs(Say(h, m), h)
<1>. DEFINE g == Say(h, m)
<1>1. h.out \in Seq(HostMessages) /\ ~Moves(m) /\ ~Begins(m)
  BY OutOK DEF Moves, Begins, IsPanel
<1>2. g \in Hosts /\ Same(g, h)
  BY SayOK
<1>3. g.out = Append(h.out, m) /\ g.state = h.state /\ g.inline = h.inline
  BY DEF Say, Hosts
<1>4. g.found = h.found /\ g.notPosted = h.notPosted /\ (Replaced(h) => Replaced(g))
  BY <1>2, SameKeeps DEF Same
<1>. HIDE DEF g
<1>5. ASSUME NEW p \in Pages, NEW th \in Threads, Shows(p, h.out, th) PROVE Shows(p, g.out, th)
  BY <1>1, <1>3, <1>5, ShowsSaid
<1>6. ASSUME NEW p \in Pages, Waits(p, g.out) PROVE Waits(p, h.out)
  BY <1>1, <1>3, <1>6, WaitsSaid
<1>7. Murmurs(g, h)
  BY <1>2, <1>3, <1>4, <1>5, <1>6 DEF Murmurs
<1>. QED BY <1>7 DEF g

LEMMA SaysMurmur ==
  ASSUME NEW h \in Hosts
  PROVE  /\ \A kind \in Answered \cup {"sending"} : Murmurs(ShowSendState(h, kind), h)
         /\ \A kind \in Answered \cup {"posting", "warning"} : Murmurs(ShowPostState(h, kind), h)
         /\ Murmurs(PostConversations(h), h)
         /\ \A type \in {"editState", "deleteState"}, id \in Ids,
               state \in {"saving", "saved", "deleting", "deleted", "cancelled", "failed", "uncertain"} :
              Murmurs(PostChangeState(h, type, id, state), h)
<1>1. ASSUME NEW kind \in Answered \cup {"sending"} PROVE Murmurs(ShowSendState(h, kind), h)
  <2>. DEFINE f == [h EXCEPT !.sendState = kind]
              m == [type |-> "sendState", kind |-> kind, again |-> FALSE]
  <2>1. f \in Hosts
    BY DEF Hosts
  <2>2. f.found = h.found /\ f.notPosted = h.notPosted /\ f.state = h.state /\ f.inline = h.inline
        /\ f.out = h.out /\ f.read = h.read /\ f.readAgain = h.readAgain /\ f.wait = h.wait
        /\ f.chosen = h.chosen
    BY DEF Hosts
  <2>3. m \in HostMessages
    BY StateMessages
  <2>4. ShowSendState(h, kind) = Say(f, m)
    BY DEF ShowSendState
  <2>5. m.type = "sendState"
    OBVIOUS
  <2>. HIDE DEF f, m
  <2>6. Murmurs(f, h)
    BY <2>1, <2>2, FieldMurmurs DEF Replaced
  <2>7. Murmurs(Say(f, m), f)
    BY <2>1, <2>3, <2>5, SayMurmurs
  <2>. QED BY <2>4, <2>6, <2>7, MurmursTrans
<1>2. ASSUME NEW kind \in Answered \cup {"posting", "warning"} PROVE Murmurs(ShowPostState(h, kind), h)
  <2>. DEFINE f == [h EXCEPT !.postState = kind]
              m == [type |-> "postState", kind |-> kind, again |-> FALSE]
  <2>1. f \in Hosts
    BY DEF Hosts
  <2>2. f.found = h.found /\ f.notPosted = h.notPosted /\ f.state = h.state /\ f.inline = h.inline
        /\ f.out = h.out /\ f.read = h.read /\ f.readAgain = h.readAgain /\ f.wait = h.wait
        /\ f.chosen = h.chosen
    BY DEF Hosts
  <2>3. m \in HostMessages
    BY StateMessages
  <2>4. ShowPostState(h, kind) = Say(f, m)
    BY DEF ShowPostState
  <2>5. m.type = "postState"
    OBVIOUS
  <2>. HIDE DEF f, m
  <2>6. Murmurs(f, h)
    BY <2>1, <2>2, FieldMurmurs DEF Replaced
  <2>7. Murmurs(Say(f, m), f)
    BY <2>1, <2>3, <2>5, SayMurmurs
  <2>. QED BY <2>4, <2>6, <2>7, MurmursTrans
<1>3. Murmurs(PostConversations(h), h)
  <2>. DEFINE m == [type |-> "conversations", chats |-> h.lastChats, selected |-> ReadConv(h.chosen)]
  <2>1. h.lastChats \in SUBSET Chats /\ ReadConv(h.chosen) \in Convs
    BY ReadConvOK DEF Hosts
  <2>2. m \in HostMessages /\ m.type = "conversations"
    BY <2>1 DEF HostMessages
  <2>3. PostConversations(h) = Say(h, m)
    BY DEF PostConversations
  <2>. HIDE DEF m
  <2>. QED BY <2>2, <2>3, SayMurmurs
<1>4. ASSUME NEW type \in {"editState", "deleteState"}, NEW id \in Ids,
             NEW state \in {"saving", "saved", "deleting", "deleted", "cancelled", "failed", "uncertain"}
      PROVE  Murmurs(PostChangeState(h, type, id, state), h)
  <2>. DEFINE m == [type |-> type, id |-> id, state |-> state]
  <2>1. m \in HostMessages /\ m.type = type
    BY DEF HostMessages
  <2>2. PostChangeState(h, type, id, state) = Say(h, m)
    BY DEF PostChangeState
  <2>. HIDE DEF m
  <2>. QED BY <2>1, <2>2, SayMurmurs
<1>. QED BY <1>1, <1>2, <1>3, <1>4

-----------------------------------------------------------------------------
(* The host's operators and the screen. *)

LEMMA SureScreen ==
  ASSUME NEW p, NEW h, Replaced(h), h.notPosted => h.found = NoThread
  PROVE  Screen(p, h)
BY DEF Screen, StateKnown

LEMMA ReadAsyncScreen ==
  ASSUME NEW p \in Pages, NEW h \in Hosts, NEW quiet \in BOOLEAN, h.notPosted => h.found = NoThread,
         quiet => Screen(p, h)
  PROVE  Screen(p, ReadAsync(h, quiet))
<1>. DEFINE g == ReadAsync(h, quiet)
<1>1. /\ g \in Hosts /\ g.found = h.found /\ g.notPosted = h.notPosted
      /\ Replaced(h) \/ ~quiet => Replaced(g)
  BY ReadAsyncOK
<1>2. CASE Replaced(g)
  BY <1>1, <1>2, SureScreen
<1>3. CASE ~Replaced(g)
  <2>1. quiet /\ ~Replaced(h)
    BY <1>1, <1>3
  <2>2. g.out = h.out /\ g.state = h.state /\ g.inline = h.inline
    BY <2>1 DEF ReadAsync, Hosts
  <2>. HIDE DEF g
  <2>3. Screen(p, g)
    BY <1>1, <2>1, <2>2 DEF Screen, StateKnown
  <2>. QED BY <2>3 DEF g
<1>. QED BY <1>2, <1>3

LEMMA PostDraftScreen ==
  ASSUME NEW p \in Pages, NEW h \in Hosts, NEW reload \in BOOLEAN, StateKnown(h), h.notPosted \/ Screen(p, h)
  PROVE  Screen(p, PostDraft(h, reload))
<1>1. CASE ~h.notPosted
  BY <1>1 DEF PostDraft
<1>2. CASE h.notPosted
  <2>. DEFINE m == [type |-> "draft", text |-> h.file, reload |-> reload]
              g == Say(h, m)
  <2>1. m \in HostMessages /\ Ends(m)
    BY DEF Hosts, HostMessages, Ends
  <2>2. PostDraft(h, reload) = g
    BY <1>2 DEF PostDraft
  <2>. HIDE DEF m
  <2>3. g \in Hosts /\ Same(g, h)
    BY <2>1, SayOK
  <2>4. g.out = Append(h.out, m) /\ g.state = h.state /\ g.inline = h.inline
    BY DEF Say, Hosts
  <2>5. g.found = h.found /\ g.notPosted = h.notPosted /\ (Replaced(h) <=> Replaced(g))
    BY <2>3, SameKeeps DEF Same
  <2>. HIDE DEF g
  <2>6. ~Waits(p, g.out)
    BY <2>1, <2>4, OutOK, WaitsSaid
  <2>. QED BY <1>2, <2>2, <2>4, <2>5, <2>6 DEF Screen, StateKnown
<1>. QED BY <1>1, <1>2

LEMMA PostThreadScreen ==
  ASSUME NEW p \in Pages, NEW h \in Hosts, StateKnown(h)
  PROVE  Screen(p, PostThread(h)) /\ PostThread(h).notPosted = h.notPosted
<1>. DEFINE m == [type |-> "thread", thread |-> h.found]
            g == Say(h, m)
<1>1. m \in HostMessages /\ Ends(m) /\ m.type = "thread" /\ m.thread = h.found
  BY DEF Hosts, HostMessages, Ends
<1>2. PostThread(h) = g
  BY DEF PostThread
<1>. HIDE DEF m
<1>3. g \in Hosts /\ Same(g, h)
  BY <1>1, SayOK
<1>4. g.out = Append(h.out, m) /\ g.state = h.state /\ g.inline = h.inline
  BY DEF Say, Hosts
<1>5. g.found = h.found /\ g.notPosted = h.notPosted /\ (Replaced(h) <=> Replaced(g))
  BY <1>3, SameKeeps DEF Same
<1>. HIDE DEF g
<1>6. Shows(p, g.out, h.found) /\ ~Waits(p, g.out)
  BY <1>1, <1>4, OutOK, ShowsSaid, WaitsSaid
<1>. QED BY <1>2, <1>4, <1>5, <1>6 DEF Screen, StateKnown

\* A panel: it says how the read ended, or is repeated.
LEMMA ShowStateScreen ==
  ASSUME NEW p \in Pages, NEW h \in Hosts, NEW kind \in Panels, NEW inline \in BOOLEAN,
         h.notPosted => h.found = NoThread, kind \in Waiting => inline \/ Replaced(h),
         h.found = NoThread \/ kind = "loading" \/ inline,
         h.found # NoThread => Shows(p, h.out, h.found) \/ Replaced(h)
  PROVE  (inline \/ kind \notin Waiting \/ Replaced(h)) => Screen(p, ShowState(h, kind, inline))
<1>. DEFINE f == [h EXCEPT !.state = kind, !.inline = inline]
            m == [type |-> "state", kind |-> kind, inline |-> inline]
            g == Say(f, m)
<1>1. f \in Hosts /\ f.out = h.out /\ f.state = kind /\ f.inline = inline /\ Same(f, h)
  <2>1. f \in Hosts
    BY ZenonT(60) DEF Hosts
  <2>2. f.out = h.out /\ f.state = kind /\ f.inline = inline /\ Same(f, h)
    BY ZenonT(60) DEF Hosts, Same
  <2>. QED BY <2>1, <2>2
<1>2. m \in HostMessages /\ m.type = "state" /\ m.kind = kind /\ m.inline = inline
  BY StateMessages
<1>3. ShowState(h, kind, inline) = g
  BY DEF ShowState
<1>. HIDE DEF m, f
<1>4. g \in Hosts /\ Same(g, f)
  BY <1>1, <1>2, SayOK
<1>5. g.out = Append(h.out, m) /\ g.state = kind /\ g.inline = inline
  BY <1>1 DEF Say, Hosts
<1>6. /\ g.found = h.found /\ g.notPosted = h.notPosted /\ (Replaced(h) <=> Replaced(g))
  BY <1>1, <1>4, SameTrans, SameKeeps DEF Same
<1>. HIDE DEF g
<1>7. h.found # NoThread => Shows(p, g.out, h.found) \/ Replaced(h)
  <2>1. h.found # NoThread => ~Moves(m)
    BY <1>2 DEF Moves, IsPanel
  <2>. QED BY <1>2, <1>5, <2>1, OutOK, ShowsSaid
<1>8. ~inline /\ kind \notin Waiting => ~Waits(p, g.out)
  <2>1. ~inline /\ kind \notin Waiting => Ends(m)
    BY <1>2 DEF Ends, IsPanel
  <2>. QED BY <1>2, <1>5, <2>1, OutOK, WaitsSaid
<1>. QED BY <1>3, <1>5, <1>6, <1>7, <1>8 DEF Screen, StateKnown

LEMMA ShowResultScreen ==
  ASSUME NEW p \in Pages, NEW h \in Hosts, NEW r \in Results, r.state # "null",
         r.state = "found" => r.conv \in Convs
  PROVE  Screen(p, ShowResult(h, r))
<1>1. CASE r.state = "found"
  <2>. DEFINE f == [h EXCEPT !.found = ThreadOf(r), !.notPosted = FALSE]
              c == ClearState(f)
  <2>1. ThreadOf(r) \in Threads
    BY <1>1 DEF ThreadOf, Threads, Results
  <2>2. f \in Hosts
    BY <2>1 DEF Hosts
  <2>3. f \in Hosts /\ ~f.notPosted
    BY <2>2 DEF Hosts
  <2>4. ShowResult(h, r) = PostThread(c)
    BY <1>1 DEF ShowResult, ShowThread
  <2>. HIDE DEF f
  <2>5. c \in Hosts
    BY <2>3, ClearStateOK
  <2>6. c \in Hosts /\ ~c.notPosted /\ c.state = ""
    BY <2>3, <2>5 DEF ClearState, Hosts
  <2>. HIDE DEF c
  <2>7. StateKnown(c)
    BY <2>6 DEF StateKnown, Waiting
  <2>. QED BY <2>4, <2>6, <2>7, PostThreadScreen
<1>2. CASE r.state # "found"
  <2>. DEFINE f == [h EXCEPT !.found = NoThread]
              n == [f EXCEPT !.notPosted = TRUE]
              c == ClearState(n)
  <2>1. f \in Hosts
    BY ZenonT(60) DEF Hosts, Threads, NoThread
  <2>2. f \in Hosts /\ f.found = NoThread
    BY <2>1 DEF Hosts
  <2>3. ShowResult(h, r) =
          CASE r.state = "notPosted" -> PostDraft(c, FALSE)
            [] r.state = "failed" /\ f.notPosted -> ShowState(f, "failed", TRUE)
            [] OTHER -> ShowState(f, r.state, FALSE)
    BY <1>2 DEF ShowResult
  <2>4. n \in Hosts /\ n.found = NoThread /\ n.notPosted
    BY ZenonT(60), <2>2 DEF Hosts
  <2>. HIDE DEF f, n
  <2>5. c \in Hosts
    BY <2>4, ClearStateOK
  <2>6. c \in Hosts /\ c.found = NoThread /\ c.notPosted /\ c.state = ""
    BY <2>4, <2>5 DEF ClearState, Hosts
  <2>. HIDE DEF c
  <2>7. StateKnown(c)
    BY <2>6 DEF StateKnown, Waiting
  <2>8. r.state \in {"notPosted", "signedOut", "failed"}
    BY <1>2 DEF Results
  <2>9. CASE r.state = "notPosted"
    <3>1. ShowResult(h, r) = PostDraft(c, FALSE)
      BY <2>3, <2>9
    <3>. QED BY <2>6, <2>7, <3>1, PostDraftScreen
  <2>10. CASE r.state \in {"signedOut", "failed"}
    <3>1. PICK kind \in {"signedOut", "failed"}, inline \in BOOLEAN : ShowResult(h, r) = ShowState(f, kind, inline)
      BY <2>3, <2>10
    <3>2. kind \in Panels /\ kind \notin Waiting
      BY DEF Panels, Waiting
    <3>. QED BY <2>2, <3>1, <3>2, ShowStateScreen
  <2>. QED BY <2>8, <2>9, <2>10
<1>. QED BY <1>1, <1>2

LEMMA ChooseMurmurs ==
  ASSUME NEW h \in Hosts, NEW c \in Convs
  PROVE  LET g == ChooseConversation(h, c)
         IN  g \in Hosts /\ g.found = h.found /\ g.notPosted = h.notPosted
<1>. DEFINE f == [h EXCEPT !.chosen = c]
<1>1. f \in Hosts
  BY DEF Hosts
<1>2. f.found = h.found /\ f.notPosted = h.notPosted
  BY DEF Hosts
<1>3. ChooseConversation(h, c) = IF f.lastChats = {} THEN f ELSE PostConversations(f)
  BY DEF ChooseConversation
<1>. HIDE DEF f
<1>4. PostConversations(f) \in Hosts /\ Same(PostConversations(f), f)
  BY <1>1, PostConversationsOK
<1>. QED BY <1>1, <1>2, <1>3, <1>4 DEF Same

LEMMA ListMurmurs ==
  ASSUME NEW h \in Hosts, NEW r \in Results
  PROVE  LET g == ListChats(h, r)
         IN  g \in Hosts /\ g.found = h.found /\ g.notPosted = h.notPosted
<1>. DEFINE f == [h EXCEPT !.lastChats = r.chats]
<1>1. f \in Hosts
  BY DEF Hosts, Results
<1>2. f.found = h.found /\ f.notPosted = h.notPosted
  BY DEF Hosts
<1>3. ListChats(h, r) = IF ~r.listed THEN h ELSE IF r.chats = {} THEN f ELSE PostConversations(f)
  BY DEF ListChats
<1>. HIDE DEF f
<1>4. PostConversations(f) \in Hosts /\ Same(PostConversations(f), f)
  BY <1>1, PostConversationsOK
<1>. QED BY <1>1, <1>2, <1>3, <1>4 DEF Same

\* Where the one operator that shows a read leads: to the view of that read, or to another read.
LEMMA ApplyResultLeads ==
  ASSUME NEW h \in Hosts, NEW r \in Results
  PROVE  \/ \E f \in Hosts :
              /\ ApplyResult(h, r) = ReadAsync(f, FALSE)
              /\ f.found = h.found /\ f.notPosted = h.notPosted
              /\ f.read = h.read /\ f.readAgain = h.readAgain /\ f.wait = h.wait
         \/ \E f \in Hosts :
              /\ ApplyResult(h, r) = ShowResult(f, r)
              /\ f.read = h.read /\ f.readAgain = h.readAgain /\ f.wait = h.wait
<1>. DEFINE g == ListChats(h, r)
<1>1. g \in Hosts /\ g.found = h.found /\ g.notPosted = h.notPosted /\ ReadSame(g, h)
  BY ListMurmurs, ListChatsOK
<1>. HIDE DEF g
<1>2. ASSUME NEW c \in Convs
      PROVE  LET f == ChooseConversation(g, c)
             IN  f \in Hosts /\ f.found = h.found /\ f.notPosted = h.notPosted /\ ReadSame(f, h)
  <2>1. LET f == ChooseConversation(g, c)
        IN  f \in Hosts /\ f.found = g.found /\ f.notPosted = g.notPosted /\ ReadSame(f, g)
    BY <1>1, ChooseMurmurs, ChooseOK
  <2>. QED BY <1>1, <2>1, ReadSameTrans
<1>3. ApplyResult(h, r) =
        IF ChatGone(h, r) THEN ReadAsync(ChooseConversation(g, Post), FALSE)
        ELSE IF TakesChat(h, r)
          THEN ReadAsync(ChooseConversation(g, CHOOSE c \in r.chats : TRUE), FALSE)
        ELSE IF FirstChoice(h, r) /\ r.state = "found"
          THEN ShowResult(ChooseConversation(g, Post), r)
        ELSE ShowResult(g, r)
  BY DEF ApplyResult, g
<1>4. Post \in Convs
  BY DEF Convs
<1>5. CASE ChatGone(h, r)
  BY <1>2, <1>3, <1>4, <1>5 DEF ReadSame, Kept
<1>6. CASE ~ChatGone(h, r) /\ TakesChat(h, r)
  <2>1. (CHOOSE c \in r.chats : TRUE) \in Convs
    BY <1>6 DEF TakesChat, Results, Convs
  <2>. QED BY <1>2, <1>3, <1>6, <2>1 DEF ReadSame, Kept
<1>7. CASE ~ChatGone(h, r) /\ ~TakesChat(h, r)
  BY <1>1, <1>2, <1>3, <1>4, <1>7 DEF ReadSame, Kept
<1>. QED BY <1>5, <1>6, <1>7

LEMMA ApplyResultScreen ==
  ASSUME NEW p \in Pages, NEW h \in Hosts, NEW r \in Results, r.state # "null",
         r.state = "found" => r.conv \in Convs, h.notPosted => h.found = NoThread
  PROVE  Screen(p, ApplyResult(h, r))
BY ApplyResultLeads, ReadAsyncScreen, ShowResultScreen

LEMMA SelectScreen ==
  ASSUME NEW p \in Pages, NEW h \in Hosts, NEW c \in Convs, Screen(p, h)
  PROVE  Screen(p, SelectConversation(h, c))
<1>. DEFINE f == [h EXCEPT !.found = NoThread, !.notPosted = FALSE]
            n == ChooseConversation(f, c)
<1>1. f \in Hosts
  BY ZenonT(60) DEF Hosts, NoThread, Threads
<1>2. f.found = NoThread
  BY DEF Hosts
<1>3. SelectConversation(h, c) =
        IF c \notin {Post} \cup h.lastChats \/ c = h.chosen THEN h ELSE ReadAsync(n, FALSE)
  BY DEF SelectConversation
<1>. HIDE DEF f
<1>4. n \in Hosts /\ n.found = NoThread
  BY <1>1, <1>2, ChooseMurmurs
<1>. HIDE DEF n
<1>5. Screen(p, ReadAsync(n, FALSE))
  BY <1>4, ReadAsyncScreen
<1>. QED BY <1>3, <1>5

LEMMA ScreenKnown ==
  ASSUME NEW p, NEW h, Screen(p, h)
  PROVE  StateKnown(h) /\ (h.notPosted => h.found = NoThread)
BY DEF Screen, StateKnown

LEMMA ActivateScreen ==
  ASSUME NEW p \in Pages, NEW h \in Hosts, NEW stale \in BOOLEAN, Screen(p, h)
  PROVE  Screen(p, Activate(h, stale))
BY ScreenKnown, ReadAsyncScreen, PostDraftScreen DEF Activate

LEMMA AgainMurmurs ==
  ASSUME NEW h \in Hosts
  PROVE  Murmurs([h EXCEPT !.readAgain = TRUE], h)
<1>. DEFINE g == [h EXCEPT !.readAgain = TRUE]
<1>1. g \in Hosts
  BY DEF Hosts
<1>2. /\ g.found = h.found /\ g.notPosted = h.notPosted /\ g.state = h.state /\ g.inline = h.inline
      /\ g.out = h.out /\ g.read = h.read /\ g.wait = h.wait /\ g.chosen = h.chosen /\ g.readAgain
  BY DEF Hosts
<1>. HIDE DEF g
<1>3. Murmurs(g, h)
  BY <1>1, <1>2, FieldMurmurs DEF Replaced
<1>. QED BY <1>3 DEF g

LEMMA ShowAfterScreen ==
  ASSUME NEW p \in Pages, NEW h \in Hosts, NEW r \in Results, r.state = "found" => r.conv \in Convs,
         h.notPosted => h.found = NoThread
  PROVE  Screen(p, ShowAfter(h, r))
<1>1. CASE r.state = "null"
  BY <1>1, ReadAsyncScreen DEF ShowAfter
<1>2. CASE r.state # "null"
  <2>. DEFINE f == ApplyResult(h, r)
  <2>1. f \in Hosts /\ Screen(p, f)
    BY <1>2, ApplyResultScreen, ApplyResultMute
  <2>2. ShowAfter(h, r) = IF Busy(f.read) THEN [f EXCEPT !.readAgain = TRUE] ELSE f
    BY <1>2 DEF ShowAfter
  <2>. HIDE DEF f
  <2>. QED BY <2>1, <2>2, AgainMurmurs, MurmursScreen
<1>. QED BY <1>1, <1>2

\* What a read that ended leaves, and what of it is sure to be read again.
LEMMA ReadEnds ==
  ASSUME NEW h \in Hosts
  PROVE  LET g == [h EXCEPT !.read = IdleRead]
         IN  /\ g \in Hosts /\ g.found = h.found /\ g.notPosted = h.notPosted
             /\ g.state = h.state /\ g.inline = h.inline /\ g.out = h.out
             /\ g.readAgain = h.readAgain /\ g.wait = h.wait /\ g.chosen = h.chosen /\ g.read = IdleRead
<1>1. [h EXCEPT !.read = IdleRead] \in Hosts
  BY IdleOK DEF Hosts
<1>. QED BY <1>1 DEF Hosts

LEMMA ReadLandedScreen ==
  ASSUME NEW p \in Pages, NEW h, HostOK(h), h.read.stage = "served", Screen(p, h)
  PROVE  Screen(p, ReadLanded(h))
<1>. DEFINE r == h.read.result
            done == [h EXCEPT !.read = IdleRead]
            f == IF AppliesRead(h) THEN ApplyResult(done, r) ELSE done
            e == [f EXCEPT !.readAgain = FALSE]
<1>0. h \in Hosts /\ (h.notPosted => h.found = NoThread)
  BY ScreenKnown DEF HostOK
<1>1. /\ done \in Hosts /\ done.found = h.found /\ done.notPosted = h.notPosted
      /\ done.state = h.state /\ done.inline = h.inline /\ done.out = h.out
      /\ done.readAgain = h.readAgain /\ done.wait = h.wait /\ done.chosen = h.chosen
  BY <1>0, ReadEnds
<1>2. ReadLanded(h) = IF f.readAgain THEN ReadAsync(e, FALSE) ELSE f
  BY DEF ReadLanded
<1>3. /\ r \in Results /\ r.state # "null"
      /\ r.state = "found" => r.conv \in Convs
  <2>1. /\ r \in Results /\ r.state # "null" /\ h.read.conv \in Convs \cup {Unchosen}
        /\ r.state = "found" => r.conv = ReadConv(h.read.conv)
    BY DEF HostOK, Hosts, Answering, ReadAnswer, CallsFilled
  <2>. QED BY <2>1, ReadConvOK
<1>. HIDE DEF r, done
<1>4. f \in Hosts /\ (f.notPosted => f.found = NoThread) /\ (AppliesRead(h) => Screen(p, f))
  <2>1. CASE AppliesRead(h)
    BY <1>0, <1>1, <1>3, <2>1, ApplyResultScreen, ApplyResultMute, ScreenKnown
  <2>2. CASE ~AppliesRead(h)
    BY <1>0, <1>1, <2>2
  <2>. QED BY <2>1, <2>2
<1>5. ASSUME NEW x \in Hosts, x.notPosted => x.found = NoThread
      PROVE  Screen(p, ReadAsync([x EXCEPT !.readAgain = FALSE], FALSE))
  <2>. DEFINE y == [x EXCEPT !.readAgain = FALSE]
  <2>1. y \in Hosts
    BY DEF Hosts
  <2>2. y.found = x.found /\ y.notPosted = x.notPosted
    BY DEF Hosts
  <2>. HIDE DEF y
  <2>3. Screen(p, ReadAsync(y, FALSE))
    BY <1>5, <2>1, <2>2, ReadAsyncScreen
  <2>. QED BY <2>3 DEF y
<1>7. CASE f.readAgain
  BY <1>2, <1>4, <1>5, <1>7
<1>6. CASE ~f.readAgain
  <2>1. CASE AppliesRead(h)
    BY <1>2, <1>4, <1>6, <2>1
  <2>2. CASE ~AppliesRead(h)
    <3>1. f = done /\ ~h.readAgain
      BY <1>1, <1>6, <2>2
    <3>2. Replaced(h) => Busy(h.wait)
      BY <2>2, <3>1 DEF Replaced, AppliesRead, IsQuietReadUnchanged
    <3>3. Screen(p, done)
      BY <1>0, <1>1, <3>2 DEF Screen, StateKnown, Replaced
    <3>. QED BY <1>2, <1>6, <3>1, <3>3
  <2>. QED BY <2>1, <2>2
<1>. QED BY <1>6, <1>7

LEMMA WaitLandedScreen ==
  ASSUME NEW p \in Pages, NEW h, HostOK(h), h.wait.stage = "served", Screen(p, h)
  PROVE  Screen(p, WaitLanded(h))
<1>. DEFINE done == [h EXCEPT !.wait = IdleWait]
<1>0. /\ h \in Hosts /\ IdleWait \in [stage : Stages, result : Results]
      /\ (h.notPosted => h.found = NoThread)
  BY ScreenKnown, IdleOK DEF HostOK, IdleWait, Stages
<1>1. done \in Hosts
  BY <1>0 DEF Hosts
<1>2. done.found = h.found /\ done.notPosted = h.notPosted
  BY <1>0 DEF Hosts
<1>3. /\ h.wait.result \in Results /\ h.wait.result.state # "null"
      /\ h.wait.result.state = "found" => h.wait.result.conv \in Convs
  BY DEF HostOK, Hosts, Answering, ReadAnswer, CallsFilled, Convs
<1>4. WaitLanded(h) = ApplyResult(done, h.wait.result)
  BY DEF WaitLanded
<1>. HIDE DEF done
<1>. QED BY <1>0, <1>1, <1>2, <1>3, <1>4, ApplyResultScreen

LEMMA PollScreen ==
  ASSUME NEW p \in Pages, NEW h \in Hosts, Screen(p, h)
  PROVE  Screen(p, OnPollTick(h))
BY ScreenKnown, ReadAsyncScreen DEF OnPollTick

LEMMA SendMurmurs ==
  ASSUME NEW h \in Hosts, FoundFilled(h), NEW text \in Texts
  PROVE  Murmurs(SendAsync(h, text), h)
<1>1. CASE Busy(h.send)
  BY <1>1, FieldMurmurs DEF SendAsync
<1>2. CASE ~Busy(h.send) /\ h.found = NoThread
  BY <1>2, SaysMurmur DEF SendAsync, Answered
<1>3. CASE ~Busy(h.send) /\ h.found # NoThread
  <2>. DEFINE s == [IdleSend EXCEPT !.stage = "asked", !.conv = h.found.conv, !.text = text]
              f == [h EXCEPT !.send = s]
  <2>1. s \in [stage : Stages, conv : Convs \cup {""}, text : Texts \cup {""},
               answer : Answered \cup {""}, after : Results]
    BY <1>3, IdleOK DEF IdleSend, Stages, NoResult, Result, FoundFilled
  <2>2. SendAsync(h, text) = ShowSendState(f, "sending")
    BY <1>3 DEF SendAsync
  <2>. HIDE DEF s
  <2>3. f \in Hosts
    BY ZenonT(60), <2>1 DEF Hosts
  <2>4. /\ f.found = h.found /\ f.notPosted = h.notPosted /\ f.state = h.state /\ f.inline = h.inline
        /\ f.out = h.out /\ f.read = h.read /\ f.readAgain = h.readAgain /\ f.wait = h.wait
        /\ f.chosen = h.chosen
    BY DEF Hosts
  <2>. HIDE DEF f
  <2>5. Murmurs(f, h)
    BY <2>3, <2>4, FieldMurmurs DEF Replaced
  <2>6. Murmurs(ShowSendState(f, "sending"), f)
    BY <2>3, SaysMurmur
  <2>. QED BY <2>2, <2>5, <2>6, MurmursTrans
<1>. QED BY <1>1, <1>2, <1>3

LEMMA ChangeMurmurs ==
  ASSUME NEW h \in Hosts, FoundFilled(h), NEW what \in {"edit", "delete"}, NEW id \in Ids
  PROVE  Murmurs(ChangeAsync(h, what, id), h)
<1>0. /\ StateType(what) \in {"editState", "deleteState"}
      /\ Doing(what) \in {"saving", "deleting"}
  BY DEF StateType, Doing
<1>1. CASE h.found = NoThread \/ Busy(h.change)
  BY <1>0, <1>1, SaysMurmur DEF ChangeAsync
<1>2. CASE ~(h.found = NoThread \/ Busy(h.change))
  <2>. DEFINE c == [IdleChange EXCEPT !.stage = "asked", !.what = what, !.conv = h.found.conv, !.id = id]
              f == [h EXCEPT !.change = c]
              g == PostChangeState(f, StateType(what), id, Doing(what))
  <2>1. c \in [stage : Stages, what : {"edit", "delete", ""}, conv : Convs \cup {""}, id : Ids \cup {""},
               answer : Answered \cup {""}, after : Results]
    BY <1>2, IdleOK DEF IdleChange, Stages, NoResult, Result, FoundFilled
  <2>2. ChangeAsync(h, what, id) = g
    BY <1>2 DEF ChangeAsync
  <2>. HIDE DEF c
  <2>3. f \in Hosts
    BY ZenonT(60), <2>1 DEF Hosts
  <2>4. /\ f.found = h.found /\ f.notPosted = h.notPosted /\ f.state = h.state /\ f.inline = h.inline
        /\ f.out = h.out /\ f.read = h.read /\ f.readAgain = h.readAgain /\ f.wait = h.wait
        /\ f.chosen = h.chosen
    BY DEF Hosts
  <2>. HIDE DEF f
  <2>5. Murmurs(f, h)
    BY <2>3, <2>4, FieldMurmurs DEF Replaced
  <2>6. Murmurs(g, f)
    BY <1>0, <2>3, SaysMurmur
  <2>. QED BY <2>2, <2>5, <2>6, MurmursTrans
<1>. QED BY <1>1, <1>2

LEMMA AskingMurmurs ==
  ASSUME NEW h \in Hosts, NEW s \in SUBSET Ids
  PROVE  LET f == [h EXCEPT !.asking = s] IN Murmurs(f, h)
<1>. DEFINE f == [h EXCEPT !.asking = s]
<1>1. f \in Hosts
  BY DEF Hosts
<1>2. /\ f.found = h.found /\ f.notPosted = h.notPosted /\ f.state = h.state /\ f.inline = h.inline
      /\ f.out = h.out /\ f.read = h.read /\ f.readAgain = h.readAgain /\ f.wait = h.wait
      /\ f.chosen = h.chosen
  BY DEF Hosts
<1>. HIDE DEF f
<1>3. Murmurs(f, h)
  BY <1>1, <1>2, FieldMurmurs DEF Replaced
<1>. QED BY <1>3 DEF f

LEMMA ConfirmMurmurs ==
  ASSUME NEW h \in Hosts, FoundFilled(h), NEW id \in Ids, NEW yes \in BOOLEAN
  PROVE  Murmurs(ConfirmDelete(h, id, yes), h)
<1>. DEFINE f == [h EXCEPT !.asking = h.asking \ {id}]
<1>1. h.asking \ {id} \in SUBSET Ids
  BY DEF Hosts
<1>2. Murmurs(f, h)
  BY <1>1, AskingMurmurs
<1>3. ConfirmDelete(h, id, yes) =
        IF yes THEN ChangeAsync(f, "delete", id) ELSE PostChangeState(f, "deleteState", id, "cancelled")
  BY DEF ConfirmDelete
<1>. HIDE DEF f
<1>4. f \in Hosts /\ FoundFilled(f)
  BY <1>2 DEF Murmurs, FoundFilled
<1>5. Murmurs(ChangeAsync(f, "delete", id), f) /\ Murmurs(PostChangeState(f, "deleteState", id, "cancelled"), f)
  BY <1>4, ChangeMurmurs, SaysMurmur
<1>. QED BY <1>2, <1>3, <1>5, MurmursTrans

LEMMA PostMurmurs ==
  ASSUME NEW h \in Hosts, NEW text \in Posts
  PROVE  Murmurs(PostToTeamsAsync(h, text), h)
<1>1. CASE Busy(h.post)
  BY <1>1, FieldMurmurs DEF PostToTeamsAsync
<1>2. CASE ~Busy(h.post) /\ ~h.notPosted
  BY <1>2, SaysMurmur DEF PostToTeamsAsync, Answered
<1>3. CASE ~Busy(h.post) /\ h.notPosted
  <2>. DEFINE w == [h EXCEPT !.warned = text]
              t == [IdlePost EXCEPT !.stage = "asked", !.text = text]
              n == [h EXCEPT !.warned = "", !.postUncertain = FALSE, !.post = t]
  <2>1. t \in [stage : Stages, text : Posts \cup {""}, answer : Answered \cup {""}]
    BY DEF IdlePost, Stages
  <2>2. PostToTeamsAsync(h, text) =
          IF MustWarn(h, text) THEN ShowPostState(w, "warning") ELSE ShowPostState(n, "posting")
    BY <1>3 DEF PostToTeamsAsync
  <2>. HIDE DEF t
  <2>3. w \in Hosts
    BY DEF Hosts
  <2>4. n \in Hosts
    BY ZenonT(60), <2>1 DEF Hosts
  <2>5. /\ w.found = h.found /\ w.notPosted = h.notPosted /\ w.state = h.state /\ w.inline = h.inline
        /\ w.out = h.out /\ w.read = h.read /\ w.readAgain = h.readAgain /\ w.wait = h.wait
        /\ w.chosen = h.chosen
    BY DEF Hosts
  <2>6. /\ n.found = h.found /\ n.notPosted = h.notPosted /\ n.state = h.state /\ n.inline = h.inline
        /\ n.out = h.out /\ n.read = h.read /\ n.readAgain = h.readAgain /\ n.wait = h.wait
        /\ n.chosen = h.chosen
    BY DEF Hosts
  <2>. HIDE DEF w, n
  <2>7. Murmurs(w, h) /\ Murmurs(n, h)
    BY <2>3, <2>4, <2>5, <2>6, FieldMurmurs DEF Replaced
  <2>8. Murmurs(ShowPostState(w, "warning"), w) /\ Murmurs(ShowPostState(n, "posting"), n)
    BY <2>3, <2>4, SaysMurmur
  <2>. QED BY <2>2, <2>7, <2>8, MurmursTrans
<1>. QED BY <1>1, <1>2, <1>3

LEMMA SendLandedScreen ==
  ASSUME NEW p \in Pages, NEW h, HostOK(h), h.send.stage = "served", Screen(p, h)
  PROVE  Screen(p, SendLanded(h))
<1>. DEFINE r == h.send.after
            done == [h EXCEPT !.send = IdleSend]
            g == ShowSendState(done, h.send.answer)
<1>0. h \in Hosts /\ h.send.answer \in Answered
  <2>1. h \in Hosts /\ h.send.answer # ""
    BY DEF HostOK, Answering, CallsFilled
  <2>. QED BY <2>1 DEF Hosts
<1>1. done \in Hosts
  <2>1. IdleSend \in [stage : Stages, conv : Convs \cup {""}, text : Texts \cup {""},
                      answer : Answered \cup {""}, after : Results]
    BY IdleOK DEF IdleSend, Stages
  <2>. QED BY ZenonT(60), <1>0, <2>1 DEF Hosts
<1>2. /\ done.found = h.found /\ done.notPosted = h.notPosted /\ done.state = h.state
      /\ done.inline = h.inline /\ done.out = h.out /\ done.read = h.read
      /\ done.readAgain = h.readAgain /\ done.wait = h.wait /\ done.chosen = h.chosen
  BY <1>0 DEF Hosts
<1>3. SendLanded(h) = IF h.send.answer = "sent" THEN ShowAfter(g, r) ELSE g
  BY DEF SendLanded
<1>4. r \in Results /\ (r.state = "found" => r.conv \in Convs)
  <2>1. r \in Results
    BY <1>0 DEF Hosts
  <2>. QED BY <2>1 DEF HostOK, Answering, AfterAnswer, CallsFilled, Busy
<1>. HIDE DEF r, done
<1>5. Murmurs(done, h)
  BY <1>0, <1>1, <1>2, FieldMurmurs DEF Replaced
<1>6. Murmurs(g, done)
  BY <1>0, <1>1, SaysMurmur
<1>. HIDE DEF g
<1>7. g \in Hosts /\ Screen(p, g)
  BY <1>0, <1>5, <1>6, MurmursTrans, MurmursScreen DEF Murmurs
<1>8. Screen(p, ShowAfter(g, r))
  BY <1>4, <1>7, ScreenKnown, ShowAfterScreen
<1>. QED BY <1>3, <1>7, <1>8

LEMMA ChangeLandedScreen ==
  ASSUME NEW p \in Pages, NEW h, HostOK(h), h.change.stage = "served", Screen(p, h)
  PROVE  Screen(p, ApplyChangeResult(h))
<1>. DEFINE c == h.change
            r == c.after
            done == [h EXCEPT !.change = IdleChange]
            word == IF c.answer = "sent" THEN Done(c.what) ELSE c.answer
            g == PostChangeState(done, StateType(c.what), c.id, word)
<1>0. /\ h \in Hosts /\ c.answer \in Answered /\ c.id \in Ids /\ c.conv \in Convs
      /\ c.what \in {"edit", "delete"}
  <2>1. /\ h \in Hosts /\ c.answer # "" /\ Busy(c)
        /\ c.id \in Ids /\ c.conv \in Convs /\ c.what # ""
    BY DEF HostOK, Answering, CallsFilled, Busy
  <2>. QED BY <2>1 DEF Hosts
<1>1. done \in Hosts
  <2>1. IdleChange \in [stage : Stages, what : {"edit", "delete", ""}, conv : Convs \cup {""},
                        id : Ids \cup {""}, answer : Answered \cup {""}, after : Results]
    BY IdleOK DEF IdleChange, Stages
  <2>. QED BY ZenonT(60), <1>0, <2>1 DEF Hosts
<1>2. /\ done.found = h.found /\ done.notPosted = h.notPosted /\ done.state = h.state
      /\ done.inline = h.inline /\ done.out = h.out /\ done.read = h.read
      /\ done.readAgain = h.readAgain /\ done.wait = h.wait /\ done.chosen = h.chosen
  BY <1>0 DEF Hosts
<1>3. ApplyChangeResult(h) =
        CASE c.answer = "uncertain" -> ReadAsync(g, FALSE)
          [] c.answer = "sent" -> ShowAfter(g, r)
          [] OTHER -> g
  BY DEF ApplyChangeResult
<1>4. r \in Results /\ (r.state = "found" => r.conv \in Convs)
  <2>1. r \in Results
    BY <1>0 DEF Hosts
  <2>. QED BY <1>0, <2>1 DEF HostOK, Answering, AfterAnswer
<1>5. /\ StateType(c.what) \in {"editState", "deleteState"}
      /\ word \in {"saved", "deleted", "failed", "uncertain"}
  BY <1>0 DEF StateType, Done, Answered
<1>. HIDE DEF r, c, word, done
<1>6. Murmurs(done, h)
  BY <1>0, <1>1, <1>2, FieldMurmurs DEF Replaced
<1>7. Murmurs(g, done)
  BY <1>0, <1>1, <1>5, SaysMurmur
<1>. HIDE DEF g
<1>8. g \in Hosts /\ Screen(p, g)
  BY <1>0, <1>6, <1>7, MurmursTrans, MurmursScreen DEF Murmurs
<1>9. Screen(p, ShowAfter(g, r)) /\ Screen(p, ReadAsync(g, FALSE))
  BY <1>4, <1>8, ScreenKnown, ShowAfterScreen, ReadAsyncScreen
<1>. QED BY <1>0, <1>3, <1>8, <1>9 DEF Answered

LEMMA WaitForPostScreen ==
  ASSUME NEW p \in Pages, NEW h \in Hosts, Screen(p, h)
  PROVE  Screen(p, WaitForPostAsync(h))
<1>1. CASE Busy(h.wait)
  BY <1>1 DEF WaitForPostAsync
<1>2. CASE ~Busy(h.wait)
  <2>. DEFINE w == [IdleWait EXCEPT !.stage = "asked"]
              f == [h EXCEPT !.wait = w]
              g == ShowState(f, "waitingPost", FALSE)
  <2>0. w \in [stage : Stages, result : Results] /\ Busy(w)
    BY IdleOK DEF IdleWait, Stages, Busy
  <2>1. WaitForPostAsync(h) = g
    BY <1>2 DEF WaitForPostAsync
  <2>. HIDE DEF w
  <2>2. f \in Hosts
    BY <2>0 DEF Hosts
  <2>3. f.wait = w /\ f.found = h.found /\ f.notPosted = h.notPosted
    BY DEF Hosts
  <2>. HIDE DEF f
  <2>4. g \in Hosts /\ Same(g, f)
    BY <2>2, ShowStateOK DEF Panels
  <2>. HIDE DEF g
  <2>5. Replaced(g) /\ g.found = h.found /\ g.notPosted = h.notPosted
    BY <2>0, <2>3, <2>4 DEF Same, Replaced
  <2>. QED BY <2>1, <2>5, ScreenKnown, SureScreen
<1>. QED BY <1>1, <1>2

LEMMA PostLandedScreen ==
  ASSUME NEW p \in Pages, NEW h, HostOK(h), h.post.stage = "served", Screen(p, h)
  PROVE  Screen(p, PostLanded(h))
<1>. DEFINE a == h.post.answer
            done == [h EXCEPT !.post = IdlePost]
            f == ShowPostState(done, a)
<1>0. h \in Hosts /\ a \in Answered
  <2>1. h \in Hosts /\ a # ""
    BY DEF HostOK, Answering, CallsFilled
  <2>. QED BY <2>1 DEF Hosts
<1>1. IdlePost \in [stage : Stages, text : Posts \cup {""}, answer : Answered \cup {""}]
  BY DEF IdlePost, Stages
<1>2. done \in Hosts
  BY <1>0, <1>1 DEF Hosts
<1>3. /\ done.found = h.found /\ done.notPosted = h.notPosted /\ done.state = h.state
      /\ done.inline = h.inline /\ done.out = h.out /\ done.read = h.read
      /\ done.readAgain = h.readAgain /\ done.wait = h.wait /\ done.chosen = h.chosen
  BY <1>0 DEF Hosts
<1>4. PostLanded(h) =
        CASE a = "uncertain" -> ReadAsync([f EXCEPT !.postUncertain = TRUE], FALSE)
          [] a = "sent" -> WaitForPostAsync([f EXCEPT !.postedAt = TRUE])
          [] OTHER -> f
  BY DEF PostLanded
<1>. HIDE DEF a, done
<1>5. Murmurs(done, h)
  BY <1>0, <1>2, <1>3, FieldMurmurs DEF Replaced
<1>6. Murmurs(f, done)
  BY <1>0, <1>2, SaysMurmur
<1>. HIDE DEF f
<1>7. f \in Hosts /\ Screen(p, f)
  BY <1>0, <1>5, <1>6, MurmursTrans, MurmursScreen DEF Murmurs
<1>8. ASSUME NEW x \in Hosts, Screen(p, x)
      PROVE  Screen(p, ReadAsync([x EXCEPT !.postUncertain = TRUE], FALSE))
  <2>. DEFINE y == [x EXCEPT !.postUncertain = TRUE]
  <2>1. y \in Hosts
    BY DEF Hosts
  <2>2. y.found = x.found /\ y.notPosted = x.notPosted
    BY DEF Hosts
  <2>. HIDE DEF y
  <2>3. Screen(p, ReadAsync(y, FALSE))
    BY <1>8, <2>1, <2>2, ScreenKnown, ReadAsyncScreen
  <2>. QED BY <2>3 DEF y
<1>9. ASSUME NEW x \in Hosts, Screen(p, x)
      PROVE  Screen(p, WaitForPostAsync([x EXCEPT !.postedAt = TRUE]))
  <2>. DEFINE y == [x EXCEPT !.postedAt = TRUE]
  <2>1. y \in Hosts
    BY DEF Hosts
  <2>2. /\ y.found = x.found /\ y.notPosted = x.notPosted /\ y.state = x.state
        /\ y.inline = x.inline /\ y.out = x.out /\ y.read = x.read
        /\ y.readAgain = x.readAgain /\ y.wait = x.wait /\ y.chosen = x.chosen
    BY DEF Hosts
  <2>. HIDE DEF y
  <2>3. Screen(p, y)
    BY <1>9, <2>1, <2>2, FieldMurmurs, MurmursScreen DEF Replaced
  <2>4. Screen(p, WaitForPostAsync(y))
    BY <2>1, <2>3, WaitForPostScreen
  <2>. QED BY <2>4 DEF y
<1>10. CASE a = "uncertain"
  BY <1>4, <1>7, <1>8, <1>10
<1>11. CASE a = "sent"
  BY <1>4, <1>7, <1>9, <1>11
<1>12. CASE a = "failed"
  BY <1>4, <1>7, <1>12
<1>. QED BY <1>0, <1>10, <1>11, <1>12 DEF Answered

\* The repeat ends with the thread or the draft itself, whatever was repeated before.
LEMMA LanguageScreen ==
  ASSUME NEW p \in Pages, NEW h \in Hosts, Screen(p, h)
  PROVE  Screen(p, OnLanguageChanged(h))
<1>. DEFINE ms == [type |-> "sendState", kind |-> h.sendState, again |-> TRUE]
            mp == [type |-> "postState", kind |-> h.postState, again |-> TRUE]
            h1 == IF h.state = "" THEN h ELSE ShowState(h, h.state, h.inline)
            h2 == IF h.sendState = "" THEN h1 ELSE Say(h1, ms)
            h3 == IF h.postState = "" THEN h2 ELSE Say(h2, mp)
            h4 == IF h.lastChats = {} THEN h3 ELSE PostConversations(h3)
            h5 == IF h.found = NoThread THEN h4 ELSE PostThread(h4)
<1>0. /\ h.state \in Panels \cup {""} /\ h.inline \in BOOLEAN
      /\ h.sendState \in Answered \cup {"sending", ""}
      /\ h.postState \in Answered \cup {"posting", "warning", ""}
  BY DEF Hosts
<1>1. /\ h.sendState # "" => ms \in HostMessages /\ ms.type = "sendState"
      /\ h.postState # "" => mp \in HostMessages /\ mp.type = "postState"
  BY <1>0, StateMessages
<1>2. OnLanguageChanged(h) = PostDraft(h5, FALSE)
  BY DEF OnLanguageChanged
<1>. HIDE DEF ms, mp
<1>3. /\ h1 \in Hosts /\ h1.found = h.found /\ h1.notPosted = h.notPosted /\ StateKnown(h1)
      /\ h.found = NoThread => Screen(p, h1)
  <2>1. CASE h.state = ""
    BY <2>1, ScreenKnown
  <2>2. CASE h.state # ""
    <3>. DEFINE g == ShowState(h, h.state, h.inline)
    <3>1. g \in Hosts /\ Same(g, h)
      BY <1>0, <2>2, ShowStateOK
    <3>2. h1 = g
      BY <2>2
    <3>3. g.state = h.state /\ g.inline = h.inline
      BY DEF ShowState, Say, Hosts
    <3>4. h.found = NoThread => Screen(p, g)
      BY <1>0, <2>2, ScreenKnown, ShowStateScreen DEF StateKnown
    <3>. HIDE DEF g, h1
    <3>5. StateKnown(g)
      BY <3>1, <3>3, ScreenKnown, SameKeeps DEF StateKnown, Same
    <3>. QED BY <3>1, <3>2, <3>4, <3>5 DEF Same
  <2>. QED BY <2>1, <2>2
<1>. HIDE DEF h1
<1>4. Murmurs(h2, h1)
  BY <1>1, <1>3, SayMurmurs, FieldMurmurs
<1>. HIDE DEF h2
<1>5. Murmurs(h3, h2)
  BY <1>1, <1>4, SayMurmurs, FieldMurmurs DEF Murmurs
<1>. HIDE DEF h3
<1>6. Murmurs(h4, h3)
  BY <1>5, SaysMurmur, FieldMurmurs DEF Murmurs
<1>. HIDE DEF h4
<1>7. Murmurs(h4, h1)
  BY <1>4, <1>5, <1>6, MurmursTrans
<1>8. h4 \in Hosts /\ h4.found = h.found /\ h4.notPosted = h.notPosted /\ StateKnown(h4)
  BY <1>3, <1>7 DEF Murmurs, StateKnown
<1>9. CASE h.found = NoThread
  <2>1. h5 = h4 /\ Screen(p, h4)
    BY <1>3, <1>7, <1>9, MurmursScreen
  <2>. HIDE DEF h5
  <2>. QED BY <1>2, <1>8, <2>1, PostDraftScreen
<1>10. CASE h.found # NoThread
  <2>1. h5 = PostThread(h4) /\ Screen(p, PostThread(h4)) /\ PostThread(h4).notPosted = h4.notPosted
    BY <1>8, <1>10, PostThreadScreen
  <2>. HIDE DEF h5
  <2>2. ~h.notPosted
    BY <1>10, ScreenKnown
  <2>3. PostDraft(h5, FALSE) = h5
    BY <1>8, <2>1, <2>2 DEF PostDraft
  <2>. QED BY <1>2, <2>1, <2>3
<1>. QED BY <1>9, <1>10

-----------------------------------------------------------------------------
(* The screen holds. *)

LEMMA PaneScreen ==
  ASSUME NEW p, NEW q, NEW h, SamePane(q, p), Screen(p, h)
  PROVE  Screen(q, h)
BY DEF SamePane, Screen, Shows, Waits

LEMMA StaysScreen ==
  ASSUME NEW p, NEW g, NEW h, Screen(p, h), g.found = h.found, g.notPosted = h.notPosted,
         g.state = h.state, g.inline = h.inline, g.out = h.out, Replaced(h) => Replaced(g)
  PROVE  Screen(p, g)
BY DEF Screen, StateKnown

LEMMA ActsPane ==
  ASSUME NEW p \in Pages
  PROVE  /\ \A t \in Texts : SamePane(PutReply(p, t), p)
         /\ SamePane(PressSend(p), p) /\ SamePane(PressRefresh(p), p) /\ SamePane(PressReload(p), p)
         /\ \A c \in Convs : SamePane(PickConversation(p, c), p)
         /\ \A o \in Own : SamePane(EditPost(p, o), p)
         /\ SamePane(PressPost(p), p) /\ SamePane(SaveEdit(p), p) /\ SamePane(CancelEdit(p), p)
         /\ \A id \in Ids : SamePane(StartEdit(p, id), p) /\ SamePane(PressDelete(p, id), p)
         /\ SamePane([p EXCEPT !.out = Tail(@)], p)
<1>1. \A t \in Texts : SamePane(PutReply(p, t), p)
  BY DEF SamePane, Pages, PutReply
<1>2. SamePane(PressSend(p), p)
  BY DEF SamePane, Pages, PressSend, Say
<1>3. SamePane(PressRefresh(p), p) /\ SamePane(PressReload(p), p)
  BY DEF SamePane, Pages, PressRefresh, PressReload, Say
<1>4. \A c \in Convs : SamePane(PickConversation(p, c), p)
  BY DEF SamePane, Pages, PickConversation, Say
<1>5. \A o \in Own : SamePane(EditPost(p, o), p)
  BY DEF SamePane, Pages, EditPost
<1>6. SamePane(PressPost(p), p) /\ SamePane(CancelEdit(p), p)
  BY DEF SamePane, Pages, PressPost, CancelEdit, Say
<1>7. SamePane(SaveEdit(p), p)
  BY DEF SamePane, Pages, SaveEdit, Say
<1>8. \A id \in Ids : SamePane(StartEdit(p, id), p) /\ SamePane(PressDelete(p, id), p)
  BY DEF SamePane, Pages, StartEdit, PressDelete, Say
<1>9. SamePane([p EXCEPT !.out = Tail(@)], p)
  BY DEF SamePane, Pages
<1>. QED BY <1>1, <1>2, <1>3, <1>4, <1>5, <1>6, <1>7, <1>8, <1>9

LEMMA TurnsStay ==
  ASSUME NEW p, NEW q, NEW m, SamePane(q, p), m.type \notin {"thread", "draft", "state"}
  PROVE  Turns(q, p, m)
BY DEF SamePane, Turns, Moves, Begins, Ends, IsPanel

LEMMA PageTurns ==
  ASSUME NEW p \in Pages, NEW m \in HostMessages
  PROVE  /\ m.type = "state" => Turns(ShowStatePanel(p, m), p, m)
         /\ m.type = "thread" => Turns(ShowThreadOnPage(p, m), p, m)
         /\ m.type = "conversations" => Turns(ApplyConversations(p, m), p, m)
         /\ m.type = "editState" => Turns(ShowEditState(p, m), p, m)
         /\ m.type = "deleteState" => Turns(ShowDeleteState(p, m), p, m)
         /\ m.type = "draft" => Turns(ShowDraft(p, m), p, m)
         /\ m.type = "sendState" => Turns(ShowSendStateOnPage(p, m), p, m)
         /\ m.type = "postState" => Turns(ShowPostStateOnPage(p, m), p, m)
<1>1. ASSUME m.type = "state" PROVE Turns(ShowStatePanel(p, m), p, m)
  <2>1. CASE m.inline \/ (m.kind = "loading" /\ p.mode # "none")
    <3>1. ShowStatePanel(p, m) = p /\ ~Ends(m) /\ ~Moves(m)
      BY <1>1, <2>1 DEF ShowStatePanel, Ends, Moves, IsPanel, Waiting
    <3>. QED BY <1>1, <3>1 DEF Turns
  <2>2. CASE ~(m.inline \/ (m.kind = "loading" /\ p.mode # "none"))
    <3>. DEFINE q == ShowStatePanel(p, m)
    <3>1. q.panel = m.kind
      BY <2>2 DEF ShowStatePanel, SetMode, Pages
    <3>2. Begins(m) \/ Ends(m)
      BY <1>1, <2>2 DEF Begins, Ends, IsPanel
    <3>3. ~Moves(m) => p.mode = "none"
      BY <1>1, <2>2 DEF Moves, IsPanel
    <3>4. Ends(m) => m.kind \notin Waiting
      BY <1>1 DEF Ends
    <3>. HIDE DEF q
    <3>5. Turns(q, p, m)
      BY <1>1, <3>1, <3>2, <3>3, <3>4 DEF Turns
    <3>. QED BY <3>5 DEF q
  <2>. QED BY <2>1, <2>2
<1>2. ASSUME m.type = "thread" PROVE Turns(ShowThreadOnPage(p, m), p, m)
  <2>. DEFINE q == ShowThreadOnPage(p, m)
  <2>1. q.mode = "thread" /\ q.thread = m.thread /\ q.panel = "hidden"
    BY DEF ShowThreadOnPage, RenderThread, SetMode, Pages
  <2>2. Moves(m) /\ Ends(m)
    BY <1>2 DEF Moves, Ends
  <2>. HIDE DEF q
  <2>3. Turns(q, p, m)
    BY <2>1, <2>2 DEF Turns, Waiting
  <2>. QED BY <2>3 DEF q
<1>3. ASSUME m.type = "draft" PROVE Turns(ShowDraft(p, m), p, m)
  <2>. DEFINE q == ShowDraft(p, m)
  <2>1. q.panel = "hidden"
    BY DEF ShowDraft, SetMode, Pages
  <2>2. Moves(m) /\ Ends(m)
    BY <1>3 DEF Moves, Ends
  <2>. HIDE DEF q
  <2>3. Turns(q, p, m)
    BY <1>3, <2>1, <2>2 DEF Turns, Waiting
  <2>. QED BY <2>3 DEF q
<1>4. ASSUME m.type = "conversations" PROVE Turns(ApplyConversations(p, m), p, m)
  <2>1. SamePane(ApplyConversations(p, m), p)
    BY DEF ApplyConversations, SamePane, Pages
  <2>. QED BY <1>4, <2>1, TurnsStay
<1>5. ASSUME m.type = "editState" PROVE Turns(ShowEditState(p, m), p, m)
  <2>1. SamePane(ShowEditState(p, m), p)
    BY DEF ShowEditState, SamePane, Pages
  <2>. QED BY <1>5, <2>1, TurnsStay
<1>6. ASSUME m.type = "deleteState" PROVE Turns(ShowDeleteState(p, m), p, m)
  <2>1. SamePane(ShowDeleteState(p, m), p)
    BY DEF ShowDeleteState, RenderThread, SamePane, Pages
  <2>. QED BY <1>6, <2>1, TurnsStay
<1>7. ASSUME m.type = "sendState" PROVE Turns(ShowSendStateOnPage(p, m), p, m)
  <2>1. SamePane(ShowSendStateOnPage(p, m), p)
    BY DEF ShowSendStateOnPage, SamePane, Pages
  <2>. QED BY <1>7, <2>1, TurnsStay
<1>8. ASSUME m.type = "postState" PROVE Turns(ShowPostStateOnPage(p, m), p, m)
  <2>1. SamePane(ShowPostStateOnPage(p, m), p)
    BY DEF ShowPostStateOnPage, SamePane, Pages
  <2>. QED BY <1>8, <2>1, TurnsStay
<1>. QED BY <1>1, <1>2, <1>3, <1>4, <1>5, <1>6, <1>7, <1>8

LEMMA ShownScreen ==
  ASSUME page \in Pages, host \in Hosts, host.out # <<>>, NEW p \in Pages, Turns(p, page, News), Shown(p),
         ScreenNow
  PROVE  ScreenNow'
<1>1. page' = p /\ host' = [host EXCEPT !.out = Tail(@)]
  BY DEF Shown
<1>2. /\ host'.found = host.found /\ host'.notPosted = host.notPosted /\ host'.state = host.state
      /\ host'.inline = host.inline /\ host'.out = Tail(host.out) /\ (Replaced(host') <=> Replaced(host))
  BY <1>1 DEF Hosts, Replaced
<1>3. /\ \A th : Shows(page, host.out, th) => Shows(p, Tail(host.out), th)
      /\ Waits(p, Tail(host.out)) => Waits(page, host.out)
  BY OutOK, QueueHeard DEF News
<1>4. Screen(p, host')
  BY <1>2, <1>3 DEF ScreenNow, Screen, StateKnown
<1>. QED BY <1>1, <1>4 DEF ScreenNow

LEMMA PageHearsScreen ==
  ASSUME Inv, PageHears, ScreenNow
  PROVE  ScreenNow'
<1>0. page \in Pages /\ host \in Hosts
  BY DEF Inv, HostInv, HostOK
<1>1. host.out # <<>> /\ News \in HostMessages
  <2>1. host.out # <<>>
    BY DEF PageHears, PageState, PageThread, PageConversations, PageEditState, PageDeleteState,
           PageDraft, PageSendState, PagePostState, Told
  <2>. QED BY <1>0, <2>1, HostDrops DEF News
<1>2. PICK p \in Pages : Shown(p) /\ Turns(p, page, News)
  <2>1. CASE PageState \/ PageThread \/ PageConversations \/ PageEditState
    BY <1>0, <1>1, <2>1, PageShows, PageTurns DEF PageState, PageThread, PageConversations, PageEditState, Told
  <2>2. CASE PageDeleteState \/ PageDraft \/ PageSendState \/ PagePostState
    BY <1>0, <1>1, <2>2, PageShows, PageTurns DEF PageDeleteState, PageDraft, PageSendState, PagePostState, Told
  <2>. QED BY <2>1, <2>2 DEF PageHears
<1>. QED BY <1>0, <1>1, <1>2, ShownScreen

LEMMA HostScreen ==
  ASSUME page \in Pages, SamePane(page', page), NEW h, Screen(page, h), host' = h
  PROVE  ScreenNow'
BY PaneScreen DEF ScreenNow

LEMMA UserScreen ==
  ASSUME Inv, UserNext, ScreenNow
  PROVE  ScreenNow'
<1>0. page \in Pages /\ HostOK(host) /\ host \in Hosts /\ Screen(page, host) /\ FoundFilled(host)
  BY DEF Inv, HostInv, HostOK, ScreenNow
<1>1. ASSUME NEW p, SamePane(p, page), OnPage(p) PROVE ScreenNow'
  BY <1>0, <1>1, PaneScreen DEF OnPage, ScreenNow
<1>2. ASSUME NEW h, Screen(page, h), NEW kind, ByHost(h, kind) PROVE ScreenNow'
  BY <1>2 DEF ByHost, Step, ScreenNow
<1>3. ASSUME NEW t \in Texts, WriteReply(t) \/ PutWhileSending(t) PROVE ScreenNow'
  BY <1>0, <1>1, <1>3, ActsPane DEF WriteReply, PutWhileSending
<1>4. CASE ClickSend \/ ClickRefresh \/ ClickReload \/ ClickPost \/ ClickSave \/ EscapeEdit
  BY <1>0, <1>1, <1>4, ActsPane
     DEF ClickSend, ClickRefresh, ClickReload, ClickPost, ClickSave, EscapeEdit, UserActs
<1>5. CASE ClickConversation \/ TypePost \/ OpenEdit \/ ClickDelete
  BY <1>0, <1>1, <1>5, ActsPane DEF ClickConversation, TypePost, OpenEdit, ClickDelete, UserActs
<1>6. CASE ShowTab
  BY <1>0, <1>2, <1>6, ActivateScreen DEF ShowTab
<1>7. CASE PollTick
  BY <1>0, <1>2, <1>7, PollScreen DEF PollTick
<1>8. CASE SwitchLanguage
  BY <1>0, <1>2, <1>8, LanguageScreen DEF SwitchLanguage
<1>9. CASE RewriteDraft
  <2>1. PICK d \in Drafts : ByHost([host EXCEPT !.file = d], "rewrite")
    BY <1>9 DEF RewriteDraft
  <2>. DEFINE g == [host EXCEPT !.file = d]
  <2>2. /\ g.found = host.found /\ g.notPosted = host.notPosted /\ g.state = host.state
        /\ g.inline = host.inline /\ g.out = host.out /\ (Replaced(g) <=> Replaced(host))
    BY <1>0 DEF Hosts, Replaced
  <2>. HIDE DEF g
  <2>3. Screen(page, g)
    BY <1>0, <2>2, StaysScreen
  <2>. QED BY <1>2, <2>1, <2>3 DEF g
<1>10. CASE AnswerDialog
  <2>1. PICK id \in host.asking, yes \in BOOLEAN : Step(ConfirmDelete(host, id, yes), past) /\ page' = page
    BY <1>10 DEF AnswerDialog
  <2>2. id \in Ids
    BY <1>0 DEF Hosts
  <2>3. Screen(page, ConfirmDelete(host, id, yes))
    BY <1>0, <2>2, ConfirmMurmurs, MurmursScreen
  <2>. QED BY <2>1, <2>3 DEF Step, ScreenNow
<1>. QED BY <1>3, <1>4, <1>5, <1>6, <1>7, <1>8, <1>9, <1>10 DEF UserNext

LEMMA HostHearsScreen ==
  ASSUME Inv, HostHears, ScreenNow
  PROVE  ScreenNow'
<1>0. page \in Pages /\ host \in Hosts /\ Screen(page, host) /\ FoundFilled(host)
  BY DEF Inv, HostInv, HostOK, ScreenNow
<1>1. ASSUME page.out # <<>> PROVE Message \in PageMessages
  BY <1>0, <1>1, PageDrops DEF Message
<1>2. ASSUME NEW h, NEW p, Took(h, p), Screen(page, h) PROVE ScreenNow'
  BY <1>0, <1>2, ActsPane, HostScreen DEF Took, Step
<1>3. CASE HearRefresh
  BY <1>0, <1>2, <1>3, ReadAsyncScreen, ScreenKnown DEF HearRefresh
<1>4. CASE HearSelect
  <2>1. Message.conv \in Convs
    BY <1>1, <1>4, PageMessageTypes DEF HearSelect, Asked
  <2>. QED BY <1>0, <1>2, <1>4, <2>1, SelectScreen DEF HearSelect
<1>5. CASE HearReload
  BY <1>0, <1>2, <1>5, PostDraftScreen, ScreenKnown DEF HearReload
<1>6. CASE HearSend
  <2>1. Message.text \in Texts
    BY <1>1, <1>6, PageMessageTypes DEF HearSend, Asked
  <2>. QED BY <1>0, <1>2, <1>6, <2>1, SendMurmurs, MurmursScreen DEF HearSend
<1>7. CASE HearEdit
  <2>1. Message.id \in Ids
    BY <1>1, <1>7, PageMessageTypes DEF HearEdit, Asked
  <2>. QED BY <1>0, <1>2, <1>7, <2>1, ChangeMurmurs, MurmursScreen DEF HearEdit
<1>8. CASE HearDelete
  <2>1. Message.id \in Ids
    BY <1>1, <1>8, PageMessageTypes DEF HearDelete, Asked
  <2>2. host.asking \cup {Message.id} \in SUBSET Ids
    BY <1>0, <2>1 DEF Hosts
  <2>3. Screen(page, AskDelete(host, Message.id))
    BY <1>0, <2>2, AskingMurmurs, MurmursScreen DEF AskDelete
  <2>. QED BY <1>2, <1>8, <2>3 DEF HearDelete
<1>9. CASE HearPost
  <2>1. Message.text \in Posts
    BY <1>1, <1>9, PageMessageTypes DEF HearPost, Asked
  <2>. QED BY <1>0, <1>2, <1>9, <2>1, PostMurmurs, MurmursScreen DEF HearPost
<1>. QED BY <1>3, <1>4, <1>5, <1>6, <1>7, <1>8, <1>9 DEF HostHears

LEMMA AnswerFound ==
  ASSUME NEW conv, NEW faulty \in BOOLEAN, NEW r \in Answers(conv, faulty)
  PROVE  r = ReadOf(conv) \/ r.state # "found"
<1>1. Unread("failed").state # "found" /\ Unread("signedOut").state # "found"
  BY DEF Unread, Result
<1>2. r = ReadOf(conv) \/ r = Unread("failed") \/ r = Unread("signedOut")
  BY DEF Answers
<1>. QED BY <1>1, <1>2

\* What each answer of Teams changes of the host.
LEMMA ServeReadHost ==
  ASSUME Inv, ServeRead
  PROVE  /\ CallsOnly(host', host) /\ host'.wait = host.wait /\ host'.send = host.send
         /\ host'.post = host.post /\ host'.change = host.change
         /\ host.read.stage = "asked" /\ host'.read.stage = "served"
         /\ host'.read.conv = host.read.conv /\ host'.read.quiet = host.read.quiet
         /\ host'.read.result = ReadOf(ReadConv(host.read.conv)) \/ host'.read.result.state # "found"
         /\ page' = page /\ teams' = teams /\ past' = past
<1>0. host \in Hosts
  BY DEF Inv, HostInv, HostOK
<1>1. PICK faulty \in BOOLEAN : \E r \in Answers(ReadConv(host.read.conv), faulty) :
        /\ host.read.stage = "asked"
        /\ host' = [host EXCEPT !.read.stage = "served", !.read.result = r]
        /\ Fails(faulty) /\ UNCHANGED <<page, teams, past>>
  BY DEF ServeRead
<1>2. PICK r \in Answers(ReadConv(host.read.conv), faulty) :
        /\ host.read.stage = "asked"
        /\ host' = [host EXCEPT !.read.stage = "served", !.read.result = r]
        /\ UNCHANGED <<page, teams, past>>
  BY <1>1
<1>3. r = ReadOf(ReadConv(host.read.conv)) \/ r.state # "found"
  BY <1>2, AnswerFound
<1>4. /\ CallsOnly(host', host) /\ host'.wait = host.wait /\ host'.send = host.send
      /\ host'.post = host.post /\ host'.change = host.change
  BY <1>0, <1>2 DEF Hosts, CallsOnly
<1>5. /\ host'.read.stage = "served" /\ host'.read.result = r
      /\ host'.read.conv = host.read.conv /\ host'.read.quiet = host.read.quiet
  BY <1>0, <1>2 DEF Hosts
<1>. QED BY <1>2, <1>3, <1>4, <1>5

LEMMA ServeWaitHost ==
  ASSUME Inv, ServeWait
  PROVE  /\ CallsOnly(host', host) /\ host'.read = host.read /\ host'.send = host.send
         /\ host'.post = host.post /\ host'.change = host.change
         /\ host.wait.stage = "asked" /\ host'.wait.stage = "served"
         /\ host'.wait.result = ReadOf(Post) \/ host'.wait.result.state # "found"
         /\ page' = page /\ teams' = teams /\ past' = past
<1>0. host \in Hosts
  BY DEF Inv, HostInv, HostOK
<1>1. PICK faulty \in BOOLEAN : \E r \in Answers(Post, faulty) :
        /\ host.wait.stage = "asked"
        /\ host' = [host EXCEPT !.wait.stage = "served", !.wait.result = r]
        /\ Fails(faulty) /\ UNCHANGED <<page, teams, past>>
  BY DEF ServeWait
<1>2. PICK r \in Answers(Post, faulty) :
        /\ host.wait.stage = "asked"
        /\ host' = [host EXCEPT !.wait.stage = "served", !.wait.result = r]
        /\ UNCHANGED <<page, teams, past>>
  BY <1>1
<1>3. r = ReadOf(Post) \/ r.state # "found"
  BY <1>2, AnswerFound
<1>4. /\ CallsOnly(host', host) /\ host'.read = host.read /\ host'.send = host.send
      /\ host'.post = host.post /\ host'.change = host.change
  BY <1>0, <1>2 DEF Hosts, CallsOnly
<1>5. host'.wait.stage = "served" /\ host'.wait.result = r
  BY <1>0, <1>2 DEF Hosts
<1>. QED BY <1>2, <1>3, <1>4, <1>5

LEMMA ServeSendHost ==
  ASSUME Inv, ServeSend
  PROVE  LET s == host.send
             after == teams.in[s.conv] \cup {[id |-> s.text, ver |-> "first"]}
         IN  /\ CallsOnly(host', host) /\ host'.read = host.read /\ host'.wait = host.wait
             /\ host'.post = host.post /\ host'.change = host.change /\ page' = page
             /\ s.stage = "asked" /\ host'.send.stage = "served"
             /\ host'.send.conv = s.conv /\ host'.send.text = s.text
             /\ s.conv \in Convs /\ s.text \in Texts
             /\ host'.send.after = Reread(s.conv, after) \/ host'.send.after.state # "found"
             /\ \/ /\ teams' = [teams EXCEPT !.in[s.conv] = after]
                   /\ past'.acked = Forgotten(past.acked, s.conv, s.text)
                \/ /\ teams' = teams /\ past'.acked = past.acked
                   /\ host'.send.answer # "sent" /\ host'.send.after.state # "found"
             /\ past'.overlap = past.overlap
<1>0. host \in Hosts /\ past \in Pasts /\ Answering(host)
  BY DEF Inv, HostInv, HostOK
<1>. DEFINE s == host.send
            after == teams.in[s.conv] \cup {[id |-> s.text, ver |-> "first"]}
<1>1. PICK o \in Outcomes :
        /\ s.stage = "asked"
        /\ host' = [host EXCEPT !.send.stage = "served", !.send.answer = AnswerOf(o),
                      !.send.after = IF o = "sent" THEN Reread(s.conv, after) ELSE NoResult]
        /\ teams' = IF IsDone(o) THEN [teams EXCEPT !.in[s.conv] = after] ELSE teams
        /\ past' = IF ~IsDone(o) THEN past
                   ELSE [past EXCEPT !.copies[s.text] = @ + 1, !.acked = Forgotten(@, s.conv, s.text)]
        /\ UNCHANGED page
  BY DEF ServeSend
<1>2. s.conv \in Convs /\ s.text \in Texts
  BY <1>0, <1>1 DEF Answering, CallsFilled, Busy
<1>. DEFINE a == IF o = "sent" THEN Reread(s.conv, after) ELSE NoResult
<1>3. a = Reread(s.conv, after) \/ a.state # "found"
  BY DEF NoResult, Result
<1>4. ~IsDone(o) => AnswerOf(o) # "sent" /\ a.state # "found"
  BY DEF IsDone, AnswerOf, NoResult, Result
<1>5. past'.overlap = past.overlap
      /\ past'.acked = IF ~IsDone(o) THEN past.acked ELSE Forgotten(past.acked, s.conv, s.text)
  BY <1>0, <1>1 DEF Pasts
<1>. HIDE DEF a, after
<1>6. host' = [host EXCEPT !.send.stage = "served", !.send.answer = AnswerOf(o), !.send.after = a]
  BY <1>1 DEF a, after
<1>7. /\ CallsOnly(host', host) /\ host'.read = host.read /\ host'.wait = host.wait
      /\ host'.post = host.post /\ host'.change = host.change
  BY <1>0, <1>6 DEF Hosts, CallsOnly
<1>8. /\ host'.send.stage = "served" /\ host'.send.conv = s.conv /\ host'.send.text = s.text
      /\ host'.send.answer = AnswerOf(o) /\ host'.send.after = a
  BY <1>0, <1>6 DEF Hosts
<1>. HIDE DEF s
<1>9. \/ teams' = [teams EXCEPT !.in[s.conv] = after] /\ past'.acked = Forgotten(past.acked, s.conv, s.text)
      \/ /\ teams' = teams /\ past'.acked = past.acked
         /\ host'.send.answer # "sent" /\ host'.send.after.state # "found"
  BY <1>1, <1>4, <1>5, <1>8
<1>. QED BY <1>1, <1>2, <1>3, <1>5, <1>7, <1>8, <1>9 DEF s, after

LEMMA ServePostHost ==
  ASSUME Inv, ServePost
  PROVE  /\ CallsOnly(host', host) /\ host'.read = host.read /\ host'.wait = host.wait
         /\ host'.send = host.send /\ host'.change = host.change /\ page' = page
         /\ host.post.stage = "asked" /\ host'.post.stage = "served"
         /\ \/ teams' = teams /\ past'.acked = past.acked
            \/ /\ past'.acked = {a \in past.acked : a.conv # Post}
               /\ \A c \in Chats : teams'.in[c] = teams.in[c]
         /\ past'.overlap = past.overlap
<1>0. host \in Hosts /\ past \in Pasts /\ teams \in TeamsStates
  BY DEF Inv, HostInv, HostOK
<1>1. PICK o \in Outcomes \ {"sentUnread"} :
        /\ host.post.stage = "asked"
        /\ host' = [host EXCEPT !.post.stage = "served", !.post.answer = AnswerOf(o)]
        /\ teams' = IF ~IsDone(o) THEN teams
                    ELSE [teams EXCEPT !.root = IF o = "sent" \/ @ = "up" THEN "up" ELSE "unseen",
                            !.in[Post] = IF o = "sent" \/ teams.root # "up"
                                         THEN {[id |-> "root", ver |-> "first"]} ELSE @]
        /\ past' = IF ~IsDone(o) THEN past
                   ELSE [past EXCEPT !.posts = @ + 1, !.warned = FALSE,
                           !.published = @ \cup {host.post.text},
                           !.acked = {a \in @ : a.conv # Post}]
        /\ UNCHANGED page
  BY DEF ServePost
<1>2. /\ CallsOnly(host', host) /\ host'.read = host.read /\ host'.wait = host.wait
      /\ host'.send = host.send /\ host'.change = host.change /\ host'.post.stage = "served"
  BY <1>0, <1>1 DEF Hosts, CallsOnly
<1>3. past'.overlap = past.overlap
      /\ past'.acked = IF ~IsDone(o) THEN past.acked ELSE {a \in past.acked : a.conv # Post}
  BY <1>0, <1>1 DEF Pasts
<1>4. Post \notin Chats /\ \A c \in Chats : c \in Convs
  BY KindsOfText DEF Post, Convs
<1>5. \A c \in Chats : teams'.in[c] = teams.in[c]
  BY <1>0, <1>1, <1>4 DEF TeamsStates
<1>. QED BY <1>1, <1>2, <1>3, <1>5

LEMMA ServeChangeHost ==
  ASSUME Inv, ServeChange
  PROVE  LET c == host.change
             msgs == Changed(c.conv, c.what, c.id)
             dropsPost == c.what = "delete" /\ c.id = "root"
             d == host'.change
         IN  /\ CallsOnly(host', host) /\ host'.read = host.read /\ host'.wait = host.wait
             /\ host'.post = host.post /\ host'.send = host.send /\ page' = page
             /\ c.stage = "asked" /\ d.stage = "served"
             /\ d.conv = c.conv /\ d.what = c.what /\ d.id = c.id
             /\ c.conv \in Convs /\ c.id \in Ids /\ c.what \in {"edit", "delete"}
             /\ d.after.state = "found" => d.after = Reread(c.conv, msgs) /\ ~dropsPost
             /\ \/ /\ teams' = [teams EXCEPT !.in[c.conv] = msgs, !.root = IF dropsPost THEN "none" ELSE @]
                   /\ HasId(teams.in[c.conv], c.id)
                   /\ past'.acked = IF dropsPost THEN {a \in past.acked : a.conv # Post}
                                    ELSE Forgotten(past.acked, c.conv, c.id)
                \/ /\ teams' = teams /\ past'.acked = past.acked
                   /\ d.answer # "sent" /\ d.after.state # "found"
             /\ past'.overlap = past.overlap
<1>0. host \in Hosts /\ past \in Pasts /\ Answering(host)
  BY DEF Inv, HostInv, HostOK
<1>. DEFINE c == host.change
            msgs == Changed(c.conv, c.what, c.id)
            dropsPost == c.what = "delete" /\ c.id = "root"
            d == host'.change
            rest == IF dropsPost THEN {a \in past.acked : a.conv # Post}
                    ELSE Forgotten(past.acked, c.conv, c.id)
<1>1. PICK o \in Outcomes :
        /\ c.stage = "asked"
        /\ IsDone(o) => HasId(teams.in[c.conv], c.id)
        /\ \E r \in IF dropsPost /\ o = "sentUnread" THEN {Unread("failed"), Unread("signedOut")}
                    ELSE IF dropsPost /\ o = "sent" THEN {Result("notPosted", "", {}, TRUE, teams.chats)}
                    ELSE IF o = "sent" THEN {Reread(c.conv, msgs)} ELSE {NoResult} :
             host' = [host EXCEPT !.change.stage = "served", !.change.answer = AnswerOf(o), !.change.after = r]
        /\ teams' = IF ~IsDone(o) THEN teams
                    ELSE [teams EXCEPT !.in[c.conv] = msgs, !.root = IF dropsPost THEN "none" ELSE @]
        /\ past' = IF ~IsDone(o) THEN past
                   ELSE [past EXCEPT !.acked = IF dropsPost THEN {a \in @ : a.conv # Post}
                                               ELSE Forgotten(@, c.conv, c.id)]
        /\ UNCHANGED page
  BY DEF ServeChange
<1>2. c.conv \in Convs /\ c.id \in Ids /\ c.what \in {"edit", "delete"}
  <2>1. c.conv \in Convs /\ c.id \in Ids /\ c.what # ""
    BY <1>0, <1>1 DEF Answering, CallsFilled, Busy
  <2>. QED BY <1>0, <2>1 DEF Hosts
<1>3. PICK r : /\ r.state = "found" => r = Reread(c.conv, msgs) /\ ~dropsPost /\ o = "sent"
               /\ host' = [host EXCEPT !.change.stage = "served", !.change.answer = AnswerOf(o), !.change.after = r]
  <2>1. /\ Unread("failed").state # "found" /\ Unread("signedOut").state # "found"
        /\ Result("notPosted", "", {}, TRUE, teams.chats).state # "found" /\ NoResult.state # "found"
    BY DEF Unread, Result, NoResult
  <2>2. PICK r \in IF dropsPost /\ o = "sentUnread" THEN {Unread("failed"), Unread("signedOut")}
                    ELSE IF dropsPost /\ o = "sent" THEN {Result("notPosted", "", {}, TRUE, teams.chats)}
                    ELSE IF o = "sent" THEN {Reread(c.conv, msgs)} ELSE {NoResult} :
             host' = [host EXCEPT !.change.stage = "served", !.change.answer = AnswerOf(o), !.change.after = r]
    BY <1>1
  <2>. HIDE DEF c, msgs
  <2>3. r.state = "found" => r = Reread(c.conv, msgs) /\ ~dropsPost /\ o = "sent"
    BY <2>1, <2>2
  <2>. QED BY <2>2, <2>3
<1>4. AnswerOf(o) = "sent" \/ o = "sent" => IsDone(o)
  BY DEF AnswerOf, IsDone
<1>5. /\ CallsOnly(host', host) /\ host'.read = host.read /\ host'.wait = host.wait
      /\ host'.post = host.post /\ host'.send = host.send
  BY <1>0, <1>3 DEF Hosts, CallsOnly
<1>6. /\ d.stage = "served" /\ d.conv = c.conv /\ d.what = c.what /\ d.id = c.id
      /\ d.answer = AnswerOf(o) /\ d.after = r
  BY <1>0, <1>3 DEF Hosts
<1>7. /\ past'.acked = IF ~IsDone(o) THEN past.acked ELSE rest
      /\ past'.overlap = past.overlap
  BY <1>0, <1>1 DEF Pasts
<1>8. \/ /\ teams' = [teams EXCEPT !.in[c.conv] = msgs, !.root = IF dropsPost THEN "none" ELSE @]
         /\ HasId(teams.in[c.conv], c.id)
         /\ past'.acked = rest
      \/ /\ teams' = teams /\ past'.acked = past.acked
         /\ d.answer # "sent" /\ d.after.state # "found"
  BY <1>1, <1>3, <1>4, <1>6, <1>7
<1>. QED BY <1>1, <1>2, <1>3, <1>5, <1>6, <1>7, <1>8

LEMMA ServesScreen ==
  ASSUME Inv, Serves, ScreenNow
  PROVE  ScreenNow'
<1>1. CallsOnly(host', host) /\ (Replaced(host) => Replaced(host')) /\ page' = page
  BY ServeReadHost, ServeWaitHost, ServeSendHost, ServePostHost, ServeChangeHost
     DEF Serves, Replaced, CallsOnly, Busy
<1>. QED BY <1>1, StaysScreen DEF ScreenNow, CallsOnly

LEMMA HostLandsScreen ==
  ASSUME Inv, HostLands, ScreenNow
  PROVE  ScreenNow'
<1>0. page \in Pages /\ HostOK(host) /\ Screen(page, host)
  BY DEF Inv, HostInv, ScreenNow
<1>1. ASSUME NEW call, NEW h, NEW p, Lands(call, h, p), Screen(page, h) PROVE ScreenNow'
  BY <1>1 DEF Lands, Step, ScreenNow
<1>2. CASE ReadLands
  BY <1>0, <1>1, <1>2, ReadLandedScreen DEF ReadLands, Lands
<1>3. CASE WaitLands
  BY <1>0, <1>1, <1>3, WaitLandedScreen DEF WaitLands, Lands
<1>4. CASE SendLands
  BY <1>0, <1>1, <1>4, SendLandedScreen DEF SendLands, Lands
<1>5. CASE PostLands
  BY <1>0, <1>1, <1>5, PostLandedScreen DEF PostLands, Lands
<1>6. CASE ChangeLands
  BY <1>0, <1>1, <1>6, ChangeLandedScreen DEF ChangeLands, Lands
<1>. QED BY <1>2, <1>3, <1>4, <1>5, <1>6 DEF HostLands

LEMMA InitScreen == Init => ScreenNow
<1>. SUFFICES ASSUME NEW s \in Starts, page = PageAtStart, host = HostAtStart(s.chosen, s.file, s.posted)
              PROVE  ScreenNow
  BY DEF Init
<1>1. host.found = NoThread /\ Replaced(host)
  BY DEF HostAtStart, Replaced, Busy, IdleRead
<1>. QED BY <1>1, SureScreen DEF ScreenNow

LEMMA ScreenInvariant == Spec => []ScreenNow
<1>1. Inv /\ ScreenNow /\ [Next]_vars => ScreenNow'
  <2>. SUFFICES ASSUME Inv, ScreenNow, [Next]_vars PROVE ScreenNow'
    OBVIOUS
  <2>1. CASE UNCHANGED vars \/ Elsewhere
    BY <2>1 DEF vars, Elsewhere, ScreenNow
  <2>. QED BY <2>1, UserScreen, HostHearsScreen, PageHearsScreen, ServesScreen, HostLandsScreen DEF Next
<1>. QED BY <1>1, InitScreen, Invariant, PTL DEF Spec

-----------------------------------------------------------------------------
(* Nobody changes another one's message. *)

LEMMA MeekTrans ==
  ASSUME NEW f, NEW g, NEW h, Meek(f, g), Meek(g, h)
  PROVE  Meek(f, h)
BY DEF Meek

LEMMA SaysMeek ==
  ASSUME NEW h
  PROVE  /\ Meek(h, h) /\ Meek(ClearState(h), h) /\ Meek(PostConversations(h), h) /\ Meek(PostThread(h), h)
         /\ \A m : Meek(Say(h, m), h)
         /\ \A kind, inline : Meek(ShowState(h, kind, inline), h)
         /\ \A kind : Meek(ShowSendState(h, kind), h) /\ Meek(ShowPostState(h, kind), h)
         /\ \A type, id, state : Meek(PostChangeState(h, type, id, state), h)
         /\ \A reload : Meek(PostDraft(h, reload), h)
<1>1. Meek(h, h) /\ Meek(ClearState(h), h)
  BY DEF Meek, ClearState
<1>2. Meek(PostConversations(h), h) /\ Meek(PostThread(h), h)
  BY DEF Meek, PostConversations, PostThread, Say
<1>3. \A m : Meek(Say(h, m), h)
  BY DEF Meek, Say
<1>4. \A kind, inline : Meek(ShowState(h, kind, inline), h)
  BY DEF Meek, ShowState, Say
<1>5. \A kind : Meek(ShowSendState(h, kind), h) /\ Meek(ShowPostState(h, kind), h)
  BY DEF Meek, ShowSendState, ShowPostState, Say
<1>6. \A type, id, state : Meek(PostChangeState(h, type, id, state), h)
  BY DEF Meek, PostChangeState, Say
<1>7. \A reload : Meek(PostDraft(h, reload), h)
  BY DEF Meek, PostDraft, Say
<1>. QED BY <1>1, <1>2, <1>3, <1>4, <1>5, <1>6, <1>7

LEMMA ReadAsyncMeek ==
  ASSUME NEW h, NEW quiet
  PROVE  Meek(ReadAsync(h, quiet), h)
BY DEF Meek, ReadAsync, ShowState, Say

LEMMA ChooseMeek ==
  ASSUME NEW h, NEW c
  PROVE  Meek(ChooseConversation(h, c), h)
BY DEF Meek, ChooseConversation, PostConversations, Say

LEMMA ShowResultMeek ==
  ASSUME NEW h, NEW r
  PROVE  Meek(ShowResult(h, r), h)
<1>1. CASE r.state = "found"
  <2>. DEFINE f == [h EXCEPT !.found = ThreadOf(r), !.notPosted = FALSE]
  <2>1. Meek(f, h)
    BY DEF Meek
  <2>2. ShowResult(h, r) = PostThread(ClearState(f))
    BY <1>1 DEF ShowResult, ShowThread
  <2>. HIDE DEF f
  <2>. QED BY <2>1, <2>2, SaysMeek, MeekTrans
<1>2. CASE r.state # "found"
  <2>. DEFINE g == [h EXCEPT !.found = NoThread]
              n == [g EXCEPT !.notPosted = TRUE]
  <2>1. Meek(g, h) /\ Meek(n, g)
    BY DEF Meek
  <2>2. \/ ShowResult(h, r) = PostDraft(ClearState(n), FALSE)
        \/ ShowResult(h, r) = ShowState(g, "failed", TRUE)
        \/ ShowResult(h, r) = ShowState(g, r.state, FALSE)
    BY <1>2 DEF ShowResult
  <2>. HIDE DEF g, n
  <2>3. Meek(n, h) /\ Meek(ClearState(n), n)
    BY <2>1, SaysMeek, MeekTrans
  <2>4. Meek(ClearState(n), h) /\ Meek(PostDraft(ClearState(n), FALSE), ClearState(n))
    BY <2>3, SaysMeek, MeekTrans
  <2>5. Meek(PostDraft(ClearState(n), FALSE), h)
    BY <2>4, MeekTrans
  <2>6. \A kind, inline : Meek(ShowState(g, kind, inline), h)
    BY <2>1, SaysMeek, MeekTrans
  <2>. QED BY <2>2, <2>5, <2>6
<1>. QED BY <1>1, <1>2

LEMMA ApplyResultMeek ==
  ASSUME NEW h, NEW r
  PROVE  Meek(ApplyResult(h, r), h)
<1>. DEFINE g == ListChats(h, r)
            l == [h EXCEPT !.lastChats = r.chats]
<1>1. Meek(g, h)
  <2>1. Meek(l, h)
    BY DEF Meek
  <2>2. g = h \/ g = l \/ g = PostConversations(l)
    BY DEF ListChats
  <2>. HIDE DEF g, l
  <2>. QED BY <2>1, <2>2, SaysMeek, MeekTrans
<1>2. \/ \E c : ApplyResult(h, r) = ReadAsync(ChooseConversation(g, c), FALSE)
      \/ \E c : ApplyResult(h, r) = ShowResult(ChooseConversation(g, c), r)
      \/ ApplyResult(h, r) = ShowResult(g, r)
  BY DEF ApplyResult
<1>. HIDE DEF g
<1>3. \A c : Meek(ChooseConversation(g, c), h)
  BY <1>1, ChooseMeek, MeekTrans
<1>4. \A c : Meek(ReadAsync(ChooseConversation(g, c), FALSE), h)
  BY <1>3, ReadAsyncMeek, MeekTrans
<1>5. \A c : Meek(ShowResult(ChooseConversation(g, c), r), h)
  BY <1>3, ShowResultMeek, MeekTrans
<1>6. Meek(ShowResult(g, r), h)
  BY <1>1, ShowResultMeek, MeekTrans
<1>. QED BY <1>2, <1>4, <1>5, <1>6

LEMMA AfterMeek ==
  ASSUME NEW h, NEW r
  PROVE  Meek(ShowAfter(h, r), h)
<1>. DEFINE g == ApplyResult(h, r)
<1>1. \/ ShowAfter(h, r) = ReadAsync(h, FALSE)
      \/ ShowAfter(h, r) = [g EXCEPT !.readAgain = TRUE]
      \/ ShowAfter(h, r) = g
  BY DEF ShowAfter
<1>2. Meek(g, h)
  BY ApplyResultMeek
<1>. HIDE DEF g
<1>3. Meek([g EXCEPT !.readAgain = TRUE], g)
  BY DEF Meek
<1>. QED BY <1>1, <1>2, <1>3, ReadAsyncMeek, MeekTrans

LEMMA SelectMeek ==
  ASSUME NEW h, NEW c
  PROVE  Meek(SelectConversation(h, c), h)
<1>. DEFINE f == [h EXCEPT !.found = NoThread, !.notPosted = FALSE]
<1>1. Meek(f, h)
  BY DEF Meek
<1>2. SelectConversation(h, c) = h \/ SelectConversation(h, c) = ReadAsync(ChooseConversation(f, c), FALSE)
  BY DEF SelectConversation
<1>. HIDE DEF f
<1>3. Meek(ChooseConversation(f, c), h)
  BY <1>1, ChooseMeek, MeekTrans
<1>4. Meek(ReadAsync(ChooseConversation(f, c), FALSE), h)
  BY <1>3, ReadAsyncMeek, MeekTrans
<1>. QED BY <1>2, <1>4, SaysMeek

LEMMA LanguageMeek ==
  ASSUME NEW h
  PROVE  Meek(OnLanguageChanged(h), h)
<1>. DEFINE h1 == IF h.state = "" THEN h ELSE ShowState(h, h.state, h.inline)
            h2 == IF h.sendState = "" THEN h1
                  ELSE Say(h1, [type |-> "sendState", kind |-> h.sendState, again |-> TRUE])
            h3 == IF h.postState = "" THEN h2
                  ELSE Say(h2, [type |-> "postState", kind |-> h.postState, again |-> TRUE])
            h4 == IF h.lastChats = {} THEN h3 ELSE PostConversations(h3)
            h5 == IF h.found = NoThread THEN h4 ELSE PostThread(h4)
<1>1. OnLanguageChanged(h) = PostDraft(h5, FALSE)
  BY DEF OnLanguageChanged
<1>2. Meek(h1, h)
  BY SaysMeek
<1>. HIDE DEF h1
<1>3. Meek(h2, h1)
  BY SaysMeek
<1>. HIDE DEF h2
<1>4. Meek(h3, h2)
  BY SaysMeek
<1>. HIDE DEF h3
<1>5. Meek(h4, h3)
  BY SaysMeek
<1>. HIDE DEF h4
<1>6. Meek(h5, h4)
  BY SaysMeek
<1>. HIDE DEF h5
<1>7. Meek(PostDraft(h5, FALSE), h5)
  BY SaysMeek
<1>. QED BY <1>1, <1>2, <1>3, <1>4, <1>5, <1>6, <1>7, MeekTrans

LEMMA MoreMeek ==
  ASSUME NEW h
  PROVE  /\ \A text : Meek(SendAsync(h, text), h) /\ Meek(PostToTeamsAsync(h, text), h)
         /\ \A stale \in BOOLEAN : Meek(Activate(h, stale), h)
         /\ Meek(OnPollTick(h), h) /\ Meek(WaitForPostAsync(h), h)
         /\ Meek(ReadLanded(h), h) /\ Meek(WaitLanded(h), h) /\ Meek(SendLanded(h), h) /\ Meek(PostLanded(h), h)
<1>1. ASSUME NEW text PROVE Meek(SendAsync(h, text), h)
  BY DEF Meek, SendAsync, ShowSendState, Say
<1>2. ASSUME NEW text PROVE Meek(PostToTeamsAsync(h, text), h)
  BY DEF Meek, PostToTeamsAsync, ShowPostState, Say
<1>3. \A stale \in BOOLEAN : Meek(Activate(h, stale), h)
  BY ReadAsyncMeek, SaysMeek DEF Activate
<1>4. Meek(OnPollTick(h), h)
  BY ReadAsyncMeek DEF OnPollTick
<1>5. ASSUME NEW x PROVE Meek(WaitForPostAsync(x), x)
  BY DEF Meek, WaitForPostAsync, ShowState, Say
<1>6. Meek(ReadLanded(h), h)
  <2>. DEFINE done == [h EXCEPT !.read = IdleRead]
              g == IF AppliesRead(h) THEN ApplyResult(done, h.read.result) ELSE done
              e == [g EXCEPT !.readAgain = FALSE]
  <2>1. ReadLanded(h) = g \/ ReadLanded(h) = ReadAsync(e, FALSE)
    BY DEF ReadLanded
  <2>2. Meek(done, h)
    BY DEF Meek
  <2>. HIDE DEF done
  <2>3. Meek(g, h)
    BY <2>2, ApplyResultMeek, MeekTrans
  <2>. HIDE DEF g
  <2>4. Meek(e, g)
    BY DEF Meek
  <2>. HIDE DEF e
  <2>5. Meek(ReadAsync(e, FALSE), h)
    BY <2>3, <2>4, ReadAsyncMeek, MeekTrans
  <2>. QED BY <2>1, <2>3, <2>5
<1>7. Meek(WaitLanded(h), h)
  <2>. DEFINE done == [h EXCEPT !.wait = IdleWait]
  <2>1. WaitLanded(h) = ApplyResult(done, h.wait.result)
    BY DEF WaitLanded
  <2>2. Meek(done, h)
    BY DEF Meek
  <2>. HIDE DEF done
  <2>. QED BY <2>1, <2>2, ApplyResultMeek, MeekTrans
<1>8. Meek(SendLanded(h), h)
  <2>. DEFINE g == ShowSendState([h EXCEPT !.send = IdleSend], h.send.answer)
  <2>1. SendLanded(h) = g \/ SendLanded(h) = ShowAfter(g, h.send.after)
    BY DEF SendLanded
  <2>2. Meek(g, h)
    BY DEF Meek, ShowSendState, Say
  <2>. HIDE DEF g
  <2>. QED BY <2>1, <2>2, AfterMeek, MeekTrans
<1>9. Meek(PostLanded(h), h)
  <2>. DEFINE g == ShowPostState([h EXCEPT !.post = IdlePost], h.post.answer)
              u == [g EXCEPT !.postUncertain = TRUE]
              p == [g EXCEPT !.postedAt = TRUE]
  <2>1. PostLanded(h) = g \/ PostLanded(h) = ReadAsync(u, FALSE) \/ PostLanded(h) = WaitForPostAsync(p)
    BY DEF PostLanded
  <2>2. Meek(g, h)
    BY DEF Meek, ShowPostState, Say
  <2>. HIDE DEF g
  <2>3. Meek(u, g) /\ Meek(p, g)
    BY DEF Meek
  <2>. HIDE DEF u, p
  <2>4. Meek(u, h) /\ Meek(p, h)
    BY <2>2, <2>3, MeekTrans
  <2>. QED BY <1>5, <2>1, <2>2, <2>4, ReadAsyncMeek, MeekTrans
<1>. QED BY <1>1, <1>2, <1>3, <1>4, <1>5, <1>6, <1>7, <1>8, <1>9

LEMMA MeekOwn ==
  ASSUME NEW h \in Hosts, NEW g, Meek(g, h), OwnHost(h)
  PROVE  OwnHost(g)
<1>1. {"asking", "change"} \subseteq DOMAIN h
  BY DEF Hosts
<1>. QED BY <1>1 DEF Meek, OwnHost

LEMMA ChangeOwn ==
  ASSUME NEW h \in Hosts, OwnHost(h), NEW what, NEW id, id # "theirs"
  PROVE  OwnHost(ChangeAsync(h, what, id))
<1>1. CASE h.found = NoThread \/ Busy(h.change)
  BY <1>1, SaysMeek, MeekOwn DEF ChangeAsync
<1>2. CASE ~(h.found = NoThread \/ Busy(h.change))
  <2>. DEFINE c == [IdleChange EXCEPT !.stage = "asked", !.what = what, !.conv = h.found.conv, !.id = id]
              g == ChangeAsync(h, what, id)
  <2>1. g.asking = h.asking /\ g.change = c
    BY <1>2 DEF ChangeAsync, PostChangeState, Say, Hosts
  <2>2. c.id = id
    BY DEF IdleChange
  <2>. HIDE DEF c, g
  <2>3. OwnHost(g)
    BY <1>2, <2>1, <2>2 DEF OwnHost
  <2>. QED BY <2>3 DEF g
<1>. QED BY <1>1, <1>2

LEMMA AskingOwn ==
  ASSUME NEW h \in Hosts, OwnHost(h), NEW id
  PROVE  /\ id # "theirs" => OwnHost(AskDelete(h, id))
         /\ id \in h.asking => \A yes \in BOOLEAN : OwnHost(ConfirmDelete(h, id, yes))
<1>1. ASSUME id # "theirs" PROVE OwnHost(AskDelete(h, id))
  BY <1>1 DEF OwnHost, AskDelete, Hosts
<1>2. ASSUME id \in h.asking, NEW yes \in BOOLEAN PROVE OwnHost(ConfirmDelete(h, id, yes))
  <2>. DEFINE f == [h EXCEPT !.asking = @ \ {id}]
  <2>1. f \in Hosts
    BY DEF Hosts
  <2>2. OwnHost(f)
    BY DEF Hosts, OwnHost
  <2>3. ConfirmDelete(h, id, yes) =
          IF yes THEN ChangeAsync(f, "delete", id) ELSE PostChangeState(f, "deleteState", id, "cancelled")
    BY DEF ConfirmDelete
  <2>4. id # "theirs"
    BY <1>2 DEF OwnHost
  <2>. HIDE DEF f
  <2>5. OwnHost(PostChangeState(f, "deleteState", id, "cancelled"))
    BY <2>1, <2>2, SaysMeek, MeekOwn
  <2>. QED BY <2>1, <2>2, <2>3, <2>4, <2>5, ChangeOwn
<1>. QED BY <1>1, <1>2

LEMMA ChangeLandedOwn ==
  ASSUME NEW h \in Hosts, OwnHost(h)
  PROVE  OwnHost(ApplyChangeResult(h))
<1>. DEFINE c == h.change
            done == [h EXCEPT !.change = IdleChange]
            g == PostChangeState(done, StateType(c.what), c.id,
                                 IF c.answer = "sent" THEN Done(c.what) ELSE c.answer)
<1>1. \/ ApplyChangeResult(h) = ReadAsync(g, FALSE)
      \/ ApplyChangeResult(h) = ShowAfter(g, c.after)
      \/ ApplyChangeResult(h) = g
  BY DEF ApplyChangeResult
<1>2. {"asking", "change"} \subseteq DOMAIN done /\ OwnHost(done)
  BY DEF Hosts, OwnHost, IdleChange
<1>. HIDE DEF done
<1>3. Meek(g, done)
  BY SaysMeek
<1>. HIDE DEF g
<1>. HIDE DEF c
<1>5. Meek(ReadAsync(g, FALSE), done)
  BY <1>3, ReadAsyncMeek, MeekTrans
<1>6. Meek(ShowAfter(g, c.after), g)
  BY AfterMeek
<1>7. Meek(ShowAfter(g, c.after), done)
  BY <1>3, <1>6, MeekTrans
<1>4. Meek(ApplyChangeResult(h), done)
  BY <1>1, <1>3, <1>5, <1>7
<1>. QED BY <1>2, <1>4 DEF Meek, OwnHost

LEMMA SaidOwn ==
  ASSUME NEW p \in Pages, OwnPage(p), NEW m \in PageMessages,
         m.type \in {"edit", "delete"} => m.id # "theirs"
  PROVE  OwnPage(Say(p, m))
<1>1. p.out \in Seq(PageMessages)
  BY DEF Pages
<1>2. /\ DOMAIN p.out = 1 .. Len(p.out) /\ DOMAIN Append(p.out, m) = 1 .. Len(p.out) + 1 /\ Len(p.out) \in Nat
      /\ \A i \in 1 .. Len(p.out) : Append(p.out, m)[i] = p.out[i]
      /\ Append(p.out, m)[Len(p.out) + 1] = m
  BY <1>1, AppendAt
<1>. DEFINE r == Append(p.out, m)
<1>3. Say(p, m).out = r /\ Say(p, m).edit = p.edit
  BY DEF Say, Pages
<1>. HIDE DEF r
<1>4. ASSUME NEW i \in DOMAIN r, r[i].type \in {"edit", "delete"} PROVE r[i].id # "theirs"
  <2>1. i \in 1 .. Len(p.out) \/ i = Len(p.out) + 1
    BY <1>2 DEF r
  <2>. QED BY <1>2, <1>4, <2>1 DEF OwnPage, r
<1>. QED BY <1>3, <1>4 DEF OwnPage

LEMMA HeardOwn ==
  ASSUME NEW p \in Pages, OwnPage(p), p.out # <<>>
  PROVE  /\ OwnPage([p EXCEPT !.out = Tail(@)])
         /\ Head(p.out).type \in {"edit", "delete"} => Head(p.out).id # "theirs"
<1>1. p.out \in Seq(PageMessages)
  BY DEF Pages
<1>2. /\ Len(p.out) \in Nat \ {0} /\ DOMAIN p.out = 1 .. Len(p.out) /\ DOMAIN Tail(p.out) = 1 .. Len(p.out) - 1
      /\ \A i \in 1 .. Len(p.out) - 1 : Tail(p.out)[i] = p.out[i + 1]
      /\ Head(p.out) = p.out[1]
  BY <1>1, TailAt
<1>3. Head(p.out).type \in {"edit", "delete"} => Head(p.out).id # "theirs"
  BY <1>2 DEF OwnPage
<1>. DEFINE r == Tail(p.out)
            q == [p EXCEPT !.out = r]
<1>4. ASSUME NEW i \in DOMAIN r, r[i].type \in {"edit", "delete"} PROVE r[i].id # "theirs"
  <2>1. i + 1 \in DOMAIN p.out /\ r[i] = p.out[i + 1]
    BY <1>2
  <2>. QED BY <1>4, <2>1 DEF OwnPage
<1>5. q.out = r /\ q.edit = p.edit
  BY DEF Pages
<1>. HIDE DEF r, q
<1>6. OwnPage(q)
  BY <1>4, <1>5 DEF OwnPage
<1>. QED BY <1>3, <1>6 DEF q, r

LEMMA TellsOwn ==
  ASSUME NEW p, NEW q, TellsNothing(q, p), OwnPage(p)
  PROVE  OwnPage(q)
BY DEF TellsNothing, OwnPage

LEMMA ModeTells ==
  ASSUME NEW p \in Pages
  PROVE  /\ \A mode, panel : TellsNothing(SetMode(p, mode, panel), p)
         /\ TellsNothing(RenderThread(p), p)
<1>1. ASSUME NEW mode, NEW panel PROVE TellsNothing(SetMode(p, mode, panel), p)
  BY DEF TellsNothing, SetMode, Pages, NoEdit
<1>2. TellsNothing(RenderThread(p), p)
  BY DEF TellsNothing, RenderThread, Pages, NoEdit
<1>. QED BY <1>1, <1>2

LEMMA ShowsTellNothing ==
  ASSUME NEW p \in Pages, NEW m \in HostMessages
  PROVE  /\ m.type = "state" => TellsNothing(ShowStatePanel(p, m), p)
         /\ m.type = "thread" => TellsNothing(ShowThreadOnPage(p, m), p)
         /\ m.type = "conversations" => TellsNothing(ApplyConversations(p, m), p)
         /\ m.type = "editState" => TellsNothing(ShowEditState(p, m), p)
         /\ m.type = "deleteState" => TellsNothing(ShowDeleteState(p, m), p)
         /\ m.type = "draft" => TellsNothing(ShowDraft(p, m), p)
         /\ m.type = "sendState" => TellsNothing(ShowSendStateOnPage(p, m), p)
         /\ m.type = "postState" => TellsNothing(ShowPostStateOnPage(p, m), p)
<1>0. TellsNothing(p, p)
  BY DEF TellsNothing
<1>1. TellsNothing(ShowStatePanel(p, m), p)
  BY <1>0, ModeTells DEF ShowStatePanel
<1>2. ASSUME m.type = "thread" PROVE TellsNothing(ShowThreadOnPage(p, m), p)
  <2>. DEFINE q == [p EXCEPT !.thread = m.thread]
              s == SetMode(q, "thread", "hidden")
  <2>1. m.thread \in Threads
    BY <1>2 DEF HostMessages
  <2>2. q \in Pages
    BY <2>1 DEF Pages
  <2>3. TellsNothing(q, p)
    BY DEF TellsNothing, Pages
  <2>. HIDE DEF q
  <2>4. s \in Pages /\ TellsNothing(s, q)
    BY <2>2, ModeOK, ModeTells
  <2>. HIDE DEF s
  <2>5. TellsNothing(RenderThread(s), s)
    BY <2>4, ModeTells
  <2>6. TellsNothing(RenderThread(s), p)
    BY <2>3, <2>4, <2>5 DEF TellsNothing
  <2>. QED BY <2>6 DEF ShowThreadOnPage, s, q
<1>3. TellsNothing(ApplyConversations(p, m), p)
  BY DEF TellsNothing, ApplyConversations, Pages
<1>4. TellsNothing(ShowEditState(p, m), p)
  BY DEF TellsNothing, ShowEditState, Pages, NoEdit
<1>5. ASSUME m.type = "deleteState" PROVE TellsNothing(ShowDeleteState(p, m), p)
  <2>. DEFINE q == [p EXCEPT !.deleting = IF m.state = "deleting" THEN m.id ELSE ""]
  <2>1. m.id \in Ids
    BY <1>5 DEF HostMessages
  <2>2. q \in Pages
    BY ZenonT(60), <2>1 DEF Pages
  <2>3. TellsNothing(q, p)
    BY DEF TellsNothing, Pages
  <2>. HIDE DEF q
  <2>4. TellsNothing(RenderThread(q), q)
    BY <2>2, ModeTells
  <2>5. TellsNothing(RenderThread(q), p)
    BY <2>3, <2>4 DEF TellsNothing
  <2>. QED BY <2>5 DEF ShowDeleteState, q
<1>6. TellsNothing(ShowDraft(p, m), p)
  <2>. DEFINE q == SetMode(p, "post", "hidden")
              d == [q EXCEPT !.draft = m.text, !.postDirty = FALSE, !.applied = m.text]
  <2>1. q \in Pages /\ TellsNothing(q, p)
    BY ModeOK, ModeTells
  <2>2. ShowDraft(p, m) = d \/ ShowDraft(p, m) = q
    BY DEF ShowDraft
  <2>. HIDE DEF q
  <2>3. TellsNothing(d, q)
    BY <2>1 DEF TellsNothing, Pages
  <2>4. TellsNothing(d, p)
    BY <2>1, <2>3 DEF TellsNothing
  <2>. QED BY <2>1, <2>2, <2>4
<1>7. TellsNothing(ShowSendStateOnPage(p, m), p)
  BY DEF TellsNothing, ShowSendStateOnPage, Pages
<1>8. TellsNothing(ShowPostStateOnPage(p, m), p)
  BY DEF TellsNothing, ShowPostStateOnPage, Pages
<1>. QED BY <1>1, <1>2, <1>3, <1>4, <1>5, <1>6, <1>7, <1>8

LEMMA ActsOwn ==
  ASSUME NEW p \in Pages, OwnPage(p)
  PROVE  /\ \A t \in Texts : OwnPage(PutReply(p, t))
         /\ CanSend(p) => OwnPage(PressSend(p))
         /\ \A c \in Convs : OwnPage(PickConversation(p, c))
         /\ OwnPage(PressRefresh(p)) /\ OwnPage(PressReload(p))
         /\ \A o \in Own : OwnPage(EditPost(p, o))
         /\ CanPost(p) => OwnPage(PressPost(p))
         /\ \A id \in Ids : CanChange(p, id) => OwnPage(StartEdit(p, id)) /\ OwnPage(PressDelete(p, id))
         /\ CanSave(p) => OwnPage(SaveEdit(p))
         /\ OwnPage(CancelEdit(p))
<1>1. ASSUME NEW t \in Texts PROVE OwnPage(PutReply(p, t))
  <2>1. TellsNothing(PutReply(p, t), p)
    BY DEF TellsNothing, PutReply, Pages
  <2>. QED BY <2>1, TellsOwn
<1>2. ASSUME CanSend(p) PROVE OwnPage(PressSend(p))
  <2>. DEFINE f == [p EXCEPT !.replySending = TRUE]
              m == [type |-> "send", text |-> p.reply]
  <2>1. f \in Pages /\ m \in PageMessages /\ m.type = "send"
    BY <1>2 DEF CanSend, Pages, PageMessages
  <2>2. TellsNothing(f, p)
    BY DEF TellsNothing, Pages
  <2>3. PressSend(p) = Say(f, m)
    BY DEF PressSend
  <2>. HIDE DEF f, m
  <2>4. OwnPage(Say(f, m))
    BY <2>1, <2>2, TellsOwn, SaidOwn
  <2>. QED BY <2>3, <2>4
<1>3. ASSUME NEW c \in Convs PROVE OwnPage(PickConversation(p, c))
  <2>. DEFINE f == [p EXCEPT !.selected = c]
              m == [type |-> "selectConversation", conv |-> c]
  <2>1. f \in Pages /\ m \in PageMessages /\ m.type = "selectConversation"
    BY DEF Pages, PageMessages
  <2>2. TellsNothing(f, p)
    BY DEF TellsNothing, Pages
  <2>3. PickConversation(p, c) = Say(f, m)
    BY DEF PickConversation
  <2>. HIDE DEF f, m
  <2>4. OwnPage(Say(f, m))
    BY <2>1, <2>2, TellsOwn, SaidOwn
  <2>. QED BY <2>3, <2>4
<1>4. OwnPage(PressRefresh(p)) /\ OwnPage(PressReload(p))
  <2>. DEFINE a == [type |-> "refresh"]
              b == [type |-> "reloadDraft"]
  <2>1. a \in PageMessages /\ a.type = "refresh" /\ b \in PageMessages /\ b.type = "reloadDraft"
    BY DEF PageMessages
  <2>2. PressRefresh(p) = Say(p, a) /\ PressReload(p) = Say(p, b)
    BY DEF PressRefresh, PressReload
  <2>. HIDE DEF a, b
  <2>. QED BY <2>1, <2>2, SaidOwn
<1>5. ASSUME NEW o \in Own PROVE OwnPage(EditPost(p, o))
  <2>1. TellsNothing(EditPost(p, o), p)
    BY DEF TellsNothing, EditPost, Pages
  <2>. QED BY <2>1, TellsOwn
<1>6. ASSUME CanPost(p) PROVE OwnPage(PressPost(p))
  <2>. DEFINE f == [p EXCEPT !.postBusy = TRUE]
              m == [type |-> "post", text |-> p.draft]
  <2>1. f \in Pages /\ m \in PageMessages /\ m.type = "post"
    BY <1>6 DEF CanPost, Pages, PageMessages
  <2>2. TellsNothing(f, p)
    BY DEF TellsNothing, Pages
  <2>3. PressPost(p) = Say(f, m)
    BY DEF PressPost
  <2>. HIDE DEF f, m
  <2>4. OwnPage(Say(f, m))
    BY <2>1, <2>2, TellsOwn, SaidOwn
  <2>. QED BY <2>3, <2>4
<1>7. ASSUME NEW id \in Ids, CanChange(p, id) PROVE OwnPage(StartEdit(p, id)) /\ OwnPage(PressDelete(p, id))
  <2>. DEFINE m == [type |-> "delete", id |-> id]
  <2>1. id # "theirs"
    BY <1>7 DEF CanChange
  <2>2. m \in PageMessages /\ m.id = id
    BY DEF PageMessages
  <2>3. PressDelete(p, id) = Say(p, m)
    BY DEF PressDelete
  <2>. HIDE DEF m
  <2>4. OwnPage(PressDelete(p, id))
    BY <2>1, <2>2, <2>3, SaidOwn
  <2>5. StartEdit(p, id).out = p.out /\ StartEdit(p, id).edit.id = id
    BY DEF StartEdit, Pages
  <2>6. OwnPage(StartEdit(p, id))
    BY <2>1, <2>5 DEF OwnPage
  <2>. QED BY <2>4, <2>6
<1>8. ASSUME CanSave(p) PROVE OwnPage(SaveEdit(p))
  <2>. DEFINE e == [p.edit EXCEPT !.busy = TRUE]
              f == [p EXCEPT !.edit = e]
              m == [type |-> "edit", id |-> p.edit.id]
  <2>1. e \in [id : Ids \cup {""}, busy : BOOLEAN] /\ e.id = p.edit.id
    BY DEF Pages
  <2>2. SaveEdit(p) = Say(f, m)
    BY DEF SaveEdit
  <2>3. m \in PageMessages /\ m.id = p.edit.id
    BY <1>8 DEF CanSave, Pages, PageMessages
  <2>. HIDE DEF e, m
  <2>4. f \in Pages
    BY <2>1 DEF Pages
  <2>5. f.out = p.out /\ f.edit = e
    BY DEF Pages
  <2>. HIDE DEF f
  <2>6. OwnPage(f)
    BY <2>1, <2>5 DEF OwnPage
  <2>7. m.id # "theirs"
    BY <2>3 DEF OwnPage
  <2>8. OwnPage(Say(f, m))
    BY <2>3, <2>4, <2>6, <2>7, SaidOwn
  <2>. QED BY <2>2, <2>8
<1>9. OwnPage(CancelEdit(p))
  <2>1. TellsNothing(CancelEdit(p), p)
    BY DEF TellsNothing, CancelEdit, Pages, NoEdit
  <2>. QED BY <2>1, TellsOwn
<1>. QED BY <1>1, <1>2, <1>3, <1>4, <1>5, <1>6, <1>7, <1>8, <1>9

LEMMA UserOwn ==
  ASSUME Inv, UserNext, OwnOnly
  PROVE  OwnOnly'
<1>0. page \in Pages /\ host \in Hosts /\ OwnPage(page) /\ OwnHost(host)
  BY DEF Inv, HostInv, HostOK, OwnOnly
<1>1. ASSUME NEW p, OwnPage(p), OnPage(p) PROVE OwnOnly'
  BY <1>0, <1>1 DEF OnPage, OwnOnly, OwnHost
<1>2. ASSUME NEW h, OwnHost(h), NEW kind, ByHost(h, kind) PROVE OwnOnly'
  BY <1>0, <1>2 DEF ByHost, Step, OwnOnly, OwnPage
<1>3. ASSUME NEW t \in Texts, WriteReply(t) \/ PutWhileSending(t) PROVE OwnOnly'
  BY <1>0, <1>1, <1>3, ActsOwn DEF WriteReply, PutWhileSending
<1>4. CASE ClickSend \/ ClickRefresh \/ ClickReload \/ ClickPost \/ ClickSave \/ EscapeEdit
  BY <1>0, <1>1, <1>4, ActsOwn
     DEF ClickSend, ClickRefresh, ClickReload, ClickPost, ClickSave, EscapeEdit, UserActs
<1>5. CASE ClickConversation \/ TypePost \/ OpenEdit \/ ClickDelete
  BY <1>0, <1>1, <1>5, ActsOwn DEF ClickConversation, TypePost, OpenEdit, ClickDelete, UserActs
<1>6. CASE ShowTab
  BY <1>0, <1>2, <1>6, MoreMeek, MeekOwn DEF ShowTab
<1>7. CASE PollTick
  BY <1>0, <1>2, <1>7, MoreMeek, MeekOwn DEF PollTick
<1>8. CASE SwitchLanguage
  BY <1>0, <1>2, <1>8, LanguageMeek, MeekOwn DEF SwitchLanguage
<1>9. CASE RewriteDraft
  <2>1. PICK d \in Drafts : ByHost([host EXCEPT !.file = d], "rewrite")
    BY <1>9 DEF RewriteDraft
  <2>2. Meek([host EXCEPT !.file = d], host)
    BY DEF Meek
  <2>. QED BY <1>0, <1>2, <2>1, <2>2, MeekOwn
<1>10. CASE AnswerDialog
  <2>1. PICK id \in host.asking, yes \in BOOLEAN : Step(ConfirmDelete(host, id, yes), past) /\ page' = page
    BY <1>10 DEF AnswerDialog
  <2>2. OwnHost(ConfirmDelete(host, id, yes))
    BY <1>0, AskingOwn
  <2>. QED BY <1>0, <2>1, <2>2 DEF Step, OwnOnly, OwnPage
<1>. QED BY <1>3, <1>4, <1>5, <1>6, <1>7, <1>8, <1>9, <1>10 DEF UserNext

LEMMA HostHearsOwn ==
  ASSUME Inv, HostHears, OwnOnly
  PROVE  OwnOnly'
<1>0. page \in Pages /\ host \in Hosts /\ OwnPage(page) /\ OwnHost(host)
  BY DEF Inv, HostInv, HostOK, OwnOnly
<1>1. ASSUME NEW h, NEW p, page.out # <<>>, Took(h, p), OwnHost(h) PROVE OwnOnly'
  BY <1>0, <1>1, HeardOwn DEF Took, Step, OwnOnly
<1>2. ASSUME NEW type, Asked(type) PROVE page.out # <<>>
  BY <1>2 DEF Asked
<1>3. ASSUME NEW h, NEW p, page.out # <<>>, Took(h, p), Meek(h, host) PROVE OwnOnly'
  BY <1>0, <1>1, <1>3, MeekOwn
<1>4. CASE HearRefresh
  BY <1>2, <1>3, <1>4, ReadAsyncMeek DEF HearRefresh
<1>5. CASE HearSelect
  BY <1>2, <1>3, <1>5, SelectMeek DEF HearSelect
<1>6. CASE HearReload
  BY <1>2, <1>3, <1>6, SaysMeek DEF HearReload
<1>7. CASE HearSend
  BY <1>2, <1>3, <1>7, MoreMeek DEF HearSend
<1>8. CASE HearEdit
  <2>1. page.out # <<>> /\ Message.id # "theirs"
    BY <1>0, <1>8, HeardOwn DEF HearEdit, Asked, Message
  <2>. QED BY <1>0, <1>1, <1>8, <2>1, ChangeOwn DEF HearEdit
<1>9. CASE HearDelete
  <2>1. page.out # <<>> /\ Message.id # "theirs"
    BY <1>0, <1>9, HeardOwn DEF HearDelete, Asked, Message
  <2>. QED BY <1>0, <1>1, <1>9, <2>1, AskingOwn DEF HearDelete
<1>10. CASE HearPost
  <2>1. Meek(PostToTeamsAsync(host, Message.text), host)
    BY MoreMeek
  <2>2. page.out # <<>> /\ \E p : Took(PostToTeamsAsync(host, Message.text), p)
    BY <1>10 DEF HearPost, Asked
  <2>. QED BY <1>3, <2>1, <2>2
<1>. QED BY <1>4, <1>5, <1>6, <1>7, <1>8, <1>9, <1>10 DEF HostHears

LEMMA PageHearsOwn ==
  ASSUME Inv, PageHears, OwnOnly
  PROVE  OwnOnly'
<1>0. page \in Pages /\ host \in Hosts /\ OwnPage(page) /\ OwnHost(host)
  BY DEF Inv, HostInv, HostOK, OwnOnly
<1>1. News \in HostMessages
  <2>1. host.out # <<>>
    BY DEF PageHears, PageState, PageThread, PageConversations, PageEditState, PageDeleteState,
           PageDraft, PageSendState, PagePostState, Told
  <2>. QED BY <1>0, <2>1, HostDrops DEF News
<1>2. PICK p : Shown(p) /\ TellsNothing(p, page)
  <2>1. CASE PageState \/ PageThread \/ PageConversations \/ PageEditState
    BY <1>0, <1>1, <2>1, ShowsTellNothing DEF PageState, PageThread, PageConversations, PageEditState, Told
  <2>2. CASE PageDeleteState \/ PageDraft \/ PageSendState \/ PagePostState
    BY <1>0, <1>1, <2>2, ShowsTellNothing DEF PageDeleteState, PageDraft, PageSendState, PagePostState, Told
  <2>. QED BY <2>1, <2>2 DEF PageHears
<1>3. OwnPage(p)
  BY <1>0, <1>2, TellsOwn
<1>4. Meek([host EXCEPT !.out = Tail(@)], host)
  BY DEF Meek
<1>5. OwnHost([host EXCEPT !.out = Tail(@)])
  BY <1>0, <1>4, MeekOwn
<1>. QED BY <1>2, <1>3, <1>5 DEF Shown, OwnOnly, OwnPage, OwnHost

LEMMA ServesOwn ==
  ASSUME Inv, Serves, OwnOnly
  PROVE  OwnOnly'
<1>1. host'.asking = host.asking /\ host'.change.id = host.change.id /\ page' = page
  BY ServeReadHost, ServeWaitHost, ServeSendHost, ServePostHost, ServeChangeHost DEF Serves, CallsOnly
<1>. QED BY <1>1 DEF OwnOnly, OwnPage, OwnHost

LEMMA HostLandsOwn ==
  ASSUME Inv, HostLands, OwnOnly
  PROVE  OwnOnly'
<1>0. host \in Hosts /\ OwnPage(page) /\ OwnHost(host)
  BY DEF Inv, HostInv, HostOK, OwnOnly
<1>1. PICK h : host' = h /\ page' = page /\ OwnHost(h)
  BY <1>0, MoreMeek, MeekOwn, ChangeLandedOwn
     DEF HostLands, ReadLands, WaitLands, SendLands, PostLands, ChangeLands, Lands, Step
<1>. QED BY <1>0, <1>1 DEF OwnOnly, OwnPage, OwnHost

LEMMA OwnInvariant == Spec => []OwnOnly
<1>1. Init => OwnOnly
  <2>1. OwnPage(PageAtStart)
    <3>1. PageAtStart.edit.id = "" /\ PageAtStart.out = <<>>
      BY DEF PageAtStart, NoEdit
    <3>2. DOMAIN <<>> = {}
      OBVIOUS
    <3>. QED BY <3>1, <3>2 DEF OwnPage
  <2>2. \A chosen, file, posted : OwnHost(HostAtStart(chosen, file, posted))
    BY DEF OwnHost, HostAtStart, IdleChange
  <2>. QED BY <2>1, <2>2 DEF Init, OwnOnly, OwnPage, OwnHost
<1>2. Inv /\ OwnOnly /\ [Next]_vars => OwnOnly'
  <2>. SUFFICES ASSUME Inv, OwnOnly, [Next]_vars PROVE OwnOnly'
    OBVIOUS
  <2>1. CASE UNCHANGED vars \/ Elsewhere
    BY <2>1 DEF vars, Elsewhere, OwnOnly, OwnPage, OwnHost
  <2>. QED BY <2>1, UserOwn, HostHearsOwn, PageHearsOwn, ServesOwn, HostLandsOwn DEF Next
<1>. QED BY <1>1, <1>2, Invariant, PTL DEF Spec

-----------------------------------------------------------------------------
(* What the user was told is done. *)

LEMMA FreshlyTrans ==
  ASSUME NEW f, NEW g, NEW h, Freshly(f, g), Freshly(g, h)
  PROVE  Freshly(f, h)
BY DEF Freshly

LEMMA ReadsFreshly ==
  ASSUME NEW g, NEW h, g.found = h.found, g.read = h.read, g.readAgain = h.readAgain, g.wait = h.wait,
         g.chosen = h.chosen, g.send = h.send \/ g.send.stage # "served",
         g.change = h.change \/ g.change.stage # "served"
  PROVE  Freshly(g, h)
BY DEF Freshly, FreshReads, FoundFits, ReadFits, WaitFits, Replaced

LEMMA SameFreshly ==
  ASSUME NEW g, NEW h, Same(g, h)
  PROVE  Freshly(g, h)
BY ReadsFreshly DEF Same

\* A read that is not quiet is sure to come, and one that is done must be run again.
LEMMA AsksFresh ==
  ASSUME NEW h \in Hosts, NEW quiet \in BOOLEAN, NEW acked,
         ReadFits(h, acked) \/ ~Busy(h.wait), WaitFits(h, acked), FoundFits(h, acked) \/ ~quiet
  PROVE  FreshReads(ReadAsync(h, quiet), acked)
<1>. DEFINE g == ReadAsync(h, quiet)
<1>1. /\ Kept(g, h) /\ g.found = h.found
      /\ Replaced(h) \/ ~quiet => Replaced(g)
  BY ReadAsyncOK
<1>2. \/ Busy(h.wait) /\ g.read = h.read /\ g.readAgain = h.readAgain
      \/ ~Busy(h.wait) /\ Busy(h.read) /\ g.readAgain
      \/ g.read.stage = "asked"
  <2>1. CASE Busy(h.wait)
    BY <2>1 DEF ReadAsync
  <2>2. CASE ~Busy(h.wait) /\ Busy(h.read)
    BY <2>2 DEF ReadAsync, Hosts
  <2>3. CASE ~Busy(h.wait) /\ ~Busy(h.read)
    BY <2>3 DEF ReadAsync, ShowState, Say, Hosts, IdleRead
  <2>. QED BY <2>1, <2>2, <2>3
<1>. HIDE DEF g
<1>3. ReadFits(g, acked)
  BY <1>2 DEF ReadFits
<1>4. WaitFits(g, acked)
  BY <1>1 DEF WaitFits, Kept
<1>5. FoundFits(g, acked)
  BY <1>1 DEF FoundFits
<1>6. FreshReads(g, acked)
  BY <1>3, <1>4, <1>5 DEF FreshReads
<1>. QED BY <1>6 DEF g

LEMMA ReadAsyncFreshly ==
  ASSUME NEW h \in Hosts, NEW quiet \in BOOLEAN
  PROVE  Freshly(ReadAsync(h, quiet), h)
<1>1. Kept(ReadAsync(h, quiet), h)
  BY ReadAsyncOK
<1>2. \A acked : FreshReads(h, acked) => FreshReads(ReadAsync(h, quiet), acked)
  BY AsksFresh DEF FreshReads
<1>. QED BY <1>1, <1>2 DEF Freshly, Kept

\* What an operator that shows a read leaves of the other reads, and of the thread on screen.
LEMMA ShowsFresh ==
  ASSUME NEW h \in Hosts, NEW r \in Results, r.state # "null", r.state = "found" => r.conv \in Convs,
         NEW acked, ReadFits(h, acked) \/ ~Busy(h.wait), WaitFits(h, acked)
  PROVE  LET g == ApplyResult(h, r)
         IN  /\ ReadFits(h, acked) => ReadFits(g, acked)
             /\ WaitFits(g, acked)
             /\ ResultFits(r, acked) => FoundFits(g, acked)
             /\ ReadKept(g, h) /\ (h.readAgain => g.readAgain)
<1>1. CASE \E f \in Hosts :
              /\ ApplyResult(h, r) = ReadAsync(f, FALSE)
              /\ f.found = h.found /\ f.notPosted = h.notPosted
              /\ f.read = h.read /\ f.readAgain = h.readAgain /\ f.wait = h.wait
  <2>1. PICK f \in Hosts :
              /\ ApplyResult(h, r) = ReadAsync(f, FALSE)
              /\ f.read = h.read /\ f.readAgain = h.readAgain /\ f.wait = h.wait
    BY <1>1
  <2>2. (ReadFits(f, acked) \/ ~Busy(f.wait)) /\ WaitFits(f, acked)
    BY <2>1 DEF ReadFits, WaitFits
  <2>3. FreshReads(ReadAsync(f, FALSE), acked)
    BY <2>2, AsksFresh
  <2>4. ReadKept(ReadAsync(f, FALSE), f)
    BY ReadAsyncOK
  <2>5. f.readAgain => ReadAsync(f, FALSE).readAgain
    BY DEF ReadAsync, ShowState, Say, Hosts
  <2>. QED BY <2>1, <2>3, <2>4, <2>5 DEF FreshReads, ReadKept
<1>2. CASE \E f \in Hosts :
              /\ ApplyResult(h, r) = ShowResult(f, r)
              /\ f.read = h.read /\ f.readAgain = h.readAgain /\ f.wait = h.wait
  <2>1. PICK f \in Hosts :
              /\ ApplyResult(h, r) = ShowResult(f, r)
              /\ f.read = h.read /\ f.readAgain = h.readAgain /\ f.wait = h.wait
    BY <1>2
  <2>. DEFINE g == ShowResult(f, r)
  <2>2. ReadSame(g, f) /\ g.found = IF r.state = "found" THEN ThreadOf(r) ELSE NoThread
    BY ShowResultOK
  <2>3. ApplyResult(h, r) = g
    BY <2>1
  <2>. HIDE DEF g
  <2>4. g.read = h.read /\ g.readAgain = h.readAgain /\ g.wait = h.wait
    BY <2>1, <2>2 DEF ReadSame, Kept
  <2>5. (ReadFits(h, acked) => ReadFits(g, acked)) /\ WaitFits(g, acked)
    BY <2>4 DEF ReadFits, WaitFits
  <2>6. ThreadOf(r).conv = r.conv /\ ThreadOf(r).msgs = r.msgs
    BY DEF ThreadOf
  <2>7. ResultFits(r, acked) => FoundFits(g, acked)
    BY <2>2, <2>6 DEF FoundFits, ResultFits
  <2>. QED BY <2>3, <2>4, <2>5, <2>7 DEF ReadKept
<1>. QED BY <1>1, <1>2, ApplyResultLeads

LEMMA ApplyKeepsCalls ==
  ASSUME NEW h \in Hosts, NEW r \in Results, r.state # "null", r.state = "found" => r.conv \in Convs
  PROVE  LET g == ApplyResult(h, r)
         IN  g \in Hosts /\ g.send = h.send /\ g.change = h.change
<1>1. {"asking", "change"} \subseteq DOMAIN h
  BY DEF Hosts
<1>2. Meek(ApplyResult(h, r), h)
  BY ApplyResultMeek
<1>3. ApplyResult(h, r) \in Hosts /\ Mute(ApplyResult(h, r), h)
  BY ApplyResultMute
<1>. QED BY <1>1, <1>2, <1>3 DEF Meek, Mute

LEMMA ActivateFreshly ==
  ASSUME NEW h \in Hosts, NEW stale \in BOOLEAN
  PROVE  Freshly(Activate(h, stale), h)
BY ReadAsyncFreshly, PostDraftOK, SameFreshly DEF Activate

LEMMA LanguageFreshly ==
  ASSUME NEW h \in Hosts
  PROVE  Freshly(OnLanguageChanged(h), h)
BY LanguageSame, SameFreshly

LEMMA SelectFreshly ==
  ASSUME NEW h \in Hosts, NEW c \in Convs
  PROVE  Freshly(SelectConversation(h, c), h)
<1>. DEFINE f == [h EXCEPT !.found = NoThread, !.notPosted = FALSE]
            g == ChooseConversation(f, c)
<1>1. SelectConversation(h, c) = h \/ SelectConversation(h, c) = ReadAsync(g, FALSE)
  BY DEF SelectConversation
<1>2. f \in Hosts
  BY ZenonT(60) DEF Hosts, Threads, NoThread
<1>3. /\ f.found = NoThread /\ f.read = h.read /\ f.readAgain = h.readAgain /\ f.wait = h.wait
      /\ f.send = h.send /\ f.change = h.change
  BY DEF Hosts
<1>. HIDE DEF f
<1>4. g \in Hosts /\ ReadSame(g, f) /\ g.found = f.found
  BY <1>2, ChooseOK
<1>. HIDE DEF g
<1>5. ASSUME NEW acked, FreshReads(h, acked) PROVE FreshReads(g, acked)
  BY <1>3, <1>4, <1>5 DEF FreshReads, FoundFits, ReadFits, WaitFits, ReadSame, Kept
<1>6. Freshly(g, h)
  BY <1>3, <1>4, <1>5 DEF Freshly, ReadSame, Kept
<1>7. Freshly(ReadAsync(g, FALSE), h)
  BY <1>4, <1>6, ReadAsyncFreshly, FreshlyTrans
<1>8. Freshly(h, h)
  BY DEF Freshly
<1>. QED BY <1>1, <1>7, <1>8

LEMMA SendFreshly ==
  ASSUME NEW h \in Hosts, NEW text \in Texts
  PROVE  Freshly(SendAsync(h, text), h)
<1>. DEFINE g == SendAsync(h, text)
<1>1. g.send = h.send \/ g.send.stage # "served"
  BY DEF SendAsync, ShowSendState, Say, Hosts, IdleSend
<1>2. /\ g.found = h.found /\ g.read = h.read /\ g.readAgain = h.readAgain /\ g.wait = h.wait
      /\ g.chosen = h.chosen /\ g.change = h.change
  BY DEF SendAsync, ShowSendState, Say, Hosts
<1>. HIDE DEF g
<1>3. Freshly(g, h)
  BY <1>1, <1>2, ReadsFreshly
<1>. QED BY <1>3 DEF g

LEMMA ChangeFreshly ==
  ASSUME NEW h \in Hosts, NEW what, NEW id
  PROVE  Freshly(ChangeAsync(h, what, id), h)
<1>. DEFINE g == ChangeAsync(h, what, id)
<1>1. g.change = h.change \/ g.change.stage # "served"
  BY DEF ChangeAsync, PostChangeState, Say, Hosts, IdleChange
<1>2. /\ g.found = h.found /\ g.read = h.read /\ g.readAgain = h.readAgain /\ g.wait = h.wait
      /\ g.chosen = h.chosen /\ g.send = h.send
  BY DEF ChangeAsync, PostChangeState, Say, Hosts
<1>. HIDE DEF g
<1>3. Freshly(g, h)
  BY <1>1, <1>2, ReadsFreshly
<1>. QED BY <1>3 DEF g

LEMMA AskingFreshly ==
  ASSUME NEW h \in Hosts, NEW s
  PROVE  Freshly([h EXCEPT !.asking = s], h)
<1>. DEFINE g == [h EXCEPT !.asking = s]
<1>1. /\ g.found = h.found /\ g.read = h.read /\ g.readAgain = h.readAgain /\ g.wait = h.wait
      /\ g.chosen = h.chosen /\ g.send = h.send /\ g.change = h.change
  BY DEF Hosts
<1>. HIDE DEF g
<1>2. Freshly(g, h)
  BY <1>1, ReadsFreshly
<1>. QED BY <1>2 DEF g

LEMMA ConfirmFreshly ==
  ASSUME NEW h \in Hosts, NEW id \in Ids, NEW yes \in BOOLEAN
  PROVE  Freshly(ConfirmDelete(h, id, yes), h)
<1>. DEFINE s == h.asking \ {id}
            f == [h EXCEPT !.asking = s]
<1>1. f \in Hosts
  BY DEF Hosts
<1>2. ConfirmDelete(h, id, yes) =
        IF yes THEN ChangeAsync(f, "delete", id) ELSE PostChangeState(f, "deleteState", id, "cancelled")
  BY DEF ConfirmDelete
<1>. HIDE DEF s
<1>3. Freshly(f, h)
  BY AskingFreshly
<1>. HIDE DEF f
<1>4. Freshly(ChangeAsync(f, "delete", id), h)
  BY <1>1, <1>3, ChangeFreshly, FreshlyTrans
<1>5. Freshly(PostChangeState(f, "deleteState", id, "cancelled"), f)
  BY <1>1, PostChangeStateOK, SameFreshly
<1>6. Freshly(PostChangeState(f, "deleteState", id, "cancelled"), h)
  BY <1>3, <1>5, FreshlyTrans
<1>. QED BY <1>2, <1>4, <1>6

LEMMA PostFreshly ==
  ASSUME NEW h \in Hosts, NEW text
  PROVE  Freshly(PostToTeamsAsync(h, text), h)
<1>. DEFINE g == PostToTeamsAsync(h, text)
<1>1. /\ g.found = h.found /\ g.read = h.read /\ g.readAgain = h.readAgain /\ g.wait = h.wait
      /\ g.chosen = h.chosen /\ g.send = h.send /\ g.change = h.change
  BY DEF PostToTeamsAsync, ShowPostState, Say, Hosts
<1>. HIDE DEF g
<1>2. Freshly(g, h)
  BY <1>1, ReadsFreshly
<1>. QED BY <1>2 DEF g

LEMMA WaitForPostFreshly ==
  ASSUME NEW h \in Hosts
  PROVE  Freshly(WaitForPostAsync(h), h)
<1>. DEFINE g == WaitForPostAsync(h)
<1>1. /\ g.found = h.found /\ g.read = h.read /\ g.readAgain = h.readAgain
      /\ g.chosen = h.chosen /\ g.send = h.send /\ g.change = h.change
  BY DEF WaitForPostAsync, ShowState, Say, Hosts
<1>2. Busy(g.wait) /\ (g.wait = h.wait \/ g.wait.stage # "served")
  BY DEF WaitForPostAsync, ShowState, Say, Hosts, Busy, IdleWait
<1>. HIDE DEF g
<1>3. Freshly(g, h)
  BY <1>1, <1>2 DEF Freshly, FreshReads, FoundFits, ReadFits, WaitFits, Replaced
<1>. QED BY <1>3 DEF g

LEMMA PostLandedFreshly ==
  ASSUME NEW h, HostOK(h), h.post.stage = "served"
  PROVE  Freshly(PostLanded(h), h)
<1>0. h \in Hosts /\ h.post.answer \in Answered
  BY DEF HostOK, Answering, CallsFilled, Hosts
<1>. DEFINE f == [h EXCEPT !.post = IdlePost]
            g == ShowPostState(f, h.post.answer)
            u == [g EXCEPT !.postUncertain = TRUE]
            p == [g EXCEPT !.postedAt = TRUE]
<1>1. PostLanded(h) = g \/ PostLanded(h) = ReadAsync(u, FALSE) \/ PostLanded(h) = WaitForPostAsync(p)
  BY DEF PostLanded
<1>2. f \in Hosts
  BY <1>0 DEF Hosts, IdlePost, Stages
<1>3. /\ f.found = h.found /\ f.read = h.read /\ f.readAgain = h.readAgain /\ f.wait = h.wait
      /\ f.chosen = h.chosen /\ f.send = h.send /\ f.change = h.change
  BY DEF Hosts
<1>. HIDE DEF f
<1>4. g \in Hosts /\ Same(g, f)
  BY <1>0, <1>2, ShowPostStateOK
<1>5. Freshly(g, h)
  BY <1>3, <1>4, ReadsFreshly DEF Same
<1>. HIDE DEF g
<1>6. u \in Hosts /\ p \in Hosts
  BY ZenonT(60), <1>4 DEF Hosts
<1>7. /\ u.found = g.found /\ u.read = g.read /\ u.readAgain = g.readAgain /\ u.wait = g.wait
      /\ u.chosen = g.chosen /\ u.send = g.send /\ u.change = g.change
  BY <1>4 DEF Hosts
<1>8. /\ p.found = g.found /\ p.read = g.read /\ p.readAgain = g.readAgain /\ p.wait = g.wait
      /\ p.chosen = g.chosen /\ p.send = g.send /\ p.change = g.change
  BY <1>4 DEF Hosts
<1>. HIDE DEF u, p
<1>9. Freshly(u, g) /\ Freshly(p, g)
  BY <1>7, <1>8, ReadsFreshly
<1>10. Freshly(ReadAsync(u, FALSE), g)
  BY <1>6, <1>9, ReadAsyncFreshly, FreshlyTrans
<1>11. Freshly(WaitForPostAsync(p), g)
  BY <1>6, <1>9, WaitForPostFreshly, FreshlyTrans
<1>12. Freshly(ReadAsync(u, FALSE), h) /\ Freshly(WaitForPostAsync(p), h)
  BY <1>5, <1>10, <1>11, FreshlyTrans
<1>. QED BY <1>1, <1>5, <1>12

LEMMA ReadLandedFreshly ==
  ASSUME NEW h, HostOK(h), h.read.stage = "served"
  PROVE  Freshly(ReadLanded(h), h)
<1>. DEFINE r == h.read.result
            done == [h EXCEPT !.read = IdleRead]
            f == IF AppliesRead(h) THEN ApplyResult(done, r) ELSE done
            e == [f EXCEPT !.readAgain = FALSE]
<1>0. h \in Hosts
  BY DEF HostOK
<1>1. /\ done \in Hosts /\ done.found = h.found
      /\ done.readAgain = h.readAgain /\ done.wait = h.wait /\ done.chosen = h.chosen
      /\ done.read = IdleRead
  BY <1>0, ReadEnds
<1>2. done.send = h.send /\ done.change = h.change
  BY <1>0 DEF Hosts
<1>3. ReadLanded(h) = IF f.readAgain THEN ReadAsync(e, FALSE) ELSE f
  BY DEF ReadLanded
<1>4. /\ r \in Results /\ r.state # "null"
      /\ r.state = "found" => r.conv \in Convs
  <2>1. /\ r \in Results /\ r.state # "null" /\ h.read.conv \in Convs \cup {Unchosen}
        /\ r.state = "found" => r.conv = ReadConv(h.read.conv)
    BY DEF HostOK, Hosts, Answering, ReadAnswer, CallsFilled
  <2>. QED BY <2>1, ReadConvOK
<1>5. \A acked : FreshReads(h, acked) => ResultFits(r, acked) \/ h.readAgain
  BY DEF FreshReads, ReadFits
<1>. HIDE DEF r, done
<1>6. f \in Hosts /\ f.send = h.send /\ f.change = h.change
  BY <1>1, <1>2, <1>4, ApplyKeepsCalls
<1>7. e \in Hosts /\ e.read = f.read /\ e.wait = f.wait /\ e.send = f.send /\ e.change = f.change
  <2>1. ASSUME NEW x \in Hosts
        PROVE  LET y == [x EXCEPT !.readAgain = FALSE]
               IN  y \in Hosts /\ y.read = x.read /\ y.wait = x.wait /\ y.send = x.send /\ y.change = x.change
    <3>1. [x EXCEPT !.readAgain = FALSE] \in Hosts
      BY DEF Hosts
    <3>2. LET y == [x EXCEPT !.readAgain = FALSE]
          IN  y.read = x.read /\ y.wait = x.wait /\ y.send = x.send /\ y.change = x.change
      BY DEF Hosts
    <3>. QED BY <3>1, <3>2
  <2>. QED BY <1>6, <2>1
<1>8. ASSUME NEW acked, FreshReads(h, acked)
      PROVE  /\ ReadFits(f, acked) /\ WaitFits(f, acked) /\ f.read.stage # "served"
             /\ ~f.readAgain => FoundFits(f, acked)
  <2>1. ReadFits(done, acked) /\ WaitFits(done, acked)
    BY <1>1, <1>8 DEF FreshReads, ReadFits, WaitFits, IdleRead
  <2>2. done.read.stage # "served"
    BY <1>1 DEF IdleRead
  <2>3. CASE AppliesRead(h)
    <3>1. /\ ReadFits(f, acked) /\ WaitFits(f, acked)
          /\ ResultFits(r, acked) => FoundFits(f, acked)
          /\ ReadKept(f, done) /\ (done.readAgain => f.readAgain)
      BY <1>1, <1>4, <2>1, <2>3, ShowsFresh
    <3>2. ~f.readAgain => ResultFits(r, acked)
      BY <1>1, <1>5, <1>8, <3>1
    <3>. QED BY <2>2, <3>1, <3>2 DEF ReadKept
  <2>4. CASE ~AppliesRead(h)
    <3>1. f = done
      BY <2>4
    <3>. HIDE DEF f
    <3>2. ASSUME ~f.readAgain PROVE FoundFits(f, acked)
      <4>1. Replaced(h) => Busy(h.wait)
        BY <1>1, <2>4, <3>1, <3>2 DEF Replaced, AppliesRead, IsQuietReadUnchanged
      <4>2. FoundFits(h, acked)
        BY <1>8 DEF FreshReads
      <4>. QED BY <1>1, <3>1, <4>1, <4>2 DEF FoundFits, Replaced
    <3>. QED BY <2>1, <2>2, <3>1, <3>2
  <2>. QED BY <2>3, <2>4
<1>. HIDE DEF f
<1>9. ASSUME NEW acked, FreshReads(h, acked), f.readAgain PROVE FreshReads(ReadAsync(e, FALSE), acked)
  <2>1. ReadFits(e, acked) /\ WaitFits(e, acked)
    BY <1>7, <1>8, <1>9 DEF ReadFits, WaitFits
  <2>. QED BY <1>7, <2>1, AsksFresh
<1>. HIDE DEF e
<1>10. Kept(ReadAsync(e, FALSE), e)
  BY <1>7, ReadAsyncOK
<1>11. CASE f.readAgain
  BY <1>3, <1>6, <1>7, <1>9, <1>10, <1>11 DEF Freshly, Kept
<1>12. CASE ~f.readAgain
  BY <1>3, <1>6, <1>8, <1>12 DEF Freshly, FreshReads
<1>. QED BY <1>11, <1>12

LEMMA WaitLandedFreshly ==
  ASSUME NEW h, HostOK(h), h.wait.stage = "served"
  PROVE  Freshly(WaitLanded(h), h)
<1>. DEFINE r == h.wait.result
            done == [h EXCEPT !.wait = IdleWait]
            g == ApplyResult(done, r)
<1>0. h \in Hosts /\ IdleWait \in [stage : Stages, result : Results] /\ IdleWait.stage = "idle"
  BY IdleOK DEF HostOK, IdleWait, Stages
<1>1. done \in Hosts
  BY <1>0 DEF Hosts
<1>2. /\ done.found = h.found /\ done.read = h.read /\ done.readAgain = h.readAgain
      /\ done.wait = IdleWait /\ done.send = h.send /\ done.change = h.change
  BY <1>0 DEF Hosts
<1>3. WaitLanded(h) = g
  BY DEF WaitLanded
<1>4. r \in Results /\ r.state # "null" /\ (r.state = "found" => r.conv \in Convs)
  BY DEF HostOK, Hosts, Answering, ReadAnswer, CallsFilled, Convs
<1>5. \A acked : FreshReads(h, acked) => ResultFits(r, acked)
  BY DEF FreshReads, WaitFits
<1>. HIDE DEF r, done
<1>6. g.send = h.send /\ g.change = h.change
  BY <1>1, <1>2, <1>4, ApplyKeepsCalls
<1>7. ASSUME NEW acked, FreshReads(h, acked) PROVE FreshReads(g, acked)
  <2>1. ReadFits(done, acked) /\ WaitFits(done, acked)
    BY <1>0, <1>2, <1>7 DEF FreshReads, ReadFits, WaitFits
  <2>. QED BY <1>1, <1>4, <1>5, <1>7, <2>1, ShowsFresh DEF FreshReads
<1>. HIDE DEF g
<1>. QED BY <1>3, <1>6, <1>7 DEF Freshly

\* A change that was answered "sent" is shown by its own re-read, or one is sure to come;
\* the read that was under way when it went out is run again.
LEMMA AfterFresh ==
  ASSUME NEW h \in Hosts, NEW r \in Results, r.state = "found" => r.conv \in Convs,
         NEW acked, ResultFits(r, acked), ~Busy(h.wait)
  PROVE  LET g == ShowAfter(h, r)
         IN  FreshReads(g, acked) /\ g.send = h.send /\ g.change = h.change
<1>1. WaitFits(h, acked)
  BY DEF WaitFits, Busy
<1>2. CASE r.state = "null"
  <2>1. ShowAfter(h, r) = ReadAsync(h, FALSE)
    BY <1>2 DEF ShowAfter
  <2>2. Kept(ReadAsync(h, FALSE), h)
    BY ReadAsyncOK
  <2>3. FreshReads(ReadAsync(h, FALSE), acked)
    BY <1>1, AsksFresh
  <2>. QED BY <2>1, <2>2, <2>3 DEF Kept
<1>3. CASE r.state # "null"
  <2>. DEFINE g == ApplyResult(h, r)
              e == [g EXCEPT !.readAgain = TRUE]
  <2>1. ShowAfter(h, r) = IF Busy(g.read) THEN e ELSE g
    BY <1>3 DEF ShowAfter
  <2>2. g \in Hosts /\ g.send = h.send /\ g.change = h.change
    BY <1>3, ApplyKeepsCalls
  <2>3. WaitFits(g, acked) /\ FoundFits(g, acked)
    BY <1>1, <1>3, ShowsFresh
  <2>. HIDE DEF g
  <2>4. /\ e.found = g.found /\ e.read = g.read /\ e.readAgain /\ e.wait = g.wait /\ e.chosen = g.chosen
        /\ e.send = g.send /\ e.change = g.change
    BY <2>2 DEF Hosts
  <2>. HIDE DEF e
  <2>5. FreshReads(e, acked)
    BY <2>3, <2>4 DEF FreshReads, FoundFits, ReadFits, WaitFits, Replaced
  <2>6. ~Busy(g.read) => FreshReads(g, acked)
    BY <2>3 DEF FreshReads, ReadFits, Busy
  <2>. QED BY <2>1, <2>2, <2>4, <2>5, <2>6
<1>. QED BY <1>2, <1>3

LEMMA SendLandedFresh ==
  ASSUME NEW h, HostOK(h), h.send.stage = "served", ~Busy(h.wait),
         NEW acked, NEW now, FreshReads(h, acked),
         IF h.send.answer = "sent" THEN ResultFits(h.send.after, now) ELSE now = acked
  PROVE  LET g == SendLanded(h)
         IN  FreshReads(g, now) /\ g.send.stage = "idle" /\ g.change = h.change
<1>. DEFINE r == h.send.after
            done == [h EXCEPT !.send = IdleSend]
            g == ShowSendState(done, h.send.answer)
<1>0. h \in Hosts /\ h.send.answer \in Answered
  <2>1. h \in Hosts /\ h.send.answer # ""
    BY DEF HostOK, Answering, CallsFilled
  <2>. QED BY <2>1 DEF Hosts
<1>1. done \in Hosts
  <2>1. IdleSend \in [stage : Stages, conv : Convs \cup {""}, text : Texts \cup {""},
                      answer : Answered \cup {""}, after : Results]
    BY IdleOK DEF IdleSend, Stages
  <2>. QED BY ZenonT(60), <1>0, <2>1 DEF Hosts
<1>2. /\ done.found = h.found /\ done.read = h.read /\ done.readAgain = h.readAgain
      /\ done.wait = h.wait /\ done.chosen = h.chosen /\ done.send = IdleSend /\ done.change = h.change
  BY <1>0 DEF Hosts
<1>3. SendLanded(h) = IF h.send.answer = "sent" THEN ShowAfter(g, r) ELSE g
  BY DEF SendLanded
<1>4. r \in Results /\ (r.state = "found" => r.conv \in Convs)
  <2>1. r \in Results
    BY <1>0 DEF Hosts
  <2>. QED BY <2>1 DEF HostOK, Answering, AfterAnswer, CallsFilled, Busy
<1>. HIDE DEF r, done
<1>5. g \in Hosts /\ Same(g, done)
  BY <1>0, <1>1, ShowSendStateOK
<1>. HIDE DEF g
<1>6. FreshReads(g, acked)
  BY <1>2, <1>5 DEF Same, FreshReads, FoundFits, ReadFits, WaitFits, Replaced
<1>7. g.send.stage = "idle" /\ g.change = h.change /\ g.wait = h.wait
  BY <1>2, <1>5, IdleFacts DEF Same
<1>8. CASE h.send.answer = "sent"
  BY <1>3, <1>4, <1>5, <1>7, <1>8, AfterFresh DEF r
<1>9. CASE h.send.answer # "sent"
  BY <1>3, <1>6, <1>7, <1>9
<1>. QED BY <1>8, <1>9

LEMMA ChangeLandedFresh ==
  ASSUME NEW h, HostOK(h), h.change.stage = "served", ~Busy(h.wait),
         NEW acked, NEW now, FreshReads(h, acked),
         IF h.change.answer = "sent" THEN ResultFits(h.change.after, now) ELSE now = acked
  PROVE  LET g == ApplyChangeResult(h)
         IN  FreshReads(g, now) /\ g.change.stage = "idle" /\ g.send = h.send
<1>. DEFINE c == h.change
            r == c.after
            done == [h EXCEPT !.change = IdleChange]
            word == IF c.answer = "sent" THEN Done(c.what) ELSE c.answer
            g == PostChangeState(done, StateType(c.what), c.id, word)
<1>0. /\ h \in Hosts /\ c.answer \in Answered /\ c.id \in Ids /\ c.conv \in Convs
      /\ c.what \in {"edit", "delete"}
  <2>1. /\ h \in Hosts /\ c.answer # "" /\ c.id \in Ids /\ c.conv \in Convs /\ c.what # ""
    BY DEF HostOK, Answering, CallsFilled, Busy
  <2>. QED BY <2>1 DEF Hosts
<1>1. done \in Hosts
  <2>1. IdleChange \in [stage : Stages, what : {"edit", "delete", ""}, conv : Convs \cup {""},
                        id : Ids \cup {""}, answer : Answered \cup {""}, after : Results]
    BY IdleOK DEF IdleChange, Stages
  <2>. QED BY ZenonT(60), <1>0, <2>1 DEF Hosts
<1>2. /\ done.found = h.found /\ done.read = h.read /\ done.readAgain = h.readAgain
      /\ done.wait = h.wait /\ done.chosen = h.chosen /\ done.change = IdleChange /\ done.send = h.send
  BY <1>0 DEF Hosts
<1>3. ApplyChangeResult(h) =
        CASE c.answer = "uncertain" -> ReadAsync(g, FALSE)
          [] c.answer = "sent" -> ShowAfter(g, r)
          [] OTHER -> g
  BY DEF ApplyChangeResult
<1>4. r \in Results /\ (r.state = "found" => r.conv \in Convs)
  <2>1. r \in Results
    BY <1>0 DEF Hosts
  <2>. QED BY <1>0, <2>1 DEF HostOK, Answering, AfterAnswer
<1>5. /\ StateType(c.what) \in {"editState", "deleteState"}
      /\ word \in {"saved", "deleted", "failed", "uncertain"}
  BY <1>0 DEF StateType, Done, Answered
<1>6. IF c.answer = "sent" THEN ResultFits(r, now) ELSE now = acked
  OBVIOUS
<1>. HIDE DEF r, c, word, done
<1>7. g \in Hosts /\ Same(g, done)
  BY <1>0, <1>1, <1>5, PostChangeStateOK
<1>. HIDE DEF g
<1>8. FreshReads(g, acked)
  BY <1>2, <1>7 DEF Same, FreshReads, FoundFits, ReadFits, WaitFits, Replaced
<1>9. g.change.stage = "idle" /\ g.send = h.send /\ g.wait = h.wait
  BY <1>2, <1>7, IdleFacts DEF Same
<1>10. CASE c.answer = "sent"
  BY <1>3, <1>4, <1>6, <1>7, <1>9, <1>10, AfterFresh
<1>11. CASE c.answer = "uncertain"
  <2>1. FreshReads(ReadAsync(g, FALSE), acked)
    BY <1>7, <1>8, ReadAsyncFreshly DEF Freshly
  <2>2. Kept(ReadAsync(g, FALSE), g)
    BY <1>7, ReadAsyncOK
  <2>. QED BY <1>3, <1>6, <1>9, <1>11, <2>1, <2>2 DEF Kept
<1>12. CASE c.answer = "failed"
  BY <1>3, <1>6, <1>8, <1>9, <1>12
<1>. QED BY <1>0, <1>10, <1>11, <1>12 DEF Answered

-----------------------------------------------------------------------------
(* The changes and Teams. *)

LEMMA FreshlyKeeps ==
  ASSUME FreshNow, Freshly(host', host), teams' = teams, past'.acked = past.acked,
         ~past'.overlap => ~past.overlap /\ ~Overlapping(host')
  PROVE  FreshNow'
<1>1. OwnAcks' /\ RootInPost'
  BY DEF FreshNow, OwnAcks, RootInPost
<1>2. ASSUME ~past'.overlap PROVE Freshness(host', past.acked, teams.in)
  <2>1. Freshness(host, past.acked, teams.in) /\ ~Overlapping(host')
    BY <1>2 DEF FreshNow
  <2>2. FreshReads(host', past.acked)
    BY <2>1 DEF Freshness, Freshly
  <2>3. SendHeld(host'.send, past.acked, teams.in)
    BY <2>1 DEF Freshness, Freshly, SendHeld
  <2>4. ChangeHeld(host'.change, past.acked, teams.in)
    BY <2>1 DEF Freshness, Freshly, ChangeHeld
  <2>. QED BY <2>1, <2>2, <2>3, <2>4 DEF Freshness
<1>. QED BY <1>1, <1>2 DEF FreshNow

LEMMA StepRecords ==
  ASSUME NEW h, NEW p, {"acked", "overlap", "crossed"} \subseteq DOMAIN p, Step(h, p)
  PROVE  /\ host' = h /\ past'.acked = p.acked
         /\ ~past'.overlap => ~p.overlap /\ ~Overlapping(host')
<1>1. /\ host' = h
      /\ past' = [p EXCEPT !.crossed = @ \/ Crossing(h), !.overlap = @ \/ Overlapping(h)]
  BY DEF Step
<1>2. past'.acked = p.acked /\ past'.overlap = (p.overlap \/ Overlapping(h))
  BY <1>1
<1>. QED BY <1>1, <1>2

LEMMA HandlerFresh ==
  ASSUME Inv, FreshNow, NEW h, NEW p, Step(h, p), Freshly(h, host), teams' = teams,
         {"acked", "overlap", "crossed"} \subseteq DOMAIN p, p.acked = past.acked, p.overlap = past.overlap
  PROVE  FreshNow'
<1>1. host' = h /\ past'.acked = p.acked /\ (~past'.overlap => ~p.overlap /\ ~Overlapping(host'))
  BY StepRecords
<1>. QED BY <1>1, FreshlyKeeps

LEMMA UserFresh ==
  ASSUME Inv, UserNext, FreshNow
  PROVE  FreshNow'
<1>0. host \in Hosts /\ past \in Pasts
  BY DEF Inv, HostInv, HostOK
<1>1. {"acked", "overlap", "crossed"} \subseteq DOMAIN past
  BY <1>0 DEF Pasts
<1>2. ASSUME NEW p, OnPage(p), past'.acked = past.acked, past'.overlap = past.overlap PROVE FreshNow'
  BY <1>2 DEF OnPage, FreshNow, OwnAcks, RootInPost
<1>3. ASSUME NEW h, Freshly(h, host), NEW kind, ByHost(h, kind) PROVE FreshNow'
  BY <1>1, <1>3, HandlerFresh DEF ByHost
<1>4. ASSUME NEW t \in Texts, WriteReply(t) PROVE FreshNow'
  <2>1. past'.acked = past.acked /\ past'.overlap = past.overlap
    BY <1>0, <1>4 DEF WriteReply, Pasts
  <2>. QED BY <1>2, <1>4, <2>1 DEF WriteReply
<1>5. ASSUME NEW t \in Texts, PutWhileSending(t) PROVE FreshNow'
  <2>1. past'.acked = past.acked /\ past'.overlap = past.overlap
    BY <1>0, <1>5 DEF PutWhileSending, Pasts
  <2>. QED BY <1>2, <1>5, <2>1 DEF PutWhileSending
<1>6. CASE ClickSend \/ ClickRefresh \/ ClickReload \/ ClickPost \/ ClickSave \/ EscapeEdit
  BY <1>2, <1>6 DEF ClickSend, ClickRefresh, ClickReload, ClickPost, ClickSave, EscapeEdit, UserActs
<1>7. CASE ClickConversation \/ TypePost \/ OpenEdit \/ ClickDelete
  BY <1>2, <1>7 DEF ClickConversation, TypePost, OpenEdit, ClickDelete, UserActs
<1>8. CASE ShowTab
  BY <1>0, <1>3, <1>8, ActivateFreshly DEF ShowTab
<1>9. CASE PollTick
  BY <1>0, <1>3, <1>9, ReadAsyncFreshly DEF PollTick, OnPollTick
<1>10. CASE SwitchLanguage
  BY <1>0, <1>3, <1>10, LanguageFreshly DEF SwitchLanguage
<1>11. CASE RewriteDraft
  <2>1. PICK d \in Drafts : ByHost([host EXCEPT !.file = d], "rewrite")
    BY <1>11 DEF RewriteDraft
  <2>. DEFINE g == [host EXCEPT !.file = d]
  <2>2. /\ g.found = host.found /\ g.read = host.read /\ g.readAgain = host.readAgain /\ g.wait = host.wait
        /\ g.chosen = host.chosen /\ g.send = host.send /\ g.change = host.change
    BY <1>0 DEF Hosts
  <2>. HIDE DEF g
  <2>3. Freshly(g, host)
    BY <2>2, ReadsFreshly
  <2>. QED BY <1>3, <2>1, <2>3 DEF g
<1>12. CASE AnswerDialog
  <2>1. PICK id \in host.asking, yes \in BOOLEAN : Step(ConfirmDelete(host, id, yes), past) /\ teams' = teams
    BY <1>12 DEF AnswerDialog
  <2>2. id \in Ids
    BY <1>0 DEF Hosts
  <2>3. Freshly(ConfirmDelete(host, id, yes), host)
    BY <1>0, <2>2, ConfirmFreshly
  <2>. QED BY <1>1, <2>1, <2>3, HandlerFresh
<1>. QED BY <1>4, <1>5, <1>6, <1>7, <1>8, <1>9, <1>10, <1>11, <1>12 DEF UserNext

LEMMA HostHearsFresh ==
  ASSUME Inv, HostHears, FreshNow
  PROVE  FreshNow'
<1>0. page \in Pages /\ host \in Hosts /\ past \in Pasts
  BY DEF Inv, HostInv, HostOK
<1>1. ASSUME page.out # <<>> PROVE Message \in PageMessages
  BY <1>0, <1>1, PageDrops DEF Message
<1>2. {"acked", "overlap", "crossed"} \subseteq DOMAIN past
  BY <1>0 DEF Pasts
<1>3. ASSUME NEW h, Took(h, past), Freshly(h, host) PROVE FreshNow'
  BY <1>2, <1>3, HandlerFresh DEF Took
<1>4. CASE HearRefresh
  BY <1>0, <1>3, <1>4, ReadAsyncFreshly DEF HearRefresh
<1>5. CASE HearSelect
  <2>1. Message.conv \in Convs
    BY <1>1, <1>5, PageMessageTypes DEF HearSelect, Asked
  <2>. QED BY <1>0, <1>3, <1>5, <2>1, SelectFreshly DEF HearSelect
<1>6. CASE HearReload
  BY <1>0, <1>3, <1>6, PostDraftOK, SameFreshly DEF HearReload
<1>7. CASE HearSend
  <2>1. Message.text \in Texts
    BY <1>1, <1>7, PageMessageTypes DEF HearSend, Asked
  <2>. QED BY <1>0, <1>3, <1>7, <2>1, SendFreshly DEF HearSend
<1>8. CASE HearEdit
  BY <1>0, <1>3, <1>8, ChangeFreshly DEF HearEdit
<1>9. CASE HearDelete
  BY <1>0, <1>3, <1>9, AskingFreshly DEF HearDelete, AskDelete
<1>10. CASE HearPost
  <2>. DEFINE h == PostToTeamsAsync(host, Message.text)
              w == past.warned \/ (h.warned # host.warned /\ h.postState = "warning")
              p == [past EXCEPT !.warned = w]
  <2>1. Took(h, p)
    BY <1>10 DEF HearPost
  <2>2. Freshly(h, host)
    BY <1>0, PostFreshly
  <2>. HIDE DEF h, w
  <2>3. {"acked", "overlap", "crossed"} \subseteq DOMAIN p /\ p.acked = past.acked /\ p.overlap = past.overlap
    BY <1>2
  <2>. HIDE DEF p
  <2>. QED BY <2>1, <2>2, <2>3, HandlerFresh DEF Took
<1>. QED BY <1>4, <1>5, <1>6, <1>7, <1>8, <1>9, <1>10 DEF HostHears

LEMMA PageHearsFresh ==
  ASSUME Inv, PageHears, FreshNow
  PROVE  FreshNow'
<1>0. host \in Hosts /\ past \in Pasts
  BY DEF Inv, HostInv, HostOK
<1>1. host' = [host EXCEPT !.out = Tail(@)] /\ teams' = teams
  BY DEF PageHears, PageState, PageThread, PageConversations, PageEditState, PageDeleteState,
         PageDraft, PageSendState, PagePostState, Shown
<1>2. past'.acked = past.acked /\ past'.overlap = past.overlap
  <2>1. CASE PageState \/ PageThread \/ PageConversations \/ PageEditState \/ PageDeleteState
    BY <2>1 DEF PageState, PageThread, PageConversations, PageEditState, PageDeleteState
  <2>2. CASE PageDraft
    BY <1>0, <2>2 DEF PageDraft, Pasts
  <2>3. CASE PageSendState
    BY <1>0, <2>3 DEF PageSendState, Pasts
  <2>4. CASE PagePostState
    BY <1>0, <2>4 DEF PagePostState, Pasts
  <2>. QED BY <2>1, <2>2, <2>3, <2>4 DEF PageHears
<1>3. /\ host'.found = host.found /\ host'.read = host.read /\ host'.readAgain = host.readAgain
      /\ host'.wait = host.wait /\ host'.chosen = host.chosen
      /\ host'.send = host.send /\ host'.change = host.change /\ host'.post = host.post
  BY <1>0, <1>1 DEF Hosts
<1>4. Freshly(host', host)
  BY <1>3, ReadsFreshly
<1>5. ~past.overlap => ~Overlapping(host')
  BY <1>3 DEF FreshNow, Freshness, Overlapping
<1>. QED BY <1>1, <1>2, <1>4, <1>5, FreshlyKeeps

LEMMA ShowsAdded ==
  ASSUME NEW a, a.ver \in Vers, NEW msgs, NEW x, a.ver = "gone" => a.id # x, ShowsChange(a, msgs)
  PROVE  ShowsChange(a, msgs \cup {[id |-> x, ver |-> "first"]})
<1>. DEFINE m == [id |-> x, ver |-> "first"]
<1>1. m.id = x
  OBVIOUS
<1>. HIDE DEF m
<1>2. HasId(msgs, a.id) => HasId(msgs \cup {m}, a.id)
  BY DEF HasId
<1>3. a.id # x /\ ~HasId(msgs, a.id) => ~HasId(msgs \cup {m}, a.id)
  BY <1>1 DEF HasId
<1>4. ShowsChange(a, msgs \cup {m})
  BY <1>2, <1>3 DEF ShowsChange, Vers
<1>. QED BY <1>4 DEF m

LEMMA ShowsChanged ==
  ASSUME NEW a, a.ver \in Vers, NEW conv, NEW what \in {"edit", "delete"}, NEW id, a.id # id,
         ~(what = "delete" /\ id = "root"), ShowsChange(a, teams.in[conv])
  PROVE  ShowsChange(a, Changed(conv, what, id))
<1>. DEFINE others == {m \in teams.in[conv] : m.id # id}
            n == [id |-> id, ver |-> "edited"]
            e == [id |-> a.id, ver |-> "edited"]
<1>1. Changed(conv, what, id) = others \/ Changed(conv, what, id) = others \cup {n}
  BY DEF Changed
<1>2. n.id = id /\ e.id = a.id
  OBVIOUS
<1>3. /\ HasId(others, a.id) <=> HasId(teams.in[conv], a.id)
      /\ HasId(others \cup {n}, a.id) <=> HasId(teams.in[conv], a.id)
  BY <1>2 DEF HasId
<1>4. e \in teams.in[conv] => e \in others
  BY <1>2
<1>. HIDE DEF others, n, e
<1>5. ShowsChange(a, others) /\ ShowsChange(a, others \cup {n})
  BY <1>3, <1>4 DEF ShowsChange, Vers, e
<1>. QED BY <1>1, <1>5

LEMMA PromiseShown ==
  ASSUME NEW c, c.what \in {"edit", "delete"}, c.id # "root"
  PROVE  ShowsChange(Promised(c), Changed(c.conv, c.what, c.id))
<1>. DEFINE others == {m \in teams.in[c.conv] : m.id # c.id}
<1>1. Promised(c).id = c.id /\ Promised(c).ver = IF c.what = "edit" THEN "edited" ELSE "gone"
  BY DEF Promised
<1>2. CASE c.what = "edit"
  <2>1. [id |-> c.id, ver |-> "edited"] \in Changed(c.conv, c.what, c.id)
    BY <1>2 DEF Changed
  <2>. QED BY <1>1, <1>2, <2>1 DEF ShowsChange
<1>3. CASE c.what = "delete"
  <2>1. Changed(c.conv, c.what, c.id) = others
    BY <1>3 DEF Changed
  <2>2. ~HasId(others, c.id)
    BY DEF HasId
  <2>. QED BY <1>1, <1>3, <2>1, <2>2 DEF ShowsChange
<1>. QED BY <1>2, <1>3

LEMMA AcksTyped ==
  ASSUME Inv, NEW a \in past.acked
  PROVE  a.conv \in Convs /\ a.id \in Ids /\ a.ver \in Vers
BY DEF Inv, HostInv, Pasts, Vers

LEMMA ReadShows ==
  ASSUME NEW acked, TeamsShows(acked, teams.in), NEW conv
  PROVE  ResultFits(ReadOf(conv), acked)
<1>1. ReadOf(conv).state = "found" => ReadOf(conv).msgs = teams.in[ReadOf(conv).conv]
  BY DEF ReadOf, PostRead, Result
<1>. QED BY <1>1 DEF ResultFits, Fits, TeamsShows

LEMMA ServeReadFresh ==
  ASSUME Inv, ServeRead, FreshNow
  PROVE  FreshNow'
<1>1. /\ CallsOnly(host', host) /\ host'.wait = host.wait /\ host'.send = host.send
      /\ host'.post = host.post /\ host'.change = host.change
      /\ host.read.stage = "asked" /\ host'.read.stage = "served"
      /\ host'.read.conv = host.read.conv /\ host'.read.quiet = host.read.quiet
      /\ host'.read.result = ReadOf(ReadConv(host.read.conv)) \/ host'.read.result.state # "found"
      /\ teams' = teams /\ past' = past
  BY ServeReadHost
<1>2. OwnAcks' /\ RootInPost'
  BY <1>1 DEF FreshNow, OwnAcks, RootInPost
<1>3. ASSUME ~past'.overlap PROVE Freshness(host', past.acked, teams.in)
  <2>1. Freshness(host, past.acked, teams.in)
    BY <1>1, <1>3 DEF FreshNow
  <2>2. ~Overlapping(host')
    BY <1>1, <2>1 DEF Freshness, Overlapping
  <2>3. ResultFits(host'.read.result, past.acked)
    BY <1>1, <2>1, ReadShows DEF Freshness, ResultFits
  <2>4. Replaced(host) => Replaced(host')
    BY <1>1 DEF Replaced, CallsOnly, Busy
  <2>5. FreshReads(host', past.acked)
    BY <1>1, <2>1, <2>3, <2>4 DEF Freshness, FreshReads, FoundFits, ReadFits, WaitFits, CallsOnly
  <2>. QED BY <1>1, <2>1, <2>2, <2>5 DEF Freshness
<1>. QED BY <1>1, <1>2, <1>3 DEF FreshNow

LEMMA ServeWaitFresh ==
  ASSUME Inv, ServeWait, FreshNow
  PROVE  FreshNow'
<1>1. /\ CallsOnly(host', host) /\ host'.read = host.read /\ host'.send = host.send
      /\ host'.post = host.post /\ host'.change = host.change
      /\ host.wait.stage = "asked" /\ host'.wait.stage = "served"
      /\ host'.wait.result = ReadOf(Post) \/ host'.wait.result.state # "found"
      /\ teams' = teams /\ past' = past
  BY ServeWaitHost
<1>2. OwnAcks' /\ RootInPost'
  BY <1>1 DEF FreshNow, OwnAcks, RootInPost
<1>3. ASSUME ~past'.overlap PROVE Freshness(host', past.acked, teams.in)
  <2>1. Freshness(host, past.acked, teams.in)
    BY <1>1, <1>3 DEF FreshNow
  <2>2. ~Overlapping(host')
    BY <1>1, <2>1 DEF Freshness, Overlapping, Busy
  <2>3. ResultFits(host'.wait.result, past.acked)
    BY <1>1, <2>1, ReadShows DEF Freshness, ResultFits
  <2>4. Replaced(host')
    BY <1>1 DEF Replaced, Busy
  <2>5. FreshReads(host', past.acked)
    BY <1>1, <2>1, <2>3, <2>4 DEF Freshness, FreshReads, FoundFits, ReadFits, WaitFits, CallsOnly
  <2>. QED BY <1>1, <2>1, <2>2, <2>5 DEF Freshness
<1>. QED BY <1>1, <1>2, <1>3 DEF FreshNow

\* With fewer changes told, the reads still show them all.
LEMMA FewerReads ==
  ASSUME NEW h, NEW acked, NEW fewer \in SUBSET acked, FreshReads(h, acked)
  PROVE  FreshReads(h, fewer)
<1>1. \A conv, msgs : Fits(acked, conv, msgs) => Fits(fewer, conv, msgs)
  BY DEF Fits
<1>. QED BY <1>1 DEF FreshReads, FoundFits, ReadFits, WaitFits, ResultFits

\* The calls of the host other than one are the same.
LEMMA StillReads ==
  ASSUME NEW g, NEW h, CallsOnly(g, h), g.read = h.read, g.wait = h.wait, NEW acked, FreshReads(h, acked)
  PROVE  FreshReads(g, acked)
BY DEF FreshReads, FoundFits, ReadFits, WaitFits, Replaced, CallsOnly

\* A thread of Teams changes in one conversation.
LEMMA ThreadChanges ==
  ASSUME Inv, NEW conv \in Convs, NEW msgs, NEW root
  PROVE  LET one == [teams EXCEPT !.in[conv] = msgs]
             both == [teams EXCEPT !.in[conv] = msgs, !.root = root]
         IN  /\ one.in[conv] = msgs /\ \A c \in Convs : c # conv => one.in[c] = teams.in[c]
             /\ both.in[conv] = msgs /\ \A c \in Convs : c # conv => both.in[c] = teams.in[c]
<1>1. teams \in TeamsStates
  BY DEF Inv, HostInv
<1>2. "in" \in DOMAIN teams /\ "root" \in DOMAIN teams /\ DOMAIN teams.in = Convs
  BY <1>1 DEF TeamsStates
<1>. QED BY <1>2

LEMMA ServeSendFresh ==
  ASSUME Inv, ServeSend, FreshNow
  PROVE  FreshNow'
<1>. DEFINE s == host.send
            after == teams.in[s.conv] \cup {[id |-> s.text, ver |-> "first"]}
<1>1. /\ CallsOnly(host', host) /\ host'.read = host.read /\ host'.wait = host.wait
      /\ host'.post = host.post /\ host'.change = host.change
      /\ s.stage = "asked" /\ host'.send.stage = "served"
      /\ host'.send.conv = s.conv /\ host'.send.text = s.text
      /\ s.conv \in Convs /\ s.text \in Texts
      /\ host'.send.after = Reread(s.conv, after) \/ host'.send.after.state # "found"
      /\ \/ /\ teams' = [teams EXCEPT !.in[s.conv] = after]
            /\ past'.acked = Forgotten(past.acked, s.conv, s.text)
         \/ /\ teams' = teams /\ past'.acked = past.acked
            /\ host'.send.answer # "sent" /\ host'.send.after.state # "found"
      /\ past'.overlap = past.overlap
  BY ServeSendHost
<1>2. s.text # "root" /\ Chats \subseteq Convs
  BY <1>1, KindsOfText DEF Convs
<1>3. /\ HasId(after, s.text)
      /\ \A id : id # s.text => (HasId(after, id) <=> HasId(teams.in[s.conv], id))
  <2>. DEFINE m == [id |-> s.text, ver |-> "first"]
  <2>1. m.id = s.text
    OBVIOUS
  <2>. HIDE DEF m, s
  <2>2. /\ HasId(teams.in[s.conv] \cup {m}, s.text)
        /\ \A id : id # s.text => (HasId(teams.in[s.conv] \cup {m}, id) <=> HasId(teams.in[s.conv], id))
    BY <2>1 DEF HasId
  <2>. QED BY <2>2 DEF m
<1>4. \A m : Reread(s.conv, m).msgs = m
  BY DEF Reread, Result
<1>. HIDE DEF s
<1>5. CASE teams' = teams /\ past'.acked = past.acked /\ host'.send.answer # "sent"
  <2>1. OwnAcks' /\ RootInPost'
    BY <1>5 DEF FreshNow, OwnAcks, RootInPost
  <2>2. ASSUME ~past'.overlap PROVE Freshness(host', past.acked, teams.in)
    <3>1. Freshness(host, past.acked, teams.in)
      BY <1>1, <2>2 DEF FreshNow
    <3>2. ~Overlapping(host')
      BY <1>1, <3>1 DEF Freshness, Overlapping, Busy, s
    <3>3. FreshReads(host', past.acked)
      BY <1>1, <3>1, StillReads DEF Freshness
    <3>. QED BY <1>1, <1>5, <3>1, <3>2, <3>3 DEF Freshness, SendHeld, ChangeHeld
  <2>. QED BY <1>5, <2>1, <2>2 DEF FreshNow
<1>6. CASE teams' = [teams EXCEPT !.in[s.conv] = after] /\ past'.acked = Forgotten(past.acked, s.conv, s.text)
  <2>1. teams'.in[s.conv] = after /\ \A c \in Convs : c # s.conv => teams'.in[c] = teams.in[c]
    <3>. HIDE DEF after
    <3>. QED BY <1>1, <1>6, ThreadChanges
  <2>2. past'.acked \subseteq past.acked /\ \A a \in past'.acked : a.conv = s.conv => a.id # s.text
    BY <1>6 DEF Forgotten
  <2>3. OwnAcks'
    BY <2>2 DEF FreshNow, OwnAcks
  <2>4. RootInPost'
    <3>1. \A c \in Chats : HasId(teams'.in[c], "root") => HasId(teams.in[c], "root")
      BY <1>2, <1>3, <2>1
    <3>. QED BY <3>1 DEF FreshNow, RootInPost
  <2>5. ASSUME ~past'.overlap PROVE Freshness(host', past'.acked, teams'.in)
    <3>1. Freshness(host, past.acked, teams.in)
      BY <1>1, <2>5 DEF FreshNow
    <3>2. ~Overlapping(host') /\ host'.change.stage # "served"
      BY <1>1, <3>1 DEF Freshness, Overlapping, Busy, s
    <3>3. FreshReads(host', past'.acked)
      BY <1>1, <2>2, <3>1, StillReads, FewerReads DEF Freshness
    <3>4. ASSUME NEW a \in past'.acked PROVE ShowsChange(a, teams'.in[a.conv])
      <4>1. ShowsChange(a, teams.in[a.conv]) /\ a.conv \in Convs /\ a.ver \in Vers
        BY <2>2, <3>1, AcksTyped DEF Freshness, TeamsShows
      <4>2. CASE a.conv = s.conv
        <5>1. ShowsChange(a, after)
          BY <2>2, <4>1, <4>2, ShowsAdded
        <5>. QED BY <2>1, <4>2, <5>1
      <4>3. CASE a.conv # s.conv
        BY <2>1, <4>1, <4>3
      <4>. QED BY <4>2, <4>3
    <3>. HIDE DEF after
    <3>5. Fits(past'.acked, s.conv, after)
      BY <2>1, <3>4 DEF Fits
    <3>6. host'.send.after.state = "found" => host'.send.after.msgs = after
      BY <1>1, <1>4
    <3>7. SendHeld(host'.send, past'.acked, teams'.in)
      BY <1>1, <1>3, <2>1, <3>5, <3>6 DEF SendHeld
    <3>8. TeamsShows(past'.acked, teams'.in)
      BY <3>4 DEF TeamsShows
    <3>. QED BY <3>2, <3>3, <3>7, <3>8 DEF Freshness, ChangeHeld
  <2>. QED BY <2>3, <2>4, <2>5 DEF FreshNow
<1>. QED BY <1>1, <1>5, <1>6

LEMMA ServePostFresh ==
  ASSUME Inv, ServePost, FreshNow
  PROVE  FreshNow'
<1>1. /\ CallsOnly(host', host) /\ host'.read = host.read /\ host'.wait = host.wait
      /\ host'.send = host.send /\ host'.change = host.change
      /\ host.post.stage = "asked" /\ host'.post.stage = "served"
      /\ \/ teams' = teams /\ past'.acked = past.acked
         \/ /\ past'.acked = {a \in past.acked : a.conv # Post}
            /\ \A c \in Chats : teams'.in[c] = teams.in[c]
      /\ past'.overlap = past.overlap
  BY ServePostHost
<1>2. /\ past'.acked \subseteq past.acked /\ \A c \in Chats : teams'.in[c] = teams.in[c]
      /\ teams' = teams \/ \A a \in past'.acked : a.conv # Post
  BY <1>1
<1>3. OwnAcks' /\ RootInPost'
  BY <1>2 DEF FreshNow, OwnAcks, RootInPost
<1>4. ASSUME ~past'.overlap PROVE Freshness(host', past'.acked, teams'.in)
  <2>1. Freshness(host, past.acked, teams.in)
    BY <1>1, <1>4 DEF FreshNow
  <2>2. ~Overlapping(host') /\ host'.change.stage # "served" /\ host'.send.stage # "served"
    BY <1>1, <2>1 DEF Freshness, Overlapping, Busy
  <2>3. FreshReads(host', past'.acked)
    BY <1>1, <1>2, <2>1, StillReads, FewerReads DEF Freshness
  <2>4. ASSUME NEW a \in past'.acked PROVE ShowsChange(a, teams'.in[a.conv])
    <3>1. ShowsChange(a, teams.in[a.conv]) /\ a.conv \in Convs
      BY <1>2, <2>1, AcksTyped DEF Freshness, TeamsShows
    <3>2. teams' = teams \/ a.conv \in Chats
      BY <1>2, <3>1 DEF Convs
    <3>. QED BY <1>2, <3>1, <3>2
  <2>. QED BY <2>2, <2>3, <2>4 DEF Freshness, TeamsShows, SendHeld, ChangeHeld
<1>. QED BY <1>3, <1>4 DEF FreshNow

LEMMA ServeChangeFresh ==
  ASSUME Inv, ServeChange, FreshNow
  PROVE  FreshNow'
<1>. DEFINE c == host.change
            msgs == Changed(c.conv, c.what, c.id)
            dropsPost == c.what = "delete" /\ c.id = "root"
            d == host'.change
            rest == IF dropsPost THEN {a \in past.acked : a.conv # Post}
                    ELSE Forgotten(past.acked, c.conv, c.id)
<1>1. /\ CallsOnly(host', host) /\ host'.read = host.read /\ host'.wait = host.wait
      /\ host'.post = host.post /\ host'.send = host.send
      /\ c.stage = "asked" /\ d.stage = "served"
      /\ d.conv = c.conv /\ d.what = c.what /\ d.id = c.id
      /\ c.conv \in Convs /\ c.id \in Ids /\ c.what \in {"edit", "delete"}
      /\ d.after.state = "found" => d.after = Reread(c.conv, msgs) /\ ~dropsPost
      /\ \/ /\ teams' = [teams EXCEPT !.in[c.conv] = msgs, !.root = IF dropsPost THEN "none" ELSE @]
            /\ HasId(teams.in[c.conv], c.id)
            /\ past'.acked = rest
         \/ /\ teams' = teams /\ past'.acked = past.acked
            /\ d.answer # "sent" /\ d.after.state # "found"
      /\ past'.overlap = past.overlap
  BY ServeChangeHost
<1>2. /\ rest \subseteq past.acked
      /\ \A a \in rest : IF dropsPost THEN a.conv # Post ELSE a.conv # c.conv \/ a.id # c.id
  BY DEF Forgotten
<1>. HIDE DEF rest
<1>0. past'.acked \subseteq past.acked
  BY <1>1, <1>2
<1>3. OwnAcks'
  BY <1>0 DEF FreshNow, OwnAcks
<1>4. ASSUME ~past'.overlap
      PROVE  /\ Freshness(host, past.acked, teams.in) /\ ~Overlapping(host') /\ host'.send.stage # "served"
             /\ FreshReads(host', past'.acked)
  <2>1. Freshness(host, past.acked, teams.in)
    BY <1>1, <1>4 DEF FreshNow
  <2>2. ~Overlapping(host') /\ host'.send.stage # "served"
    BY <1>1, <2>1 DEF Freshness, Overlapping, Busy
  <2>. QED BY <1>0, <1>1, <2>1, <2>2, StillReads, FewerReads DEF Freshness
<1>5. CASE teams' = teams /\ d.answer # "sent"
  <2>1. RootInPost'
    BY <1>5 DEF FreshNow, RootInPost
  <2>2. ASSUME ~past'.overlap PROVE Freshness(host', past'.acked, teams.in)
    BY <1>0, <1>4, <1>5, <2>2 DEF Freshness, TeamsShows, SendHeld, ChangeHeld
  <2>. QED BY <1>3, <1>5, <2>1, <2>2 DEF FreshNow
<1>6. CASE /\ teams' = [teams EXCEPT !.in[c.conv] = msgs, !.root = IF dropsPost THEN "none" ELSE @]
           /\ HasId(teams.in[c.conv], c.id)
           /\ past'.acked = rest
  <2>1. teams'.in[c.conv] = msgs /\ \A x \in Convs : x # c.conv => teams'.in[x] = teams.in[x]
    <3>1. PICK root : teams' = [teams EXCEPT !.in[c.conv] = msgs, !.root = root]
      BY <1>6
    <3>. HIDE DEF msgs, dropsPost, c, d
    <3>. QED BY <1>1, <3>1, ThreadChanges
  <2>2. HasId(msgs, "root") => HasId(teams.in[c.conv], "root")
    <3>. DEFINE others == {m \in teams.in[c.conv] : m.id # c.id}
                n == [id |-> c.id, ver |-> "edited"]
    <3>1. msgs \subseteq others \cup {n} /\ n.id = c.id
      BY DEF Changed
    <3>. HIDE DEF n, msgs
    <3>. QED BY <1>6, <3>1 DEF HasId
  <2>3. RootInPost'
    <3>1. \A x \in Chats : HasId(teams'.in[x], "root") => HasId(teams.in[x], "root")
      BY <2>1, <2>2 DEF Convs
    <3>. QED BY <3>1 DEF FreshNow, RootInPost
  <2>4. dropsPost => c.conv = Post
    BY <1>1, <1>6 DEF FreshNow, RootInPost, Convs
  <2>5. \A a \in past'.acked : a.conv = c.conv => a.id # c.id /\ ~dropsPost
    BY <1>2, <1>6, <2>4
  <2>6. ASSUME ~past'.overlap PROVE Freshness(host', past'.acked, teams'.in)
    <3>1. ASSUME NEW a \in past'.acked PROVE ShowsChange(a, teams'.in[a.conv])
      <4>1. ShowsChange(a, teams.in[a.conv]) /\ a.conv \in Convs /\ a.ver \in Vers
        BY <1>0, <1>4, <2>6, AcksTyped DEF Freshness, TeamsShows
      <4>2. CASE a.conv = c.conv
        <5>1. ShowsChange(a, msgs)
          BY <1>1, <2>5, <4>1, <4>2, ShowsChanged
        <5>. QED BY <2>1, <4>2, <5>1
      <4>3. CASE a.conv # c.conv
        BY <2>1, <4>1, <4>3
      <4>. QED BY <4>2, <4>3
    <3>2. Fits(past'.acked, c.conv, msgs)
      BY <2>1, <3>1 DEF Fits
    <3>3. c.id # "root" => ShowsChange(Promised(c), msgs)
      BY <1>1, PromiseShown
    <3>4. Promised(d) = Promised(c)
      BY <1>1 DEF Promised
    <3>5. d.after.state = "found" => d.after.msgs = msgs
      BY <1>1 DEF Reread, Result
    <3>. HIDE DEF msgs, c, d
    <3>6. ChangeHeld(d, past'.acked, teams'.in)
      BY <1>1, <2>1, <3>2, <3>3, <3>4, <3>5 DEF ChangeHeld
    <3>7. TeamsShows(past'.acked, teams'.in)
      BY <3>1 DEF TeamsShows
    <3>. QED BY <1>4, <2>6, <3>6, <3>7 DEF Freshness, SendHeld, d
  <2>. QED BY <1>3, <2>3, <2>6 DEF FreshNow
<1>. QED BY <1>1, <1>5, <1>6

LEMMA ServesFresh ==
  ASSUME Inv, Serves, FreshNow
  PROVE  FreshNow'
BY ServeReadFresh, ServeWaitFresh, ServeSendFresh, ServePostFresh, ServeChangeFresh DEF Serves

LEMMA ElsewhereFresh ==
  ASSUME Inv, OwnOnly, Elsewhere, FreshNow
  PROVE  FreshNow'
<1>1. teams \in TeamsStates /\ host' = host /\ past' = past
  BY DEF Inv, Elsewhere
<1>2. CASE ChatsChange \/ IndexFinds
  <2>1. teams'.in = teams.in
    BY <1>1, <1>2 DEF ChatsChange, IndexFinds, TeamsStates
  <2>. QED BY <1>1, <2>1 DEF FreshNow, OwnAcks, RootInPost
<1>3. CASE OthersWrite
  <2>. DEFINE m == [id |-> "theirs", ver |-> "first"]
  <2>1. PICK x \in Convs : teams' = [teams EXCEPT !.in[x] = @ \cup {m}]
    BY <1>3 DEF OthersWrite
  <2>. DEFINE after == teams.in[x] \cup {m}
  <2>2. teams' = [teams EXCEPT !.in[x] = after]
    BY <2>1
  <2>3. teams'.in[x] = after /\ \A c \in Convs : c # x => teams'.in[c] = teams.in[c]
    <3>. HIDE DEF after
    <3>. QED BY <2>2, ThreadChanges
  <2>4. ASSUME NEW a, a.ver \in Vers, a.conv \in Convs, a.ver = "gone" => a.id # "theirs",
               ShowsChange(a, teams.in[a.conv])
        PROVE  ShowsChange(a, teams'.in[a.conv])
    <3>1. ASSUME a.conv = x PROVE ShowsChange(a, after)
      BY <2>4, <3>1, ShowsAdded
    <3>. QED BY <2>3, <2>4, <3>1
  <2>5. m.id = "theirs"
    OBVIOUS
  <2>. HIDE DEF m
  <2>6. \A id : HasId(teams.in[x], id) => HasId(after, id)
    BY DEF HasId
  <2>7. ~HasId(teams.in[x], "root") => ~HasId(after, "root")
    BY <2>5 DEF HasId
  <2>. HIDE DEF after
  <2>8. RootInPost'
    BY <2>3, <2>7 DEF FreshNow, RootInPost, Convs
  <2>9. OwnAcks'
    BY <1>1 DEF FreshNow, OwnAcks
  <2>10. ASSUME ~past.overlap PROVE Freshness(host, past.acked, teams'.in)
    <3>1. Freshness(host, past.acked, teams.in)
      BY <2>10 DEF FreshNow
    <3>2. TeamsShows(past.acked, teams'.in)
      <4>1. \A a \in past.acked : a.ver \in Vers /\ a.conv \in Convs /\ (a.ver = "gone" => a.id # "theirs")
        BY AcksTyped DEF FreshNow, OwnAcks
      <4>. QED BY <2>4, <3>1, <4>1 DEF Freshness, TeamsShows
    <3>3. SendHeld(host.send, past.acked, teams'.in)
      <4>1. host.send.stage = "served" => host.send.conv \in Convs
        BY DEF Inv, HostInv, HostOK, Answering, CallsFilled, Busy
      <4>. QED BY <2>3, <2>6, <3>1, <4>1 DEF Freshness, SendHeld
    <3>4. ChangeHeld(host.change, past.acked, teams'.in)
      <4>. DEFINE c == host.change
                  a == Promised(c)
      <4>1. c.stage = "served" => c.conv \in Convs
        BY DEF Inv, HostInv, HostOK, Answering, CallsFilled, Busy
      <4>2. c.id # "theirs"
        BY DEF OwnOnly, OwnHost
      <4>3. a.conv = c.conv /\ a.id = c.id /\ a.ver \in Vers
        BY DEF Promised, Vers
      <4>. HIDE DEF a, c
      <4>4. c.stage = "served" /\ ShowsChange(a, teams.in[c.conv]) => ShowsChange(a, teams'.in[c.conv])
        BY <2>4, <4>1, <4>2, <4>3
      <4>5. ChangeHeld(c, past.acked, teams.in)
        BY <3>1 DEF Freshness, c
      <4>6. ChangeHeld(c, past.acked, teams'.in)
        BY <4>4, <4>5 DEF ChangeHeld, a
      <4>. QED BY <4>6 DEF c
    <3>. QED BY <3>1, <3>2, <3>3, <3>4 DEF Freshness
  <2>. QED BY <1>1, <2>8, <2>9, <2>10 DEF FreshNow
<1>. QED BY <1>2, <1>3 DEF Elsewhere

LEMMA SendLandsFresh ==
  ASSUME Inv, SendLands, FreshNow
  PROVE  FreshNow'
<1>. DEFINE s == host.send
            h == SendLanded(host)
            new == [conv |-> s.conv, id |-> s.text, ver |-> "first"]
            now == IF s.answer = "sent" THEN Forgotten(past.acked, s.conv, s.text) \cup {new} ELSE past.acked
            told == IF h.sendState = "uncertain" THEN past.told \cup {s.text} ELSE past.told
            p == [past EXCEPT !.told = told, !.acked = now]
<1>1. HostOK(host) /\ past \in Pasts
  BY DEF Inv, HostInv
<1>2. s.stage = "served" /\ Step(h, p) /\ teams' = teams
  BY DEF SendLands, Lands
<1>3. new.conv = s.conv /\ new.id = s.text /\ new.ver = "first"
  OBVIOUS
<1>4. \A a \in now : a \in past.acked \/ (a = new /\ s.answer = "sent")
  BY DEF Forgotten
<1>. HIDE DEF h, now, new, told
<1>5. {"acked", "overlap", "crossed"} \subseteq DOMAIN p /\ p.acked = now /\ p.overlap = past.overlap
  BY <1>1 DEF Pasts
<1>. HIDE DEF p
<1>6. host' = h /\ past'.acked = now /\ (~past'.overlap => ~past.overlap /\ ~Overlapping(host'))
  BY <1>2, <1>5, StepRecords
<1>7. OwnAcks' /\ RootInPost'
  BY <1>2, <1>3, <1>4, <1>6 DEF FreshNow, OwnAcks, RootInPost
<1>8. ASSUME ~past'.overlap PROVE Freshness(host', now, teams.in)
  <2>1. Freshness(host, past.acked, teams.in) /\ ~Overlapping(host')
    BY <1>6, <1>8 DEF FreshNow
  <2>2. ~Busy(host.wait) /\ host.change.stage # "served"
    BY <1>2, <2>1 DEF Freshness, Overlapping, Busy
  <2>3. s.after.state = "found" => s.after.conv = s.conv
    BY <1>1 DEF HostOK, Answering, AfterAnswer
  <2>4. SendHeld(s, past.acked, teams.in) /\ TeamsShows(past.acked, teams.in) /\ FreshReads(host, past.acked)
    BY <2>1 DEF Freshness
  <2>5. \A msgs : HasId(msgs, s.text) => ShowsChange(new, msgs)
    BY <1>3 DEF ShowsChange
  <2>6. TeamsShows(now, teams.in)
    BY <1>2, <1>3, <1>4, <2>4, <2>5 DEF TeamsShows, SendHeld
  <2>7. s.answer = "sent" => ResultFits(s.after, now)
    BY <1>2, <1>3, <1>4, <2>3, <2>4, <2>5 DEF ResultFits, Fits, SendHeld
  <2>8. FreshReads(h, now) /\ h.send.stage = "idle" /\ h.change = host.change
    BY <1>1, <1>2, <2>2, <2>4, <2>7, SendLandedFresh DEF h, now
  <2>. QED BY <1>6, <2>1, <2>2, <2>6, <2>8 DEF Freshness, SendHeld, ChangeHeld
<1>. QED BY <1>2, <1>6, <1>7, <1>8 DEF FreshNow

LEMMA ChangeLandsFresh ==
  ASSUME Inv, OwnOnly, ChangeLands, FreshNow
  PROVE  FreshNow'
<1>. DEFINE c == host.change
            h == ApplyChangeResult(host)
            new == Promised(c)
            tells == c.answer = "sent" /\ c.id # "root"
            now == IF tells THEN past.acked \cup {new} ELSE past.acked
            p == [past EXCEPT !.acked = now]
<1>1. HostOK(host) /\ past \in Pasts
  BY DEF Inv, HostInv
<1>2. c.stage = "served" /\ Step(h, p) /\ teams' = teams
  BY DEF ChangeLands, Lands, Promised
<1>3. new.conv = c.conv /\ new.id = c.id
  BY DEF Promised
<1>4. \A a \in now : a \in past.acked \/ (a = new /\ tells)
  OBVIOUS
<1>. HIDE DEF h, now, new
<1>5. {"acked", "overlap", "crossed"} \subseteq DOMAIN p /\ p.acked = now /\ p.overlap = past.overlap
  BY <1>1 DEF Pasts
<1>. HIDE DEF p
<1>6. host' = h /\ past'.acked = now /\ (~past'.overlap => ~past.overlap /\ ~Overlapping(host'))
  BY <1>2, <1>5, StepRecords
<1>7. OwnAcks' /\ RootInPost'
  <2>1. c.id # "theirs"
    BY DEF OwnOnly, OwnHost
  <2>. QED BY <1>2, <1>3, <1>4, <1>6, <2>1 DEF FreshNow, OwnAcks, RootInPost
<1>8. ASSUME ~past'.overlap PROVE Freshness(host', now, teams.in)
  <2>1. Freshness(host, past.acked, teams.in) /\ ~Overlapping(host')
    BY <1>6, <1>8 DEF FreshNow
  <2>2. ~Busy(host.wait) /\ host.send.stage # "served"
    BY <1>2, <2>1 DEF Freshness, Overlapping, Busy
  <2>3. c.after.state = "found" => c.after.conv = c.conv
    BY <1>1 DEF HostOK, Answering, AfterAnswer
  <2>4. ChangeHeld(c, past.acked, teams.in) /\ TeamsShows(past.acked, teams.in) /\ FreshReads(host, past.acked)
    BY <2>1 DEF Freshness
  <2>5. TeamsShows(now, teams.in)
    BY <1>2, <1>3, <1>4, <2>4 DEF TeamsShows, ChangeHeld, new
  <2>6. c.answer = "sent" => ResultFits(c.after, now)
    BY <1>2, <1>3, <1>4, <2>3, <2>4 DEF ResultFits, Fits, ChangeHeld, new
  <2>7. c.answer # "sent" => now = past.acked
    BY DEF now
  <2>8. FreshReads(h, now) /\ h.change.stage = "idle" /\ h.send = host.send
    BY <1>1, <1>2, <2>2, <2>4, <2>6, <2>7, ChangeLandedFresh DEF h
  <2>. QED BY <1>6, <2>1, <2>2, <2>5, <2>8 DEF Freshness, SendHeld, ChangeHeld
<1>. QED BY <1>2, <1>6, <1>7, <1>8 DEF FreshNow

LEMMA HostLandsFresh ==
  ASSUME Inv, OwnOnly, HostLands, FreshNow
  PROVE  FreshNow'
<1>0. HostOK(host) /\ host \in Hosts /\ past \in Pasts
  BY DEF Inv, HostInv, HostOK
<1>1. {"acked", "overlap", "crossed"} \subseteq DOMAIN past
  BY <1>0 DEF Pasts
<1>2. CASE ReadLands
  <2>. DEFINE shown == AppliesRead(host) /\ ~ChatGone(host, host.read.result)
              p == [past EXCEPT !.crossed = @ /\ ~shown]
  <2>1. Step(ReadLanded(host), p) /\ teams' = teams /\ host.read.stage = "served"
    BY <1>2 DEF ReadLands, Lands
  <2>. HIDE DEF shown
  <2>2. {"acked", "overlap", "crossed"} \subseteq DOMAIN p /\ p.acked = past.acked /\ p.overlap = past.overlap
    BY <1>1
  <2>3. Freshly(ReadLanded(host), host)
    BY <1>0, <2>1, ReadLandedFreshly
  <2>. HIDE DEF p
  <2>. QED BY <2>1, <2>2, <2>3, HandlerFresh
<1>3. CASE WaitLands
  <2>1. Step(WaitLanded(host), past) /\ teams' = teams /\ host.wait.stage = "served"
    BY <1>3 DEF WaitLands, Lands
  <2>2. Freshly(WaitLanded(host), host)
    BY <1>0, <2>1, WaitLandedFreshly
  <2>. QED BY <1>1, <2>1, <2>2, HandlerFresh
<1>4. CASE PostLands
  <2>1. Step(PostLanded(host), past) /\ teams' = teams /\ host.post.stage = "served"
    BY <1>4 DEF PostLands, Lands
  <2>2. Freshly(PostLanded(host), host)
    BY <1>0, <2>1, PostLandedFreshly DEF HostOK, Answering, CallsFilled
  <2>. QED BY <1>1, <2>1, <2>2, HandlerFresh
<1>. QED BY <1>2, <1>3, <1>4, SendLandsFresh, ChangeLandsFresh DEF HostLands

LEMMA InitFresh == Init => FreshNow
<1>. SUFFICES ASSUME NEW s \in Starts, teams = TeamsAtStart(s),
                     host = HostAtStart(s.chosen, s.file, s.posted), past = PastAtStart(s.posted)
              PROVE  FreshNow
  BY DEF Init
<1>1. past.acked = {} /\ past.overlap = FALSE
  BY DEF PastAtStart
<1>2. /\ host.found = NoThread /\ host.read.stage = "asked" /\ host.wait = IdleWait
      /\ host.send = IdleSend /\ host.change = IdleChange
  BY DEF HostAtStart, IdleRead
<1>3. ~Overlapping(host)
  BY <1>2, IdleFacts DEF Overlapping
<1>4. FreshReads(host, {})
  BY <1>2, IdleFacts DEF FreshReads, FoundFits, ReadFits, WaitFits
<1>5. Freshness(host, {}, teams.in)
  BY <1>2, <1>3, <1>4, IdleFacts DEF Freshness, TeamsShows, SendHeld, ChangeHeld
<1>6. RootInPost
  <2>. DEFINE m == [id |-> "mine", ver |-> "first"]
  <2>1. m.id # "root" /\ Post \notin Chats /\ Chats \subseteq Convs
    BY KindsOfText DEF Convs, Post
  <2>2. \A c \in Convs : c # Post => teams.in[c] = {m}
    BY DEF TeamsAtStart
  <2>. HIDE DEF m
  <2>. QED BY <2>1, <2>2 DEF RootInPost, HasId
<1>. QED BY <1>1, <1>5, <1>6 DEF FreshNow, OwnAcks

LEMMA FreshInvariant == Spec => []FreshNow
<1>1. Inv /\ OwnOnly /\ FreshNow /\ [Next]_vars => FreshNow'
  <2>. SUFFICES ASSUME Inv, OwnOnly, FreshNow, [Next]_vars PROVE FreshNow'
    OBVIOUS
  <2>1. CASE UNCHANGED vars
    BY <2>1 DEF vars, FreshNow, OwnAcks, RootInPost
  <2>. QED BY <2>1, UserFresh, HostHearsFresh, PageHearsFresh, ServesFresh, HostLandsFresh,
              ElsewhereFresh DEF Next
<1>. QED BY <1>1, InitFresh, Invariant, OwnInvariant, PTL DEF Spec

\* With nothing on its way, the page shows the host's thread and no panel that
\* waits, and every change the user was told is done is in that thread: no read
\* that began before a change replaces what came after it (ReadAsync's
\* run-again, ShowAfterAsync), whatever the answers' order.
THEOREM FreshAtRest == Spec => []AtRestFresh
<1>1. Inv /\ ScreenNow /\ FreshNow => AtRestFresh
  <2>. SUFFICES ASSUME Inv, ScreenNow, FreshNow, AtRest PROVE AtRestFresh
    BY DEF AtRestFresh
  <2>1. ~Replaced(host) /\ DOMAIN host.out = {}
    <3>1. DOMAIN <<>> = {}
      OBVIOUS
    <3>. QED BY <3>1 DEF AtRest, InFlight, Replaced
  <2>2. host.found # NoThread => page.mode = "thread" /\ page.thread = host.found
    BY <2>1 DEF ScreenNow, Screen, Shows
  <2>3. page.panel \in {"loading", "waitingPost"} => host.inline
    BY <2>1 DEF ScreenNow, Screen, Waits, Waiting
  <2>4. ASSUME host.found # NoThread, ~past.overlap
        PROVE  \A a \in past.acked : a.conv = host.found.conv => ShowsChange(a, host.found.msgs)
    BY <2>1, <2>4 DEF FreshNow, Freshness, FreshReads, FoundFits, Fits
  <2>. QED BY <2>2, <2>3, <2>4 DEF AtRestFresh
<1>. QED BY <1>1, ScreenInvariant, FreshInvariant, Invariant, PTL
=============================================================================
