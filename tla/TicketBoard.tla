----------------------------- MODULE TicketBoard -----------------------------
(***************************************************************************)
(* The task board: New, In progress, Done and Dismissed, a JSON file each, *)
(* and the file of the keys the poll has seen.  A move of a ticket rewrites *)
(* two of the files, one after the other, and each rewrite is atomic.      *)
(*                                                                         *)
(* Everything here runs on the UI thread, so a handler is interrupted only *)
(* where it awaits Jira: the poll between its assigned query, its fetches  *)
(* of tickets that left the query and its saves; the walk of a ticket to   *)
(* Ready to Test between its calls.  Meanwhile the user moves tickets and  *)
(* the team edits Jira.  A save may fail, which ends its handler there,    *)
(* and the app may be killed at any time.                                  *)
(*                                                                         *)
(* A ticket is its status: the board treats the other fields alike.        *)
(***************************************************************************)
EXTENDS Naturals, Sequences, SequencesExt

CONSTANTS
  Tickets,     \* ticket keys
  Statuses,    \* the Jira statuses tickets have
  MaxChanges,  \* bound: edits of the team in Jira
  MaxFaults    \* bound: failed saves and fetches, and crashes

PreWorkStatuses == {"Backlog", "Selected for Development", "In Progress", "Hold"}
ReworkStatuses == {"In Progress", "QA Failed", "Reopened"}
DoneStatuses == {"QA Confirmed", "Approved for Production", "Deployed to Production",
                 "Done", "Archived"}
IsStatusDone(status) == status \in DoneStatuses

GetStepsToReadyToTest(status) ==
  CASE status = "PR & Code Review" -> <<"Deployed to Dev", "Ready to Test">>
    [] status = "Deployed to Dev"  -> <<"Ready to Test">>
    [] OTHER                       -> <<>>

ASSUME TicketBoardAssumption ==
  /\ \A s \in Statuses : GetStepsToReadyToTest(s) \in Seq(Statuses)
  /\ MaxChanges \in Nat /\ MaxFaults \in Nat

IsSentBack(stored, live) ==
  /\ stored # live
  /\ live \in ReworkStatuses
  /\ stored \notin PreWorkStatuses

VARIABLES
  jira,       \* the status of each ticket in Jira
  assigned,   \* is the ticket assigned to the user
  files,      \* the board's files
  poll,       \* the running PollAsync
  walk,       \* the running MoveToReadyToTestAsync of each ticket
  changes,    \* bound
  faults,     \* bound
  notices,    \* history: the "New ticket(s)" notices for each ticket
  finished,   \* history: the tickets of the last "Done in Jira" notice
  brokenOff   \* history: the tickets with a move whose saves were cut short

vars == <<jira, assigned, files, poll, walk, changes, faults, notices, finished, brokenOff>>

Maps(values) == UNION {[keys -> values] : keys \in SUBSET Tickets}
Sections == {"New", "InProgress", "Done"}
NoPoll == [at |-> "idle", answer |-> <<>>, keys |-> {}, live |-> <<>>, new |-> {}]
NoWalk == [at |-> "idle", steps |-> <<>>, status |-> "", overtaken |-> FALSE]

Files == [pending : Maps(Statuses), started : Maps(Statuses), done : Maps(Statuses),
          dismissed : Maps([ticket : Statuses, origin : Sections]),
          seen : SUBSET Tickets, hasSeen : BOOLEAN]

TypeOK ==
  /\ jira \in [Tickets -> Statuses]
  /\ assigned \in [Tickets -> BOOLEAN]
  /\ files \in Files
  /\ poll \in [at : {"idle", "answered", "refreshing"}, answer : Maps(Statuses),
               keys : SUBSET Tickets, live : Maps(Statuses), new : SUBSET Tickets]
  /\ walk \in [Tickets -> [at : {"idle", "walking", "refreshed"}, steps : Seq(Statuses),
                           status : Statuses \cup {""}, overtaken : BOOLEAN]]
  /\ \A t \in Tickets : walk[t].at = "refreshed" => walk[t].status \in Statuses
  /\ changes \in 0 .. MaxChanges /\ faults \in 0 .. MaxFaults
  /\ notices \in [Tickets -> Nat]
  /\ finished \subseteq Tickets /\ brokenOff \subseteq Tickets

(* A new installation: no file, and whatever Jira holds. *)
Init ==
  /\ jira \in [Tickets -> Statuses]
  /\ assigned \in [Tickets -> BOOLEAN]
  /\ files = [pending |-> <<>>, started |-> <<>>, done |-> <<>>, dismissed |-> <<>>,
              seen |-> {}, hasSeen |-> FALSE]
  /\ poll = NoPoll
  /\ walk = [t \in Tickets |-> NoWalk]
  /\ changes = 0 /\ faults = 0
  /\ notices = [t \in Tickets |-> 0]
  /\ finished = {} /\ brokenOff = {}

-----------------------------------------------------------------------------
(* The files.  A handler is the sequence of what the files hold after each *)
(* of its saves.                                                           *)

Put(map, key, value) ==
  [k \in DOMAIN map \cup {key} |-> IF k = key THEN value ELSE map[k]]
PutAll(map, entries) ==
  [k \in DOMAIN map \cup DOMAIN entries |-> IF k \in DOMAIN entries THEN entries[k] ELSE map[k]]
Without(map, keys) == Restrict(map, DOMAIN map \ keys)

OnBoard(f, t) ==
  \/ t \in DOMAIN f.pending
  \/ t \in DOMAIN f.started
  \/ t \in DOMAIN f.done
  \/ t \in DOMAIN f.dismissed

AddSaves(f, t, ticket) ==
  LET added == [f EXCEPT !.pending = Put(@, t, ticket)]
  IN  <<added, [added EXCEPT !.seen = IF f.hasSeen THEN @ \cup {t} ELSE @]>>

StartSavesPutFirst(f, t) ==
  LET put == [f EXCEPT !.started = Put(@, t, f.pending[t])]
  IN  <<put, [put EXCEPT !.pending = Without(@, {t})]>>
StartSaves(f, t) ==
  LET taken == [f EXCEPT !.pending = Without(@, {t})]
  IN  <<taken, [taken EXCEPT !.started = Put(@, t, f.pending[t])]>>

MarkDoneSaves(f, t) ==
  LET taken == [f EXCEPT !.started = Without(@, {t})]
  IN  <<taken, [taken EXCEPT !.done = Put(@, t, f.started[t])]>>

ReopenSaves(f, t) ==
  LET taken == [f EXCEPT !.done = Without(@, {t})]
  IN  <<taken, [taken EXCEPT !.started = Put(@, t, f.done[t])]>>

(* The entry of the last of the lists that held the ticket wins. *)
DismissSaves(f, t) ==
  LET with(section, map) == Put(f.dismissed, t, [ticket |-> map[t], origin |-> section])
      f1 == [f EXCEPT !.pending = Without(@, {t})]
      f2 == [f1 EXCEPT !.started = Without(@, {t})]
      f3 == [f2 EXCEPT !.done = Without(@, {t})]
      f4 == [f3 EXCEPT !.dismissed =
               CASE t \in DOMAIN f.done    -> with("Done", f.done)
                 [] t \in DOMAIN f.started -> with("InProgress", f.started)
                 [] t \in DOMAIN f.pending -> with("New", f.pending)
                 [] OTHER                  -> @]
  IN  <<f1, f2, f3, f4>>

RestoreSavesToNew(f, t) ==
  LET taken == [f EXCEPT !.dismissed = Without(@, {t})]
  IN  <<taken, [taken EXCEPT !.pending = Put(@, t, f.dismissed[t].ticket)]>>
RestoreSaves(f, t) ==
  LET entry == f.dismissed[t]
      taken == [f EXCEPT !.dismissed = Without(@, {t})]
  IN  <<taken, CASE entry.origin = "InProgress" ->
                      [taken EXCEPT !.started = Put(@, t, entry.ticket)]
                 [] entry.origin = "Done" ->
                      [taken EXCEPT !.done = Put(@, t, entry.ticket)]
                 [] OTHER ->
                      [taken EXCEPT !.pending = Put(@, t, entry.ticket)]>>

ReplaceChangedTickets(map, live) ==
  [t \in DOMAIN map |-> IF t \in DOMAIN live THEN live[t] ELSE map[t]]

UpdateListedDetails(f, live) ==
  <<[f EXCEPT !.pending = ReplaceChangedTickets(@, live),
              !.started = ReplaceChangedTickets(@, live),
              !.done = ReplaceChangedTickets(@, live)]>>
UpdateTicketDetails(f, live) ==
  LET f1 == [f EXCEPT !.pending = ReplaceChangedTickets(@, live)]
      f2 == [f1 EXCEPT !.started = ReplaceChangedTickets(@, live)]
      f3 == [f2 EXCEPT !.done = ReplaceChangedTickets(@, live)]
      f4 == [f3 EXCEPT !.dismissed = [t \in DOMAIN @ |->
               IF t \in DOMAIN live THEN [@[t] EXCEPT !.ticket = live[t]] ELSE @[t]]]
  IN  <<f1, f2, f3, f4>>

SentBack(f, live) ==
  {t \in DOMAIN f.done \cap DOMAIN live : IsSentBack(f.done[t], live[t])}

ReopenSentBack(f, live) ==
  LET taken == [f EXCEPT !.done = Without(@, SentBack(f, live))]
  IN  <<taken, [taken EXCEPT !.started = PutAll(@, Restrict(live, SentBack(f, live)))]>>

NewTicketsNotOnBoard(f, live) == {t \in DOMAIN live : f.hasSeen /\ ~OnBoard(f, t)}
(* The first poll only records what is assigned. *)
NewTickets(f, live) ==
  {t \in DOMAIN live : f.hasSeen /\ t \notin f.seen /\ ~OnBoard(f, t)}

FileNewTicketsSeenFirst(f, live, new) ==
  LET seen == [f EXCEPT !.seen = @ \cup DOMAIN live, !.hasSeen = TRUE]
  IN  <<seen, [seen EXCEPT !.pending = PutAll(@, Restrict(live, new))]>>
FileNewTickets(f, live, new) ==
  LET filed == [f EXCEPT !.pending = PutAll(@, Restrict(live, new))]
  IN  <<filed, [filed EXCEPT !.seen = @ \cup DOMAIN live, !.hasSeen = TRUE]>>

PollSavesUpdateFirst(f, live) ==
  LET updated  == UpdateTicketDetails(f, live)
      reopened == ReopenSentBack(Last(updated), live)
  IN  updated \o reopened \o FileNewTickets(Last(reopened), live, NewTickets(f, live))
(* What is new can be told before the other saves: they change neither the *)
(* seen keys nor which tickets are on the board.                           *)
PollSaves(f, live) ==
  LET reopened == ReopenSentBack(f, live)
      updated  == UpdateTicketDetails(Last(reopened), live)
  IN  reopened \o updated \o FileNewTickets(Last(updated), live, NewTickets(f, live))

(* All the saves are made, or a failure cuts them short. *)
Complete(saves) ==
  /\ files' = Last(saves)
  /\ UNCHANGED <<faults, brokenOff>>

CutShort(saves, tickets) ==
  /\ faults < MaxFaults
  /\ files' \in {files} \cup {saves[n] : n \in 1 .. Len(saves) - 1}
  /\ faults' = faults + 1
  /\ brokenOff' = brokenOff \cup tickets

-----------------------------------------------------------------------------
(* The user's moves.  One that does not apply changes nothing. *)

Moves(t, saves) ==
  /\ Complete(saves) \/ CutShort(saves, {t})
  /\ UNCHANGED <<jira, assigned, poll, walk, changes, notices, finished>>

(* AddAsync fetches the ticket first.  That its answer ages before it is   *)
(* used is covered by Jira changing right after.                           *)
Add(t) == ~OnBoard(files, t) /\ Moves(t, AddSaves(files, t, jira[t]))
Start(t) == t \in DOMAIN files.pending /\ Moves(t, StartSaves(files, t))
MarkDone(t) == t \in DOMAIN files.started /\ Moves(t, MarkDoneSaves(files, t))
Reopen(t) == t \in DOMAIN files.done /\ Moves(t, ReopenSaves(files, t))
Dismiss(t) ==
  /\ OnBoard(files, t) /\ t \notin DOMAIN files.dismissed
  /\ Moves(t, DismissSaves(files, t))
Restore(t) == t \in DOMAIN files.dismissed /\ Moves(t, RestoreSaves(files, t))

UserMoves ==
  \E t \in Tickets :
    Add(t) \/ Start(t) \/ MarkDone(t) \/ Reopen(t) \/ Dismiss(t) \/ Restore(t)

-----------------------------------------------------------------------------
(* The poll.  A failed assigned query changes nothing and is not a step.   *)

(* AssignedTicketsJql leaves out tickets that are done in Jira. *)
PollAnswered ==
  /\ poll.at = "idle"
  /\ poll' = [NoPoll EXCEPT !.at = "answered",
                !.answer = Restrict(jira, {t \in Tickets : assigned[t] /\ ~IsStatusDone(jira[t])})]
  /\ finished' = {}
  /\ UNCHANGED <<jira, assigned, files, walk, changes, faults, notices, brokenOff>>

(* The tickets the query did not answer for. *)
OffPollKeys(f, answer) ==
  ({t \in DOMAIN f.pending : ~IsStatusDone(f.pending[t])} \cup
     {t \in DOMAIN f.started : ~IsStatusDone(f.started[t])}) \ DOMAIN answer

PollEnds(new, done) ==
  /\ poll' = NoPoll
  /\ notices' = [t \in Tickets |-> IF t \in new THEN notices[t] + 1 ELSE notices[t]]
  /\ finished' = done

PollApplies ==
  LET new == NewTickets(files, poll.answer)
      keys == OffPollKeys(files', poll.answer)
  IN  /\ poll.at = "answered"
      /\ Complete(PollSaves(files, poll.answer))
      /\ \/ keys = {} /\ PollEnds(new, {})
         \/ /\ keys # {}
            /\ poll' = [NoPoll EXCEPT !.at = "refreshing", !.keys = keys, !.new = new]
            /\ UNCHANGED <<notices, finished>>
      /\ UNCHANGED <<jira, assigned, walk, changes>>

FetchOffPoll ==
  /\ \E t \in poll.keys :
       \/ /\ poll' = [poll EXCEPT !.keys = @ \ {t}, !.live = Put(@, t, jira[t])]
          /\ UNCHANGED faults
       \/ /\ faults < MaxFaults
          /\ faults' = faults + 1
          /\ poll' = [poll EXCEPT !.keys = @ \ {t}]
  /\ UNCHANGED <<jira, assigned, files, walk, changes, notices, finished, brokenOff>>

FinishedTicketsAnyList == {t \in DOMAIN poll.live : IsStatusDone(poll.live[t])}
(* What is stored is read again after the fetches. *)
FinishedTickets ==
  {t \in DOMAIN poll.live \cap DOMAIN files.started :
     IsStatusDone(poll.live[t]) /\ ~IsStatusDone(files.started[t])}

RefreshApplies ==
  /\ poll.at = "refreshing" /\ poll.keys = {}
  /\ Complete(UpdateTicketDetails(files, poll.live))
  /\ PollEnds(poll.new, FinishedTickets)
  /\ UNCHANGED <<jira, assigned, walk, changes>>

PollCutShort ==
  /\ \/ /\ poll.at = "answered"
        /\ CutShort(PollSaves(files, poll.answer), SentBack(files, poll.answer))
     \/ /\ poll.at = "refreshing" /\ poll.keys = {}
        /\ CutShort(UpdateTicketDetails(files, poll.live), {})
  /\ poll' = NoPoll
  /\ UNCHANGED <<jira, assigned, walk, changes, notices, finished>>

PollSteps == PollAnswered \/ PollApplies \/ FetchOffPoll \/ RefreshApplies \/ PollCutShort

-----------------------------------------------------------------------------
(* The walk to Ready to Test. *)

WalkOnly == UNCHANGED <<assigned, poll, changes, notices, finished>>

WalkStartsFromStored(t) ==
  /\ walk[t].at = "idle"
  /\ \E stored \in {map[t] : map \in {m \in {files.started, files.done} : t \in DOMAIN m}} :
       /\ GetStepsToReadyToTest(stored) # <<>>
       /\ walk' = [walk EXCEPT ![t] =
            [NoWalk EXCEPT !.at = "walking", !.steps = GetStepsToReadyToTest(stored)]]
  /\ UNCHANGED <<jira, files, faults, brokenOff>> /\ WalkOnly
(* The button is on rows whose stored status has steps.  The steps are     *)
(* those of the status read, or none if the read failed.                   *)
WalkStarts(t) ==
  /\ walk[t].at = "idle"
  /\ \/ t \in DOMAIN files.started /\ GetStepsToReadyToTest(files.started[t]) # <<>>
     \/ t \in DOMAIN files.done /\ GetStepsToReadyToTest(files.done[t]) # <<>>
  /\ \E steps \in {GetStepsToReadyToTest(jira[t]), <<>>} :
       walk' = [walk EXCEPT ![t] = [NoWalk EXCEPT !.at = "walking", !.steps = steps]]
  /\ UNCHANGED <<jira, files, faults, brokenOff>> /\ WalkOnly

(* The transition is made and the walk goes on; or its reply is lost, or   *)
(* there is none, and the walk stops there.                                *)
WalkSteps(t) ==
  /\ walk[t].at = "walking" /\ walk[t].steps # <<>>
  /\ \/ /\ jira' = [jira EXCEPT ![t] = Head(walk[t].steps)]
        /\ \E rest \in {Tail(walk[t].steps), <<>>} :
             walk' = [walk EXCEPT ![t].steps = rest]
     \/ /\ walk' = [walk EXCEPT ![t].steps = <<>>]
        /\ UNCHANGED jira
  /\ UNCHANGED <<files, faults, brokenOff>> /\ WalkOnly

WalkRefetches(t) ==
  /\ walk[t].at = "walking" /\ walk[t].steps = <<>>
  /\ \/ walk' = [walk EXCEPT ![t] = [NoWalk EXCEPT !.at = "refreshed", !.status = jira[t]]]
     \/ walk' = [walk EXCEPT ![t] = NoWalk]
  /\ UNCHANGED <<jira, files, faults, brokenOff>> /\ WalkOnly

WalkApplies(t) ==
  LET saves == UpdateTicketDetails(files, [u \in {t} |-> walk[t].status])
  IN  /\ walk[t].at = "refreshed"
      /\ Complete(saves) \/ CutShort(saves, {})
      /\ walk' = [walk EXCEPT ![t] = NoWalk]
      /\ UNCHANGED jira /\ WalkOnly

Walks ==
  \E t \in Tickets : WalkStarts(t) \/ WalkSteps(t) \/ WalkRefetches(t) \/ WalkApplies(t)

-----------------------------------------------------------------------------
(* The team edits Jira; the app is killed and started again. *)

JiraMoves(t) ==
  /\ \E status \in Statuses \ {jira[t]} : jira' = [jira EXCEPT ![t] = status]
  /\ walk' = [walk EXCEPT ![t].overtaken = walk[t].at = "walking" /\ walk[t].steps # <<>>]
  /\ UNCHANGED assigned

JiraAssigns(t) ==
  /\ assigned' = [assigned EXCEPT ![t] = ~@]
  /\ UNCHANGED <<jira, walk>>

JiraChanges ==
  /\ changes < MaxChanges
  /\ changes' = changes + 1
  /\ \E t \in Tickets : JiraMoves(t) \/ JiraAssigns(t)
  /\ UNCHANGED <<files, poll, faults, notices, finished, brokenOff>>

Crash ==
  /\ faults < MaxFaults
  /\ faults' = faults + 1
  /\ poll' = NoPoll
  /\ walk' = [t \in Tickets |-> NoWalk]
  /\ UNCHANGED <<jira, assigned, files, changes, notices, finished, brokenOff>>

Next == UserMoves \/ PollSteps \/ Walks \/ JiraChanges \/ Crash

(* The timer starts the next poll and Jira answers one in the end; the     *)
(* HTTP timeout ends what a poll awaits, so a poll that began is over in   *)
(* the end.  The user and the team need never do anything.                 *)
Fairness == WF_vars(PollAnswered) /\ []<>(poll.at = "idle")

Spec == Init /\ [][Next]_vars /\ Fairness

-----------------------------------------------------------------------------
(* Properties. *)

Where(f, t) ==
  CASE t \in DOMAIN f.pending   -> "New"
    [] t \in DOMAIN f.started   -> "InProgress"
    [] t \in DOMAIN f.done      -> "Done"
    [] t \in DOMAIN f.dismissed -> "Dismissed"
    [] OTHER                    -> "Nowhere"

Stored(f, t) ==
  CASE t \in DOMAIN f.pending   -> f.pending[t]
    [] t \in DOMAIN f.started   -> f.started[t]
    [] t \in DOMAIN f.done      -> f.done[t]
    [] t \in DOMAIN f.dismissed -> f.dismissed[t].ticket

(* No ticket is in two lists, whatever save failed, whenever the app was   *)
(* killed, and whatever the user moved while the poll awaited Jira: every  *)
(* move takes a ticket out before it puts it in.                           *)
InOneOf(f, t) ==
  /\ t \in DOMAIN f.pending => t \notin DOMAIN f.started \cup DOMAIN f.done \cup DOMAIN f.dismissed
  /\ t \in DOMAIN f.started => t \notin DOMAIN f.done \cup DOMAIN f.dismissed
  /\ t \in DOMAIN f.done => t \notin DOMAIN f.dismissed
OneList == \A t \in Tickets : InOneOf(files, t)

(* The board keeps its promise: tickets go along its moves only, Restore   *)
(* takes a ticket to where it was dismissed, and only a ticket whose move  *)
(* was cut short between two saves is dropped.                             *)
Origin(f, t) == IF t \in DOMAIN f.dismissed THEN f.dismissed[t].origin ELSE "Nowhere"
Promise == INSTANCE Board WITH
  where <- [t \in Tickets |-> Where(files, t)],
  from <- [t \in Tickets |-> Origin(files, t)],
  mislaid <- brokenOff
KeepsPromise == Promise!Spec

(* "polls never auto-remove": what a poll applies, to a board the user     *)
(* moved tickets on since it asked, files tickets it never saw under New,  *)
(* takes those Jira sent back from Done to In progress, all of them, and   *)
(* leaves the others where they are.                                       *)
PollsMoveOnlyNewAndSentBack ==
  [][poll' # poll /\ faults' = faults =>
       \A t \in Tickets :
         LET was == Where(files, t)
             now == Where(files', t)
             told == poll.at = "answered" /\ t \in DOMAIN poll.answer
         IN  IF told /\ was = "Done" /\ IsSentBack(files.done[t], poll.answer[t])
             THEN now = "InProgress"
             ELSE \/ now = was
                  \/ /\ told /\ files.hasSeen /\ t \notin files.seen
                     /\ was = "Nowhere" /\ now = "New"
    ]_vars

(* A new ticket is announced once, also when a poll failed after it filed  *)
(* the ticket, or an interrupted move dropped it.                          *)
NoSecondNotice == \A t \in Tickets : notices[t] <= 1

(* A ticket in In progress that a poll finds done in Jira is in its "Done  *)
(* in Jira" notice, also if the user started it during the fetches; and    *)
(* only tickets in In progress are.                                        *)
FinishedIsReported ==
  [][poll' # poll /\ faults' = faults =>
       /\ finished' \subseteq DOMAIN files'.started
       /\ \A t \in DOMAIN files.started \cap DOMAIN files'.started :
            ~IsStatusDone(files.started[t]) /\ IsStatusDone(files'.started[t])
              => t \in finished'
    ]_vars

(* "Steps come from Jira's live status, never the stored one, so a ticket  *)
(* is never walked backward": if the team has not edited the ticket since  *)
(* the walk read it.                                                       *)
Rank(status) ==
  CASE status = "PR & Code Review" -> 1
    [] status = "Deployed to Dev"  -> 2
    [] status = "Ready to Test"    -> 3
    [] IsStatusDone(status)        -> 4
    [] OTHER                       -> 0
WalksForward ==
  [][changes' = changes =>
       \A t \in Tickets : jira'[t] # jira[t] /\ ~walk[t].overtaken
         => Rank(jira'[t]) > Rank(jira[t])]_vars

(* A ticket assigned after the first poll comes to the board, although a   *)
(* poll may fail between its saves: it is marked seen only once it is      *)
(* filed.                                                                  *)
NewTicketsArrive ==
  \A t \in Tickets :
    files.hasSeen /\ t \notin files.seen /\ assigned[t] /\ ~IsStatusDone(jira[t])
      ~> OnBoard(files, t) \/ t \in brokenOff \/ ~assigned[t] \/ IsStatusDone(jira[t])

(* The board catches up with Jira, whatever stale answers were applied: a  *)
(* ticket that stays in the assigned query, or stays in New or In progress *)
(* and not done, ends up stored with the status it has in Jira.            *)
Refreshed(t) ==
  \/ OnBoard(files, t) /\ assigned[t] /\ ~IsStatusDone(jira[t])
  \/ t \in DOMAIN files.pending /\ ~IsStatusDone(files.pending[t])
  \/ t \in DOMAIN files.started /\ ~IsStatusDone(files.started[t])
CatchesUp ==
  \A t \in Tickets :
    <>[]Refreshed(t) => <>[](OnBoard(files, t) /\ Stored(files, t) = jira[t])

(* "Done tickets Jira sent back for more work return to In progress with   *)
(* their live details. Runs before UpdateTicketDetails, which would        *)
(* overwrite the stored status the comparison needs."                      *)
SentBackReturns ==
  \A t \in Tickets :
    t \in DOMAIN files.done /\ IsSentBack(files.done[t], jira[t]) /\ assigned[t]
      ~> t \notin DOMAIN files.done \/ jira[t] \notin ReworkStatuses \/ ~assigned[t]
=============================================================================
