----------------------------- MODULE TicketCheck -----------------------------
(***************************************************************************)
(* The ticket check (TrayApp.CheckTicketsAsync): the Jira poll of          *)
(* TicketBoard, then the check of the tickets' pull requests in Azure      *)
(* DevOps, which tells of merges and new comments and counts the comments  *)
(* the user has not seen.  Only one check runs.  It awaits Azure DevOps    *)
(* for each ticket and Teams after each notice; meanwhile the user moves   *)
(* tickets and looks at comments, reviewers write, and the app may die.    *)
(***************************************************************************)
EXTENDS TicketBoard

CONSTANTS
  Prs,         \* pull requests
  TicketOf,    \* the ticket whose branches a pull request is of
  MaxEdits,    \* bound: what happens to pull requests
  QuietJira    \* bound: where Azure DevOps is configured, Jira keeps to one of these

Closed == {"completed", "abandoned"}

ASSUME TicketCheckAssumption ==
  /\ TicketOf \in [Prs -> Tickets]
  /\ MaxEdits \in Nat /\ QuietJira \subseteq [Tickets -> Statuses]

VARIABLES
  ado,      \* is an Azure DevOps client configured
  azure,    \* the pull requests; status "none" before one is created
  prFiles,  \* the files of the check: tracking, alerts, baseline
  check,    \* the running CheckPrsAsync
  edits,    \* bound
  past,     \* history: what was written, what was told, what the user has not looked at
  base      \* history: what was recorded of each pull request without a notice

prVars == <<ado, azure, prFiles, check, edits, past, base>>
allVars == <<vars, prVars>>

Pr(status, comments) == [status |-> status, comments |-> comments]
Untracked == Pr("none", 0)
NoTracking == [p \in Prs |-> Untracked]
NoAlerts == [t \in Tickets |-> 0]
NoCheck == [at |-> "idle", keys |-> {}, tracking |-> NoTracking, quiet |-> FALSE,
            complete |-> TRUE, news |-> {}, toAdd |-> NoAlerts]

PrStates == [status : {"none", "active"} \cup Closed, comments : Nat]
Notices == [pr : Prs, kind : {"merged", "comments"}, count : Nat]

CheckTypeOK ==
  /\ ado \in BOOLEAN
  /\ azure \in [Prs -> PrStates]
  /\ prFiles \in [tracking : [Prs -> PrStates], alerts : [Tickets -> Nat], baseline : BOOLEAN]
  /\ check \in [at : {"idle", "due", "asking", "telling"}, keys : SUBSET Tickets,
                tracking : [Prs -> PrStates], quiet : BOOLEAN, complete : BOOLEAN,
                news : SUBSET Notices, toAdd : [Tickets -> Nat]]
  /\ edits \in 0 .. MaxEdits
  /\ past \in [written : [Prs -> Nat], told : [Prs -> Nat], merged : [Prs -> Nat],
               due : [Tickets -> Nat], cut : SUBSET Tickets]
  /\ base \in [Prs -> PrStates]

-----------------------------------------------------------------------------
(* A pass over the pull requests of the tracked tickets. *)

OfTicket(t) == {p \in Prs : TicketOf[p] = t}
TrackedOf(tracking, t) == {p \in OfTicket(t) : tracking[p] # Untracked}
AreAllPrsClosed(tracking, t) ==
  TrackedOf(tracking, t) # {} /\ \A p \in TrackedOf(tracking, t) : tracking[p].status \in Closed

TrackedTicketsStillOpen(f, tracking) ==
  {t \in DOMAIN f.started \cup DOMAIN f.done : ~AreAllPrsClosed(tracking, t)}
TrackedTickets(f, tracking) ==
  DOMAIN f.started \cup {t \in DOMAIN f.done : ~AreAllPrsClosed(tracking, t)}

(* A pull request seen for the first time only records where it is. *)
IsMerged(was, is) == was.status # "completed" /\ is.status = "completed"
NewComments(was, is) == IF is.comments > was.comments THEN is.comments - was.comments ELSE 0
Notice(p, kind, count) == [pr |-> p, kind |-> kind, count |-> count]
ChangesMergeFirst(tracking, found) ==
  {Notice(p, "merged", 0) : p \in {q \in found : IsMerged(tracking[q], azure[q])}} \cup
  {Notice(p, "comments", NewComments(tracking[p], azure[p])) :
     p \in {q \in found : ~IsMerged(tracking[q], azure[q]) /\ NewComments(tracking[q], azure[q]) > 0}}
Changes(tracking, found) ==
  {Notice(p, "merged", 0) : p \in {q \in found : IsMerged(tracking[q], azure[q])}} \cup
  {Notice(p, "comments", NewComments(tracking[p], azure[p])) :
     p \in {q \in found : NewComments(tracking[q], azure[q]) > 0}}

DetectChanges(c, found) ==
  LET known == {p \in found : c.tracking[p] # Untracked}
  IN  [c EXCEPT !.tracking = [p \in Prs |-> IF p \in found THEN azure[p] ELSE @[p]],
                !.news = IF c.quiet THEN @ ELSE @ \cup Changes(c.tracking, known)]

(* Unseen counts of tickets that left the board are dropped. *)
BoardKeys(f) == DOMAIN f.pending \cup DOMAIN f.started \cup DOMAIN f.done
MergeOverwriting(alerts, toAdd) ==
  [t \in Tickets |-> IF t \notin BoardKeys(files) THEN 0
                     ELSE IF toAdd[t] > 0 THEN toAdd[t] ELSE alerts[t]]
MergePrCommentAlerts(alerts, toAdd) ==
  [t \in Tickets |-> IF t \in BoardKeys(files) THEN alerts[t] + toAdd[t] ELSE 0]

-----------------------------------------------------------------------------
(* CheckPrsAsync.  n counts the calls that have failed within a step. *)

Fails(n) == faults + n <= MaxFaults /\ faults' = faults + n

SavesNewTracking(before, after) == \E p \in Prs : before[p] = Untracked /\ after[p] # Untracked
SavesTracking(before, after) == before # after

(* The next notice is shown, and Teams is told; or none is left, and the    *)
(* unseen comments are counted, unless that save fails.                     *)
GoesOn(c, f, n) ==
  \/ \E notice \in c.news :
       LET p == notice.pr
       IN  /\ check' = [c EXCEPT !.at = "telling", !.news = @ \ {notice},
                                 !.toAdd[TicketOf[p]] = @ + notice.count]
           /\ past' = [past EXCEPT !.told[p] = @ + notice.count,
                         !.merged[p] = IF notice.kind = "merged" THEN @ + 1 ELSE @,
                         !.due[TicketOf[p]] = @ + notice.count]
           /\ prFiles' = f /\ Fails(n)
  \/ /\ c.news = {} /\ check' = NoCheck
     /\ \/ /\ prFiles' = [f EXCEPT !.alerts = MergePrCommentAlerts(@, c.toAdd)]
           /\ past' = [past EXCEPT !.due = [t \in Tickets |-> IF t \in BoardKeys(files) THEN @[t] ELSE 0]]
           /\ Fails(n)
        \/ /\ prFiles' = f /\ Fails(n + 1)
           /\ past' = [past EXCEPT !.cut = @ \cup {t \in Tickets : c.toAdd[t] > 0}]

(* After the last ticket: the tracking is saved if it changed, then the    *)
(* mark that a baseline was taken.  Either save may fail, which ends the   *)
(* check.                                                                  *)
PassEnds(c, n) ==
  LET saved == [prFiles EXCEPT !.tracking = IF SavesTracking(@, c.tracking) THEN c.tracking ELSE @]
      marked == [saved EXCEPT !.baseline = @ \/ c.complete]
  IN  \/ GoesOn(c, marked, n)
      \/ /\ check' = NoCheck /\ Fails(n + 1)
         /\ \/ saved # prFiles /\ prFiles' = prFiles
            \/ marked # saved /\ prFiles' = saved
         /\ UNCHANGED past

PassGoesOn(c, n) ==
  /\ IF c.keys = {} THEN PassEnds(c, n)
     ELSE check' = c /\ Fails(n) /\ UNCHANGED <<prFiles, past>>
  /\ base' = [p \in Prs |-> IF c.quiet \/ prFiles.tracking[p] = Untracked
                           THEN prFiles'.tracking[p] ELSE base[p]]

BoardOnly == UNCHANGED <<jira, assigned, files, poll, walk, changes, notices, finished, brokenOff>>

(* The poll of this check has ended, or failed. *)
PrsBegin ==
  /\ check.at = "due" /\ poll.at = "idle"
  /\ PassGoesOn([NoCheck EXCEPT !.at = "asking", !.tracking = prFiles.tracking,
                   !.quiet = ~prFiles.baseline, !.keys = TrackedTickets(files, prFiles.tracking)], 0)
  /\ BoardOnly /\ UNCHANGED <<ado, azure, edits>>

(* The lookup may fail for a branch or a pull request, for the ticket, or, *)
(* when the network is down, for all that are left.                        *)
PrsLookedUp(t) ==
  /\ check.at = "asking" /\ t \in check.keys
  /\ LET there == {p \in OfTicket(t) : azure[p] # Untracked}
     IN  \E found \in SUBSET there, ok, down \in BOOLEAN :
           /\ ok => found = there
           /\ down => ~ok /\ found = {}
           /\ PassGoesOn([DetectChanges(check, found) EXCEPT
                            !.keys = IF down THEN {} ELSE @ \ {t}, !.complete = @ /\ ok],
                         IF ok THEN 0 ELSE 1)
  /\ BoardOnly /\ UNCHANGED <<ado, azure, edits>>

TeamsAnswers ==
  /\ check.at = "telling" /\ GoesOn(check, prFiles, 0)
  /\ BoardOnly /\ UNCHANGED <<ado, azure, edits, base>>

PrSteps == PrsBegin \/ TeamsAnswers \/ \E t \in Tickets : PrsLookedUp(t)

-----------------------------------------------------------------------------
(* The user looks at the new comments of a ticket (ClearPrCommentAlert).   *)

Clear(t) ==
  /\ prFiles.alerts[t] > 0
  /\ prFiles' = [prFiles EXCEPT !.alerts[t] = 0]
  /\ past' = [past EXCEPT !.due[t] = check.toAdd[t]]
  /\ BoardOnly /\ UNCHANGED <<faults, ado, azure, check, edits, base>>

(* Pull requests are created, commented on, merged, abandoned and taken up *)
(* again; comments are deleted.                                            *)
Becomes(p, pr) == azure' = [azure EXCEPT ![p] = pr]
Edit(p) ==
  \/ /\ \/ azure[p].status = "none" /\ Becomes(p, Pr("active", 0))
        \/ azure[p].status = "active" /\ \E status \in Closed : Becomes(p, Pr(status, azure[p].comments))
        \/ azure[p].status = "abandoned" /\ Becomes(p, Pr("active", azure[p].comments))
        \/ azure[p].comments > 0 /\ Becomes(p, Pr(azure[p].status, azure[p].comments - 1))
     /\ UNCHANGED past
  \/ /\ azure[p].status # "none" /\ Becomes(p, Pr(azure[p].status, azure[p].comments + 1))
     /\ past' = [past EXCEPT !.written[p] = @ + 1]

Edits ==
  /\ ado /\ edits < MaxEdits /\ edits' = edits + 1
  /\ \E p \in Prs : Edit(p)
  /\ BoardOnly /\ UNCHANGED <<faults, ado, prFiles, check, base>>

(* The process dies: what the running check had still to tell or to count  *)
(* is lost.                                                                *)
Kill ==
  /\ Crash /\ check' = NoCheck
  /\ past' = [past EXCEPT !.cut = @ \cup {t \in Tickets : check.toAdd[t] > 0}
                                    \cup {TicketOf[n.pr] : n \in IF check.at = "telling" THEN check.news ELSE {}}]
  /\ UNCHANGED <<ado, azure, prFiles, edits, base>>

(* A check begins with a poll, whose query may fail. *)
CheckBegins ==
  /\ check.at = "idle" /\ check' = [check EXCEPT !.at = IF ado THEN "due" ELSE "idle"]
  /\ UNCHANGED <<ado, azure, prFiles, edits, past, base>>
PollBegins == CheckBegins /\ PollAnswered
QueryFails == CheckBegins /\ ado /\ poll.at = "idle" /\ UNCHANGED vars
PollRuns == PollApplies \/ FetchOffPoll \/ RefreshApplies \/ PollCutShort

CheckInit ==
  /\ Init
  /\ ado \in BOOLEAN /\ (ado => jira \in QuietJira)
  /\ azure = NoTracking
  /\ prFiles = [tracking |-> NoTracking, alerts |-> NoAlerts, baseline |-> FALSE]
  /\ check = NoCheck /\ edits = 0
  /\ past = [written |-> [p \in Prs |-> 0], told |-> [p \in Prs |-> 0], merged |-> [p \in Prs |-> 0],
             due |-> NoAlerts, cut |-> {}]
  /\ base = NoTracking

CheckNext ==
  \/ PollBegins \/ QueryFails
  \/ (UserMoves \/ PollRuns \/ Walks) /\ UNCHANGED prVars
  \/ ~ado /\ JiraChanges /\ UNCHANGED prVars
  \/ PrSteps \/ Edits \/ Kill
  \/ \E t \in Tickets : Clear(t)

(* The timer starts check after check, and Jira answers the poll of one in *)
(* the end.  The calls of a check have timeouts, so it goes on.            *)
CheckFairness == []<><<PollAnswered>>_poll /\ WF_check(PrSteps)

CheckSpec == CheckInit /\ [][CheckNext]_allVars /\ CheckFairness

-----------------------------------------------------------------------------
(* Properties. *)

PendingComments(p) ==
  IF check.at = "telling" /\ \E n \in check.news : n.pr = p /\ n.kind = "comments"
  THEN (CHOOSE n \in check.news : n.pr = p /\ n.kind = "comments").count ELSE 0
PendingMerge(p) == check.at = "telling" /\ Notice(p, "merged", 0) \in check.news

(* Every comment and every merge that came after a pull request was first  *)
(* recorded is told, once: no more is told than was written, however       *)
(* checks fail and start again; and all the file knows was told or is      *)
(* about to be, unless the app died while it told of the ticket.           *)
ToldExactlyOnce ==
  \A p \in Prs :
    /\ past.told[p] <= past.written[p] - base[p].comments
    /\ past.merged[p] <= 1
    /\ TicketOf[p] \notin past.cut =>
         /\ prFiles.tracking[p].comments <= base[p].comments + past.told[p] + PendingComments(p)
         /\ prFiles.tracking[p].status = "completed" /\ base[p].status # "completed"
              => past.merged[p] = 1 \/ PendingMerge(p)

(* The unseen count of a ticket is what was told since the user last       *)
(* looked, also if he looks, or moves the ticket, while the check awaits   *)
(* Teams: "a 'seen'/Open handled during the Teams awaits above is not      *)
(* overwritten".                                                           *)
AlertsAreTheUnseen ==
  \A t \in Tickets : t \notin past.cut => prFiles.alerts[t] + check.toAdd[t] = past.due[t]

(* While a ticket is in In progress the check catches up with its pull     *)
(* requests, merged ones included, and the baseline gets taken.            *)
PrsCatchUp ==
  \A t \in Tickets :
    <>[](ado /\ t \in DOMAIN files.started)
      => <>[](prFiles.baseline /\ \A p \in OfTicket(t) : prFiles.tracking[p] = azure[p])
=============================================================================
