# NoisLogTray in TLA+

NoisLogTray is a resident Windows tray program. It keeps a queue of tickets per
day and logs them, once a day, to two timesheets: a workbook on SharePoint
("TSC", through Microsoft Graph) and an HRM service. Around that core it polls
Jira and Azure DevOps, keeps a board of tickets, and hosts terminals and chats.

These modules model the core, the way a day's tickets get from the user to the
two timesheets, and what can come between; the board of tickets beside it, with the check
of their pull requests; and the Teams tab of a ticket, a web page and its host on either side of two message queues.
`PROJECT.json` maps every definition
to the lines it models; line numbers below are of `src/`.

## 1. Inventory

| Component | State | Operations | Talks to | What makes it correct |
|---|---|---|---|---|
| Ticket queue (`Services/TicketQueue.cs`) | `queue.json`, one entry per date: tickets and, for custom hours, minutes | `Read`, `Write`, `RemoveLogged`, `RemoveTicket`, `AddStartedTicket`, `MergeInto`; each takes one lock | Work page and task board (UI thread), drain (pool thread) | nothing asked for is lost; only delivered tickets leave by themselves; minutes stay with their tickets |
| Drain gate (`UI/TrayApp.AutoLog.cs`) | `_draining`, `_redrainPending` | `DrainAsync` from the timer, the catch-up, "Log queue now" | logging service | one run at a time; never left shut; a request made during a run is served |
| Daily timer (`Services/SixPmScheduler.cs`) | `_fireTime`, `_nextFire`, `_firing` | `Start`, `Tick` (timer thread), `SetFireTime` (UI thread), `FireAsync` | drain gate | each target fires once, none is stepped over |
| Logging service (`Services/LoggingService.cs`) | none of its own | `DrainQueueAsync`, `LogEntryAsync`, `LogTscAsync`, `LogHrm`, `LogOffAsync`, `AcquireGraphTokenAsync` | queue, Graph, HRM | an entry leaves the queue only when both timesheets took it; retries converge |
| HRM client (`Services/HrmMcpClient.cs`) | a session | `LogTicketsAsync`: one call per slot | HRM (external) | a repeated call does not book twice; success means booked |
| TSC client (`Services/GraphTscClient.cs`, `Helpers/TscCells.cs`, `Helpers/TscWrittenDates.cs`) | the set of written dates | `WriteTicketAsync`, `WriteOffAsync`: one call per cell | Graph (external) | the two columns agree; every written day is recorded first |
| Slot layout (`Helpers/TimeSlots.cs`) | none | `EvenSplit`, `Get`, `SegmentsFor` | HRM client, Work page | slots in working hours, clear of lunch, in order, of the right length |
| Work page (`UI/LogPage.cs`) | tickets box, edited hours, busy flag | queue, clear, row [X], log both / TSC / HRM / OFF | queue, logging service | what it queues reads back as saved |
| Start (`UI/TrayApp.cs`, `QueueTicketsForToday`) | none | check `_draining`, add, look again | queue, gate | never leaves a partial list to be written over the day's cell |
| Ticket board and poll (`Services/TicketBoard.cs`, `TicketPoller.cs`, `TicketStore.cs`, `JiraStatusFlow.cs`) | five JSON files | add, start, done, reopen, dismiss, restore; poll; walk to Ready to Test | Jira | a ticket is in one list; none is dropped; none is announced twice; polls move only what is new or sent back; stored statuses catch up with Jira |
| PR tracking (`Services/PrTracker.cs`, `PrUpdateChecker.cs`, `UI/TrayApp.TicketCheck.cs`, `Helpers/PrCommentAlerts.cs`) | the last known state of each PR, whether a baseline was taken, unseen comments per ticket | check after each poll, clear | Azure DevOps, Teams, the board's files | each merge and comment is told once; unseen counts are what was told since the user looked; tracking catches up |
| Graph token and browser lock | cached token, `_held` | acquire, release | Chrome profile | never two browsers on one profile |
| Settings (`Helpers/AppSettings.cs`) | `settings.json` | load, modify, save, on the UI thread only | everybody | no writer drops another's keys |
| Teams tab: page (`Assets/teams/thread.js`, `composer.js`) | mode, thread shown, reply box, draft, open edit, busy flags | one handler per message of the host, one per act of the user; one JavaScript thread | its host, by posted messages | what the user wrote is not lost; every press is answered |
| Teams tab: host (`UI/TeamsThreadView*.cs`) | chosen conversation, thread found, pending read / wait / send / post / change, last states told | one handler per message of the page, timer ticks, and the continuation of each await; one UI thread | the page; Teams, through `Services/TeamsThreadService*.cs` | the thread shown is the chosen one, and fresh; nothing goes up twice unsaid |
| Teams post index and attention, Claude sessions, knowledge scan, worktrees | files and dictionaries per feature | see `PROJECT.json` | network, git, terminals | |
| Pages, dialogs, assets, updates, startup | none that outlives them | | | |

The behaviour that is hard: two threads on one queue file (UI handlers and the
drain) with read-modify-write pairs that span a lock release; two lock-free
flags that make the gate; a poll timer racing a settings save; two log jobs on
the same cells and slots with nothing between them; a network that loses
answers; polls, walks and
PR checks that await Jira, Azure DevOps or Teams between reading and saving; a
move that is two saves; a crash at any step; and, in the Teams tab, two programs that
each act on what the other said some messages ago, while up to five calls to Teams are
under way, any of which may fail or leave open whether it was done. `PROJECT.json` lists these hazards at their lines.

## 2. Modules

| Module | Models | How |
|---|---|---|
| `Outbox` | the promise of the queue | abstract: owed, waiting, delivered; atomic actions |
| `QueueDrain` | `queue.json`, `DrainAsync`/`DrainQueueAsync`, `OnQueue`, Start, remove, clear, OFF, crashes | an entry is the set of its date-ticket pairs; one step per lock region |
| `DrainGate` | `DrainAsync` | one step per `Interlocked` operation, any number of callers |
| `SixPmScheduler` | the timer | an instant is a day and a time; the read of `_nextFire`, the flag, the re-arm and the end of a fire are steps of their own |
| `TicketLists` | lists of tickets with some left out | operators only |
| `TimeSlots` | `TimeSlots.cs` | operators only, minutes from midnight |
| `DayEntry` | one date's entry with its minutes, and the composer | one step per operation; uses `TimeSlots` and `TicketLists` |
| `WorkLog` | drain, page jobs, queue and Start against both timesheets, through one day | one step per call to a timesheet; uses `TimeSlots` and `TicketLists`; implements `Outbox` |
| `Board` | the promise of the ticket board | abstract: where each ticket is and where it was dismissed from |
| `TicketBoard` | the board's files, their moves, the Jira poll, the walk to Ready to Test, the team's edits, failed saves, crashes | one step between two awaits; a handler is the sequence of its saves; implements `Board` |
| `TicketCheck` | `CheckTicketsAsync`: the poll of `TicketBoard`, then the check of the pull requests, beside the user, reviewers, failing calls and saves, crashes | extends `TicketBoard`; one step between two awaits |
| `Letters` | the promise of the reply box | abstract: the box, what is in Teams, what was let go |
| `TeamsPage` | the page of the Teams tab | operators only: a handler is a function from the page's state to the next |
| `TeamsHost` | its host | operators only: the code from one await to the next is a function from the host's state to the next; handlers call each other as in the code |
| `TeamsView` | page, host, the two message queues, Teams and the user | one step per message, per act of the user, per answer of Teams and per continuation; implements `Letters` |
| `TeamsInvariants` | what holds of `TeamsView` at all times | definitions only, for `TeamsView_proofs`; each of its six invariants can be given to TLC |
| `*_proofs` | theorems of `QueueDrain`, `DrainGate`, `SixPmScheduler`, `TimeSlots`, `DayEntry`, `WorkLog`, `TicketCheck` (with those of `TicketBoard`, which it extends), `TeamsView` | each extends its module and, directly or by way of `TimeSlots_proofs`, `TLAPS` |
| `MC*` | the instances TLC checks | |

How the models correspond to the code:

* **QueueDrain.** `queue` is the file. `draining` is `_draining`; `drain` is the
  program point of the run (`snapshot` before `TicketQueue.Read`, `entries` in the
  `foreach`, `remove` in the `finally`, `release` before the flag is cleared).
  `copy` is what `OnQueue` read before it wrote. `owed`, `delivered` and `torn` are
  history variables the code does not have. `CrashInWrite` is a crash inside
  `File.WriteAllText`: the file does not parse and `ReadUnlocked` answers "empty".
  `StartTakeOut` undoes Start's add; in `StartTakeOutFails` that write throws, the user
  is told "not queued", and the ticket stays in the file.
* **DrainGate.** `pc` is the caller's place: `enter` before the exchange on
  `_draining`, `join` between losing it and raising `_redrainPending`, `body`
  inside the run, `again` between clearing `_draining` and reading
  `_redrainPending`. `late` records a flag raised when nobody was left to read it.
* **SixPmScheduler.** `tick = "seen"` is the window between line 70 (the target is
  read under the lock) and line 72 (the flag is tried without it); `fire =
  "rearmed"` the one between line 91 and the release of `_firing`. `skipped` records
  the targets that came due and were re-armed past.
* **DayEntry.** The empty minutes list is the code's `null`. `HoursOk` and
  `DayMinutes` are the two refusals of `OnQueue`; the button's own disabling is the
  same condition. `Read` is the sanitizing read every operation starts from.
* **WorkLog.** `job` holds the two log jobs: where each is, its list or OFF, the
  columns still to write, the slots still to send, and whether all went well. The slots
  are a set, of which the earliest is sent next: a day's slots follow one another
  (`LaterSlotsFollow`), so that is the order of the tickets in the list. A
  cell is a ticket list. `CellFails` leaves the cell as it was or written (the answer was
  lost, or the fill after an OFF failed). HRM's rules are those the code reacts to: a slot that
  overlaps a booking is refused with `LOGTIME_OVERLAP`, one that ends in the future
  is an error. Read and write of a cell are one step: a skip ("already there")
  equals a write at the time of the read.
* **TicketBoard.** `files` holds the five files; a list is a function from its keys
  to the stored status (every other field of a ticket is treated alike). Everything
  runs on the UI thread, so a handler is a step, except where it awaits: `poll` is the
  running `PollAsync` (`answered` after the assigned query, `refreshing` during the
  fetches of the tickets that left it), `walk[t]` the running
  `MoveToReadyToTestAsync` (`overtaken` is history: the team has edited the ticket
  since its steps were chosen). `XSaves` is what the files hold after each save of
  handler X: `Complete` takes the last, `CutShort` any earlier one, for a save that
  throws or a kill between two saves. `MarkDone` and the others are guarded by the
  early return of the code; one that returns early changes nothing and is no step.
  `notices`, `finished` and `brokenOff` are history variables.
* **TicketCheck.** `prFiles` holds the tracking, the unseen comments and the mark that a
  baseline was taken. `check` is the running `CheckPrsAsync`: `due` until the poll of the
  same check is over, `asking` while it awaits Azure DevOps for the tickets in `keys`,
  `telling` while it awaits Teams after a notice; `tracking` and `toAdd` are its local
  copies, `news` what is still to be told. A lookup finds any subset of the ticket's
  pull requests and reports whether it was complete (a branch, a pull request or its
  threads may fail alone), or ends the pass with the network down. A pull request is its
  status and its number of comments, read at once. The order of the notices is left open.
  `past` and `base` are history: what reviewers wrote, what was told, what was recorded
  without a notice, what the user has not looked at, and (`cut`) the tickets a crash
  or a failed last save took notices or counts from.
* **TeamsPage, TeamsHost, TeamsView.** The fields of `page` and `host` are the
  variables of the two sides (`reply` is the content of the reply composer, `found` is
  `_found`, `chosen` is `_chatId`, with `Post` for the channel post, "" in the code). An
  awaited call is a record: `asked` until Teams answers, `served` until the code behind
  the await runs (`ServeSend`, then `SendLands`). `page.out` and `host.out` are the two
  queues; `again` marks a state the host repeats because the language changed, which
  the code does not tell apart. An answer is "sent" (with the service's own re-read, or
  without when that failed), "failed" or "uncertain", whether the change was made or
  not. A post that went up uncertainly is `unseen` until the post index finds it. `past`
  is history: `told`, `warned` and `acked` are what the user was told; `misled` that a
  repeated answer reached a page whose own send was on its way; `risky` that "sent" was
  told of another text than the one in the box; `letGo` what the user put another text
  over; `crossed` that a change was under way in another conversation than the chosen
  one, until a read of the chosen one is shown; `overlap` that two changes were under way
  at once. The properties use them to name the exceptions they make.

## 3. What TLC checks

| Run | Instance | Shows |
|---|---|---|
| `queue_drain` | 2 dates, 2 tickets | `NothingLost`, `DrainKeepsTheRest`, `GateComesFree`, and that `QueueDrain` implements `Outbox` (`KeepsPromise`) |
| `drain_gate` | 3 callers | `OneDrainAtATime`, `InGoodHands`, and that a joined request is served, unless its flag came too late |
| `drain_gate_joined` | 2 callers | violation: the flag can come too late |
| `scheduler` | 2 times of day, 3 days of targets, one clock correction | `NextFireIsCurrent`, `WithinADay`, `TwiceOnlyIfReadDuringFire`, `DueFiresUnlessSkipped` |
| `scheduler_due` | the same | violation: a re-arm steps over a due target |
| `day_entry` | 3 tickets, hours 0, 3, 60, 180, 181 min | `ReadsBack`, `HoursStick`, `SlotsInOrder`, `BookedAsTyped` |
| `work_log` | 2 tickets, 9:00/18:00, all four page jobs, 2 requests, 1 fault | `SafeToRetrySameList`, `RecordedFirst`, `MirrorsAgree`, `StartKeepsTheCell`, `QueueEmpties`, `KeepsPromise`, for the drain, the queue, Start and the page's log jobs |
| `work_log_retry` | no faults | violation: an overlap counts as logged although another ticket holds the slot |
| `work_log_off` | page job OFF | violation: a running drain overwrites OFF |
| `ticket_check` | 1 ticket, 6 statuses, 2 edits in Jira or 1 pull request with 3 edits, 2 faults | `ToldExactlyOnce`, `AlertsAreTheUnseen`, `PrsCatchUp`; and of the board beside the check `OneList`, `NoSecondNotice`, `PollsMoveOnlyNewAndSentBack`, `FinishedIsReported`, `WalksForward`, `NewTicketsArrive`, `CatchesUp`, and that the composition implements `Board` (`KeepsPromise`) |
| `teams_view` | 2 replies, 1 chat, 2 drafts, 2 own posts, 13 evenings | `TwiceOnlyIfTold`, `SecondPostIsWarned`, `ShownIsChosen`, `AtRestFresh`, `DraftEditsSurvive`, `EveryPressIsAnswered`, and that the reply box implements `Letters` (`KeepsPromise`) |
| `ticket_board_sent_back` | 1 ticket, 1 edit, no fault | violation: a walk's refresh hides that a Done ticket was sent back |

**Bounds.** Two dates let a run log one entry and keep another; two tickets let an
entry change under the run that has read it. A third caller of the gate is needed for
a request between the release and the flag's reader. Two times of day make a clock
that is at the target, past it, or asleep past the next one. Three typed tickets at
two a time make the merges that turn an even day into a custom one, and 180 and 181
are the lunch boundary and one past it, 3 is off the five-minute grid. In `WorkLog`
the clock is before or at 18:00, the default `LOG_TIME`, when HRM takes a whole day (the
two violation runs have `LOG_TIME` at 15:00 and slots that end in the future), and two
requests with one fault make a list that changes between two attempts of the drain.
The board's handlers treat every ticket by itself, and a property names one ticket at
a time, so one ticket with a long life (the user's moves are not bounded) shows more
than two with a short one; `OneList` and `KeepsPromise` are proved for every set of
tickets. The six statuses are one of each kind the code tells apart: pre-work and
rework, on the way to Ready to Test (two), there, sent back, done. Two edits let the
team overtake a walk or a poll and come back; two faults are a cut move and a crash.
In `TicketCheck` two evenings share the instance: without Azure DevOps the check ends
with the poll and the team edits the ticket in Jira; with it (`ado`) the ticket keeps
its Jira status (`QuietJira`) and a pull request is edited three times, enough for it to
be created and commented on and merged, or for a comment to come between a lookup and the
notice. A lookup treats each pull request by itself; `AlertsAreTheUnseen`, where several
of a ticket add up, is proved for any number.
The Teams tab is checked evening by evening: `Evenings` (in `MCTeamsView`) lists
thirteen starting situations, each with a budget of acts, polls and faults (`Again`: the
settings say that today's ticket was posted before). `Replying`
has three texts' worth of writing, two faults and a change of language, or a poll and
other people; `Switching` crosses a reply or a post with a choice of conversation;
`Changing` has two edits or deletes at once with a fault, or three with nothing chosen
yet; `Posting` posts three times with two faults, edits a post under way, and rewrites
the draft's file. An evening with all of it at once is out of reach; what two of these
features do to each other beyond the pairs listed is checked for `ShownIsChosen` and
`SecondPostIsWarned` only, by their proofs.
`MaxAsks`, `MaxFaults`, `MaxChanges`,
`MaxTyped`, `LastDay` and the single clock correction are bounds of the instances;
nothing else is cut off. The proofs need none of them.

**Deadlock** is checked, except in the `WorkLog` runs, where the day ends, and in
`teams_view`, where the evening does.

**Fairness.** The thread pool and the message loop run what is ready, and every
network call has a timeout: the steps of a drain, of a tick, of a fire and of a log
job are weakly fair. The timer polls for ever, so `DrainBegins` in `WorkLog` is weakly
fair: a non-empty queue with no drain running is drained again (at the latest on the
next day, or by the catch-up at start). Time passes whatever the program does, and
more often than not no handler is running: `ClockMoves` is strongly fair in `WorkLog`,
where it waits for a running Start handler. In `SixPmScheduler` the clock owes
nothing. The ticket check's timer starts checks for ever, and the HTTP timeout ends
whatever one awaits. So in `TicketBoard` a poll that is not running is begun and
answered (`WF` on `PollAnswered`) and every poll is over in the end (`[]<>(poll.at =
"idle")`). In `TicketCheck` a poll waits for the pull requests of the last one, so the
assumption is that polls are answered again and again (`CheckFairness`), which is only
true of runs in which the pass over the pull requests ends each time: its steps are
weakly fair. An assigned query that failed for ever would not be an answer, which the
fairness excludes; lookups in Azure DevOps fail no more often than `MaxFaults`. A walk
owes nothing. The user, a crash and a fault owe nothing
anywhere. In `TeamsView` the steps of the program and the answers of Teams are weakly fair
together (`SystemNext`): the page's thread and the UI thread run what is posted to them,
and every call to Teams has a timeout. The user, other people, polls and the change of
language owe nothing, and neither does the user in front of the dialog that confirms a
delete.

## 4. What the violation runs show

1. `JoinedIsServed`: a second request loses the exchange on `_draining` (108), the
   running drain clears it (171) and reads `_redrainPending` (177), and only then the
   second request raises the flag (112). It reports "Joined"; no pass follows. The
   flag stays up, so the next run is followed by one pass too many.
2. `DueFires`: `SetFireTime` (43), called by every settings save, and the re-arm
   after a long fire (91) compute the next fire from the current time. A target that
   came due since the last poll is moved on unfired.
3. `SuccessMeansHours`: [a] was logged for a day, then b is queued for it. The
   drain sends b in the slots of a whole day; each is refused as an overlap with a's
   bookings and counts as done. b leaves the queue as logged, with no hours. The other
   half of the claim does hold: with an unchanged list retries converge
   (`SafeToRetrySameList`).
4. `OffStays`: Log OFF drops the day from the file, not from the snapshot of a
   drain that is running.
5. `SentBackReturns`: a ticket is in Done with "PR & Code Review" or "Deployed to Dev"
   stored; the team sends it back. If the user clicks its walk before the next poll, the
   walk finds no steps, and its refresh (491) stores the rework status. The poll compares
   the stored status with the live one and finds no difference: the ticket stays in Done.

More observations are not given runs. Of the core: a tick that reads the target during a fire,
and tries the flag after that fire has ended, fires twice (the exception in
`TwiceOnlyIfReadDuringFire`); after a clock that ran ahead is corrected the armed target
stays days ahead (the exception in `WithinADay`); a page job beside a drain can leave
the M and J columns with different lists (`MirrorsAgree` holds until the page has
written); Start does not see a page job that still waits for its token
(`StartKeepsTheCell` holds until the page has written, too); and `OnQueue` can bring
back tickets that a drain removed between its read and its write, to be logged again:
`NothingLost` and `KeepsPromise` promise "at least once" and allow it.

Of the slots, found by proving the type invariant of `WorkLog` and `ReadsBack`, with more
tickets than an instance of TLC has:

* An even day of 18 tickets has a slot from 13:00 to 13:00: a ticket has 26 minutes, the
  seventh ends two minutes of work past noon, and 13:02 is rounded to 13:00. So have
  days of 33 to 36, of 61 to 68, and of more than 96 tickets. `TypeOK` claims only that no
  booking ends before it starts. What HRM answers to an empty slot is not in the source.
* The even shares of more than 480 tickets are zero, but for the last. Queued beside a
  ticket with hours of its own they are kept (if the last is that ticket, the day is
  not too long), and the next read discards all minutes because of the zeros. The three
  theorems this concerns assume at most 480 tickets (`Few`).

Of the pull requests:

* The file that says a change is known is saved before the notice is shown
  (`PrUpdateChecker.cs:77`), so a crash between the two loses the notice, and one
  during the notices loses the unseen counts (`cut`).
* A pull request seen for the first time is recorded without a notice, whatever comments
  it has (`base`).
* A ticket in Done is tracked only while one of its known pull requests is open: comments
  made after the last was merged or abandoned are not told, and `PrsCatchUp` claims
  nothing for it.

Of the Teams tab, each an exception that a property names, or what the model does
where no property speaks:

* The host repeats its last states when the language changes. While a second Send is
  in transit from the page to the host, a repeated "sent" empties its box, and a
  repeated "failed" frees it to be sent again (`misled`). The comment at
  `Assets/teams/thread.js:681` says "The box clears only when this page's own send
  finishes, not when the host repeats an old "sent"."
* `ShowAfter` and `WaitForPostAsync` apply what they read without asking whether the
  user has chosen another conversation meanwhile, as `ReadAsync` does (`crossed`).
* Of two changes under way at once the older re-read may land last (`overlap`); the
  next poll puts it right.
* A draft whose subject or text is changed while it goes up is replaced by the next
  draft (`risky`); a suggestion or an image put into the reply box while it is being sent
  is cleared with it (`letGo`).
* A wait that fails, or a read that fails after one that was signed out, while a draft
  is kept, is told in the status line only: the panel goes on saying that it waits (the
  exception in `AtRestFresh`).
* Closing the tab forgets that a post was uncertain; the next tab posts unwarned. A
  tab's life ends where the model does.

## 5. What is proved

For all values of the constants, with the assumptions named in the modules:

* **QueueDrain.** `Inv` is inductive. `NothingLost` alone is not: one must know
  that what the drain is about to remove was delivered (`processed \subseteq
  delivered`), and that what `OnQueue` is about to write back holds at least what the
  file holds (`queue \subseteq copy`): between its read and its write nobody but the
  drain, which only removes, touches the file. From `Inv`: `NeverLost`,
  `DrainRemovesOnlyDelivered`, and `ImplementsPromise`, one case per action of
  `Next`, each mapped to an action of `Outbox` or a stutter.
* **DrainGate.** `MutualExclusion` and `NeverLeftShut` from "the gate is shut exactly
  if one caller is in the body, and then only one"; `RequestsInGoodHands` from it and
  a witness for who will read the flag.
* **SixPmScheduler.** `ArmedForTheTimeInForce` rests on a lemma on `ComputeNextFire`:
  its result is an occurrence of its argument, ahead, and at most a day ahead.
  `NeverPutOffByMoreThanADay` adds that due targets stay due while the clock moves on.
  `OneFirePerTarget` needs `OnceInv`: until the clock is set back, what was fired for is
  past, so a re-arm can not show it again, and a tick can hold it only if it read it
  during the fire.
* **TimeSlots.** `SlotsKeepToWorkingHours` and `LaterSlotsFollow` for every window
  of work minutes, not only the enumerated ones. Where a window begins is a sum over the
  minutes before it (`Offset`), and which tickets of a list are left when some are taken
  out is counted along it (`Positions` of `TicketLists`). Both are recursive functions;
  that each exists and what it is at each argument is shown by `UpFromZero`: a set of
  numbers that has 0 and each one's successor up to n has them all, because a smallest one
  outside it would have a predecessor in it. So no induction theorem with an operator
  parameter is needed. `EvenOffset` says that an even day's shares add up to the day.
* **DayEntry.** `Sound` is inductive: the tickets of an entry are distinct, and
  custom minutes are as many as the tickets and come to no more than the day. A merge
  (`MergeInto`), a single removal and Start each read shares from one list and write them
  beside another, so each has a lemma of its own on which ticket gets which minutes.
  `SlotsStayInOrder` follows for any number of tickets. `SavedIsRead`, `HoursStay` and
  `BookedForItsHours` need that no custom minute is zero, which is what the sanitizing
  read checks; that holds only with no more tickets than a day has minutes (`Few`), and
  the theorems assume it.
* **WorkLog.** `Inv` has a part for each thing a late step relies on. `Recorded`: a
  job with columns still to write has recorded the day. `Mirrored`: until the page has
  logged, the drain's list is in the first column between its two writes; else the two
  are equal, unless a write failed (`torn`) and no run has written both since. `Accounted`: every booking is of a list that was sent,
  and of the list of a drain for which all has gone well each slot is booked or still to
  be sent, if no other list was ever sent. A slot refused as an overlap is dropped; it was
  one of its own bookings, since two slots of one list never overlap (`BookingsApart`,
  from `LaterSlotsFollow`). `StartSafe`: while Start is at work it is before 18:00, where
  the last slot of a whole day ends (`LastBooking`), so no drain can succeed, the queue only
  grows, and what Start read of it stays good enough. `Due`: what a drain is about to
  remove has been delivered. From `Inv`: `TypeCorrect`, `DaysAreRecordedFirst`,
  `ColumnsAgree`, `StartNeverLosesTheCell`, `RetriesAreSafe`, and `ImplementsPromise`.
* **TicketBoard** (proved in `TicketCheck_proofs`). `Inv` is `TypeOK` and "no ticket is
  in two lists", which is inductive because of the order of the saves. The argument is in
  two layers. `Handles(f, saves, S)` says of a handler's saves, from good files `f`, that
  each leaves good files in which every ticket has gone along a move of the board or, for a
  ticket of `S` and not after the last save, is nowhere, and forgets no seen key; there is a
  lemma for each handler (`PollHandles` strings together reopening, updating and filing).
  `Completed` and `Interrupted` turn that into a step. From `Inv`: `BoardTypeCorrect`,
  `OneListEver`, and `BoardKeepsPromise`, in which a poll that moves several tickets at
  once is one step of `Board`. `Holds` is what the poll and the walks carry from one await
  to the next: what is to be told was never told though it is seen already, what was told
  is seen, no status of the answer is done, and a walk that is not overtaken has exactly
  the steps of the present status left. From both: `NeverToldTwice`, `PollsKeepPlaces`,
  `PollsReport`, `WalksGoForward`.
* **TicketCheck.** `CheckInv` is the board's `Inv`, the types, and two facts that make
  `AlertsAreTheUnseen` inductive (`Counted`): nothing is to be added to the counts before
  the first notice, and count and addition together are what the user has not looked at.
  `GoesOnCounted` does the notices and the last save, `PassCounted` the end of a pass,
  whichever of its saves fails; then there is a lemma per action. `BoardStep` shows that
  every step is one of the board's or leaves the board alone, so that the board's
  theorems hold beside the check: `CheckTypeCorrect`, `AlertsCorrect` and those whose
  names end in `BesidePrs`. `ToldOnce` needs `ToldInv`. It counts what was told together
  with the news a check has still to tell, once the file knows of it, and compares the
  sum with three states of each pull request (`Fits`): what was first recorded without a
  notice, what the file knows, and what it is in Azure DevOps. Before the tracking is
  saved the same must fit the check's own copy instead (`Asked`), so that the save is the
  step at which the news become owed.
* **TeamsView.** `Inv` types every variable, both queues included, and adds `HostInv`.
  Its parts are what a late answer can be trusted with: a served read that found a thread
  found that of the conversation it was asked for (`ReadAnswer`), the re-read after a
  change is of the change's conversation (`AfterAnswer`), and until something is chosen
  nothing is shown or sent (`NothingChosen`). `ShownIsChosen` is not inductive: when the
  chosen chat turns out to be gone, its thread stays on screen while the post is read, and
  one must know that this read is never dropped: it is of the choice and not quiet, or
  another is to follow it, or the wait for a post is running (`Right`, `Replaced`).
  `SecondPostIsWarned` needs `Owed`: after a post that may be in Teams the host remembers
  it, or its answer is still to land and will say so. The host's operators come first:
  `Same` and `Kept` say what each leaves alone, `ApplyResultOK` where the one operator
  that shows a read leads; then there is a lemma per handler (`Handles`) and per
  continuation, and `StepKeeps` and `ServedKeeps` put the actions together. From `Inv`:
  `TypeCorrect`, `ShownCorrect`, `SecondPostCorrect`.

  What is said of a reply needs to know what each of the two queues holds, and a second
  invariant, `ReplyInv`. A reply is in one of four places: not sent, requested by the one
  "send" in the page's queue, under way in the host, or answered by the one answer in the
  host's queue, after which no "sending" comes (`Unsent`, `Requested`, `Underway`,
  `Replied`); in the last three the page's box is locked. A reply that is in Teams and of
  which the user was told nothing went up once, and is in none of the places from which
  it could go again (`OnlyOnce`). Neither holds once the page took a repeated answer for
  that of its send (`past.misled`), which is what the exceptions in `TwiceOnlyIfTold` and
  `Letters!Mislay` are. In any case nothing goes up that the user did not write
  (`Accounted`). The lemmas say first what a message more or less does to a queue
  (`Still`), then that nearly every handler leaves the reply alone (`Mute`, `Quiet`,
  `Apart`), so that seven steps are left to go through. From `ReplyInv`:
  `TwiceOnlyWhenTold`, and the refinement of `Letters` step by step (`RepliesKept`).
  `DraftsSurvive` rests on `DraftKnown`: an own text in the editor that a draft may
  replace went up.

  `AtRestFresh` joins three more invariants (all six are defined in `TeamsInvariants`,
  and TLC finds them to hold of the run's instance). `ScreenNow` says what the page will
  show when it has heard the host's queue (`Shows`, `Waits`): the host's thread and no
  panel that waits, or else a read that will show one is sure to come (`Replaced`); no
  message of the queue after the last "thread" takes the page to another view. `OwnOnly`
  follows the message that is edited or deleted from the button to Teams: it is never
  another person's. `FreshNow` follows each change the user was told is done: Teams has
  it (`TeamsShows`), the re-read that is about to be shown has it and the changes before
  it (`SendHeld`, `ChangeHeld`), and the thread on screen and every answered read have
  it, or another read follows them (`FreshReads`). It holds until two changes are under
  way at once (`past.overlap`). Its lemma for all handlers but those two continuations
  is `Freshly`: what was shown still is, and a read that was sure to come still is. The
  proof corrected the history `acked` twice: a reply that went up uncertainly, was
  deleted and is sent again is no longer held to be deleted, and a change that fails no
  longer releases the one before it.

The type invariants of `QueueDrain`, `DrainGate`, `SixPmScheduler` and `TeamsView` (each
`TypeCorrect`), of `TicketBoard` (`BoardTypeCorrect`) and `TicketCheck`
(`CheckTypeCorrect`), and `ShutIffInside` (`NeverLeftShut`), are proved and not among the
runs' properties; the proofs rest on them.

Assumed are only what the modules name of their constants (in `WorkLog`: finitely many
tickets, and that the day reaches 18:00) and, in three theorems of `DayEntry`, `Few`.

Only model-checked: every liveness property (`GateComesFree`,
`JoinedIsServedUnlessLate`, `DueFiresUnlessSkipped`, `QueueEmpties`, `NewTicketsArrive`,
`CatchesUp`, `PrsCatchUp`, `EveryPressIsAnswered`), which is beyond
the prover, as is `ENABLED`. Every invariant and action property of the passing runs is
a theorem.

## 6. Not modelled, and why

Returns for a missing configuration, notices and the dashboard's labels change none of
this state. Entries with dates that do not parse come only from a hand-edited file.
`SixPmScheduler.Dispose` is called when the process ends. Two ticks are 60 seconds apart
and one only reads a lock and a flag, so ticks are not concurrent with each other. The
sheet, session and date-cell lookups before a cell write are reduced to success or
failure. Token acquisition is reduced to a token or none. Weekends and Monday clearing
are left out of `WorkLog`. Calls between the gate's exchange and its `try` are taken not
to throw. Of the board are left out: unreadable files (backed up and read as empty), the
import from TaskWatcher, whose files are renamed in place one by one, rows on screen
that are older than the files they show (a walk begins only while the stored status has
steps; its steps come from Jira all the same), the page limit of the assigned query, and
whether the pull request is merged, which only takes the walk's button away.

Of the check of the pull requests are left out: the reminder to move a merged ticket to
Ready to Test, which is part of the notice; the keys of older tracking files, which a
load rewrites; the notices of a failed lookup; the record of the run for the dashboard;
and which branches a ticket has, so that a pull request is of one ticket throughout.

Of the Teams tab are left out: the start of the page, with the messages kept for it
until it is ready; sign-in; the menu of channels (one is picked); the suggestions and the
card of comments, and handing a message to Claude, which have buttons and states of
their own; images and avatars; the read that follows while the service is still searching
a channel's older pages; closing the tab; which of a post's refusals it was (no draft, an empty title, an empty text, no
channel: each changes nothing but a line); and the age of the list of chats: the model
lists the chats at every read, where the service may use a list up to two minutes old,
and none at all until it has read one, so a failed list is read as no list. What the
service keeps on disk (the post index, what needs attention) is modelled only by what a
read finds. Of what the settings keep of a post, only that there was one is modelled.

What Graph, Teams and HRM do beyond the answers the code handles is unknown. Components with status
`not_modelled` in `PROJECT.json` say there why.

Nearly all of the JavaScript under `src/Assets` (55,000 of 57,000 lines) is the vendored
Monaco editor with its language workers, `xterm`, `highlight.js` and the `marked` parser:
third-party code, which the program calls and does not change. Of the program's own, the
Teams tab is modelled; `codeblock.js` and `markdown.js` format text. The rest of the
modelled program is C#.

## 7. Plan

Done: `Outbox`, `QueueDrain`, `DrainGate`, `SixPmScheduler`, `TicketLists`, `TimeSlots`,
`DayEntry`, `WorkLog`, `Board`, `TicketBoard`, `TicketCheck`, `Letters`, `TeamsPage`,
`TeamsHost`, `TeamsView`, and the proofs above. Next, in this order:

1. Claude waits and Teams reminders: events against what the user looks at.
2. The Graph token cache and `BrowserLock`, composed with the drain's token step.
