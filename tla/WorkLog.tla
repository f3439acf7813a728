------------------------------- MODULE WorkLog -------------------------------
(***************************************************************************)
(* One day's tickets on their way to the two timesheets: the TSC workbook, *)
(* where every column holds the day's ticket list and a write replaces it, *)
(* and HRM, which books time slots and refuses one that overlaps a booking *)
(* or ends in the future.                                                  *)
(*                                                                         *)
(* Two log jobs may run at a time: the drain of the queue, on a pool       *)
(* thread, and one the user started on the Work page.  The Work page adds  *)
(* and removes queued tickets meanwhile, and so does "Start" on the task   *)
(* board.  One step is one call to a timesheet or one access to the queue. *)
(*                                                                         *)
(* The day is split evenly (DayEntry has custom hours), and it is a        *)
(* weekday.  TSC and HRM are modelled by the answers the code handles.     *)
(***************************************************************************)
EXTENDS TimeSlots, TicketLists, SequencesExt

CONSTANTS
  Tickets,    \* ticket keys
  Times,      \* the clock times at which anything happens, minutes of the day
  LogTime,    \* LOG_TIME
  PageKinds,  \* the jobs the user starts on the Work page
  PageLists,  \* the ticket lists of those jobs
  MaxAsks,    \* bound: tickets queued, started or logged by the user
  MaxFaults   \* bound: calls that fail

HrmTodayOpensAt == 1080
Off == <<"OFF">>
Columns == <<"M", "J">>
Jobs == {"drain", "page"}

(* A day's tickets: TicketQueue and TicketParser keep no key twice. *)
Lists == {s \in SeqOf(Tickets, Cardinality(Tickets)) : IsInjective(s)}

ASSUME WorkLogAssumption ==
  /\ IsFiniteSet(Tickets)
  /\ Times \subseteq Nat /\ LogTime \in Nat
  /\ \E t \in Times : t >= HrmTodayOpensAt
  /\ PageKinds \subseteq {"both", "tsc", "hrm", "off"}
  /\ PageLists \subseteq Lists \ {<<>>}
  /\ MaxAsks \in Nat /\ MaxFaults \in Nat

VARIABLES
  clock,      \* Hcm.Now()
  queue,      \* the day's tickets in queue.json
  cell,       \* the TSC cell of each column: a ticket list, or OFF
  hrm,        \* the HRM bookings
  written,    \* TscWrittenDates.Contains(the day)
  job,        \* the two log jobs
  start,      \* QueueTicketsForToday: where it is, for what, what it has read
  asks,       \* bound
  faults,     \* bound
  owed,       \* history: queued by the user and not taken back
  delivered,  \* history: logged by the drain since it was last asked for
  sent,       \* history: the ticket lists sent to HRM
  torn,       \* history: a cell write failed, and no column was the last to be written since
  off,        \* history: marked off, nothing asked for since
  paged       \* history: the Work page has logged something itself

history == <<owed, delivered, sent, torn, off, paged>>
vars == <<clock, queue, cell, hrm, written, job, start, asks, faults, history>>

NoJob == [at |-> "idle", value |-> <<>>, columns |-> <<>>, slots |-> {}, ok |-> TRUE]
NoStart == [at |-> "idle", ticket |-> <<>>, written |-> FALSE]

TypeOK ==
  /\ clock \in Times
  /\ queue \in Lists
  /\ cell \in [ToSet(Columns) -> Lists \cup {Off}]
  /\ \A b \in hrm : b.ticket \in Tickets /\ b.start <= b.end
  /\ written \in BOOLEAN
  /\ \A p \in Jobs :
       /\ job[p].at \in {"idle", "token", "log", "remove"}
       /\ job[p].value \in Lists \cup {Off}
       /\ job[p].ok \in BOOLEAN
  /\ start.at \in {"idle", "checked", "added"}
  /\ asks \in 0 .. MaxAsks /\ faults \in 0 .. MaxFaults
  /\ owed \subseteq Tickets /\ delivered \subseteq Tickets
  /\ sent \subseteq Lists

Init ==
  /\ clock \in {t \in Times : \A u \in Times : t <= u}
  /\ queue = <<>>
  /\ cell = [c \in ToSet(Columns) |-> <<>>]
  /\ hrm = {}
  /\ written = FALSE
  /\ job = [p \in Jobs |-> NoJob]
  /\ start = NoStart
  /\ asks = 0 /\ faults = 0
  /\ owed = {} /\ delivered = {} /\ sent = {}
  /\ torn = FALSE /\ off = FALSE /\ paged = FALSE

(* No UI handler lasts from one of Times to the next. *)
ClockMoves ==
  /\ start.at = "idle"
  /\ clock' \in {t \in Times : clock < t}
  /\ UNCHANGED <<queue, cell, hrm, written, job, start, asks, faults, history>>

-----------------------------------------------------------------------------
(* The log jobs. *)

(* HrmMcpClient.LogTicketsAsync: one call per slot of every ticket, the    *)
(* earliest first.                                                         *)
Bookings(tickets) ==
  UNION {{[ticket |-> tickets[i], start |-> s.start, end |-> s.end] :
            s \in ToSet(Get(EvenSplit(Len(tickets)), i))} :
         i \in DOMAIN tickets}
Earliest(slots) == {s \in slots : \A r \in slots : s.start <= r.start}

Overlaps(a, b) == a.start < b.end /\ b.start < a.end
Future(slot) == slot.end > clock
Taken(slot) == \E b \in hrm : Overlaps(slot, b)
Bookable(slot) == ~Future(slot) /\ ~Taken(slot)

(* The drain reads the queue, and then waits for a Graph token. *)
DrainBegins ==
  /\ job["drain"].at = "idle"
  /\ queue # <<>>
  /\ job' = [job EXCEPT !["drain"] = [NoJob EXCEPT !.at = "token", !.value = queue]]
  /\ UNCHANGED <<clock, queue, cell, hrm, written, start, asks, faults, history>>

(* OnLogNow, OnLogTsc, OnLogHrm and OnLogOff.  HRM refuses today's hours   *)
(* before 18:00, and so does the page.                                     *)
PageBegins(kind, tickets) ==
  /\ job["page"].at = "idle"
  /\ start.at = "idle"
  /\ asks < MaxAsks
  /\ asks' = asks + 1
  /\ kind \in {"both", "hrm"} => clock >= HrmTodayOpensAt
  /\ job' = [job EXCEPT !["page"] =
       [at      |-> IF kind = "hrm" THEN "log" ELSE "token",
        value   |-> IF kind = "off" THEN Off ELSE tickets,
        columns |-> <<>>,
        slots   |-> IF kind \in {"both", "hrm"} THEN Bookings(tickets) ELSE {},
        ok      |-> TRUE]]
  /\ sent' = IF kind \in {"both", "hrm"} THEN sent \cup {tickets} ELSE sent
  /\ off' = FALSE /\ paged' = TRUE
  /\ UNCHANGED <<clock, queue, cell, hrm, written, start, faults, owed, delivered, torn>>

(* AcquireGraphTokenAsync returned.  With a token the day is recorded as   *)
(* written before anything is; without one HRM is still logged.            *)
TokenArrivesUnrecorded(p) ==
  /\ job[p].at = "token"
  /\ job' = [job EXCEPT ![p].at = "log",
                        ![p].columns = Columns,
                        ![p].slots = IF p = "drain" THEN Bookings(job[p].value) ELSE @]
  /\ sent' = IF p = "drain" THEN sent \cup {job[p].value} ELSE sent
  /\ UNCHANGED <<clock, queue, cell, hrm, written, start, asks, faults, owed, delivered, torn, off, paged>>
TokenArrives(p) ==
  /\ job[p].at = "token"
  /\ written' = TRUE
  /\ job' = [job EXCEPT ![p].at = "log",
                        ![p].columns = Columns,
                        ![p].slots = IF p = "drain" THEN Bookings(job[p].value) ELSE @]
  /\ sent' = IF p = "drain" THEN sent \cup {job[p].value} ELSE sent
  /\ UNCHANGED <<clock, queue, cell, hrm, start, asks, faults, owed, delivered, torn, off, paged>>

NoToken(p) ==
  /\ job[p].at = "token"
  /\ faults < MaxFaults
  /\ faults' = faults + 1
  /\ job' = [job EXCEPT ![p].at = "log",
                        ![p].slots = IF p = "drain" THEN Bookings(job[p].value) ELSE @,
                        ![p].ok = FALSE]
  /\ sent' = IF p = "drain" THEN sent \cup {job[p].value} ELSE sent
  /\ UNCHANGED <<clock, queue, cell, hrm, written, start, asks, owed, delivered, torn, off, paged>>

(* TscWrittenDates could not be saved: the entry's log run throws before   *)
(* either timesheet is called.                                             *)
RecordFails(p) ==
  /\ job[p].at = "token"
  /\ faults < MaxFaults
  /\ faults' = faults + 1
  /\ job' = [job EXCEPT ![p].at = "log", ![p].slots = {}, ![p].ok = FALSE]
  /\ UNCHANGED <<clock, queue, cell, hrm, written, start, asks, history>>

(* One cell: skipped when it holds the value already, else overwritten.    *)
(* Skipping is as good as writing at the moment of the read.               *)
WritePrimaryCell(p) ==
  /\ job[p].columns # <<>>
  /\ cell' = [cell EXCEPT ![Head(job[p].columns)] = job[p].value]
  /\ job' = [job EXCEPT ![p].columns = <<>>]
  /\ UNCHANGED <<clock, queue, hrm, written, start, asks, faults, history>>
WriteCell(p) ==
  /\ job[p].columns # <<>>
  /\ cell' = [cell EXCEPT ![Head(job[p].columns)] = job[p].value]
  /\ job' = [job EXCEPT ![p].columns = Tail(@)]
  /\ torn' = (torn /\ Tail(job[p].columns) # <<>>)
  /\ UNCHANGED <<clock, queue, hrm, written, start, asks, faults, owed, delivered, sent, off, paged>>

(* A Graph call failed, the date check did, or the run timed out.  The     *)
(* cell may have been written and the answer lost, or the fill of OFF may  *)
(* have failed after it.                                                   *)
CellFails(p) ==
  /\ job[p].columns # <<>>
  /\ faults < MaxFaults
  /\ faults' = faults + 1
  /\ cell' \in {cell, [cell EXCEPT ![Head(job[p].columns)] = job[p].value]}
  /\ job' = [job EXCEPT ![p].columns = <<>>, ![p].ok = FALSE]
  /\ torn' = TRUE
  /\ UNCHANGED <<clock, queue, hrm, written, start, asks, owed, delivered, sent, off, paged>>

OthersSlots(slots, t) == {s \in slots : s.ticket # t}

(* One log_timesheet call.  An overlap counts as logged; a slot that ends  *)
(* in the future is an error, which costs the ticket its remaining slots.  *)
SendSlotRefusingOverlaps(p) ==
  \E slot \in Earliest(job[p].slots) :
    /\ job[p].at = "log"
    /\ hrm' = IF Bookable(slot) THEN hrm \cup {slot} ELSE hrm
    /\ job' = IF ~Bookable(slot)
                THEN [job EXCEPT ![p].slots = OthersSlots(@, slot.ticket), ![p].ok = FALSE]
                ELSE [job EXCEPT ![p].slots = @ \ {slot}]
    /\ UNCHANGED <<clock, queue, cell, written, start, asks, faults, history>>
SendSlot(p) ==
  \E slot \in Earliest(job[p].slots) :
    /\ job[p].at = "log"
    /\ hrm' = IF Bookable(slot) THEN hrm \cup {slot} ELSE hrm
    /\ job' = IF Future(slot)
                THEN [job EXCEPT ![p].slots = OthersSlots(@, slot.ticket), ![p].ok = FALSE]
                ELSE [job EXCEPT ![p].slots = @ \ {slot}]
    /\ UNCHANGED <<clock, queue, cell, written, start, asks, faults, history>>

(* The transport gave up after its retries, or the run timed out.  The     *)
(* last call may have been booked and its answer lost.                     *)
SlotFailsQuietly(p) ==
  \E slot \in Earliest(job[p].slots) :
    /\ job[p].at = "log"
    /\ faults < MaxFaults
    /\ faults' = faults + 1
    /\ hrm' \in IF Bookable(slot) THEN {hrm, hrm \cup {slot}} ELSE {hrm}
    /\ job' = [job EXCEPT ![p].slots = {}]
    /\ UNCHANGED <<clock, queue, cell, written, start, asks, history>>
SlotFails(p) ==
  \E slot \in Earliest(job[p].slots) :
    /\ job[p].at = "log"
    /\ faults < MaxFaults
    /\ faults' = faults + 1
    /\ hrm' \in IF Bookable(slot) THEN {hrm, hrm \cup {slot}} ELSE {hrm}
    /\ job' = [job EXCEPT ![p].slots = {}, ![p].ok = FALSE]
    /\ UNCHANGED <<clock, queue, cell, written, start, asks, history>>

(* HRM refuses the ticket for a reason of its own. *)
SlotRejected(p) ==
  \E slot \in Earliest(job[p].slots) :
    /\ job[p].at = "log"
    /\ faults < MaxFaults
    /\ faults' = faults + 1
    /\ job' = [job EXCEPT ![p].slots = OthersSlots(@, slot.ticket), ![p].ok = FALSE]
    /\ UNCHANGED <<clock, queue, cell, hrm, written, start, asks, history>>

BothDone(p) == job[p].at = "log" /\ job[p].columns = <<>> /\ job[p].slots = {}

(* The drain's entry was logged, or is kept. *)
DrainLoggedAnyway ==
  /\ BothDone("drain")
  /\ job' = [job EXCEPT !["drain"].at = "remove"]
  /\ delivered' = IF job["drain"].ok THEN delivered \cup ToSet(job["drain"].value) ELSE delivered
  /\ UNCHANGED <<clock, queue, cell, hrm, written, start, asks, faults, owed, sent, torn, off, paged>>
DrainLogged ==
  /\ BothDone("drain")
  /\ IF job["drain"].ok
       THEN /\ job' = [job EXCEPT !["drain"].at = "remove"]
            /\ delivered' = delivered \cup ToSet(job["drain"].value)
       ELSE /\ job' = [job EXCEPT !["drain"] = NoJob]
            /\ UNCHANGED delivered
  /\ UNCHANGED <<clock, queue, cell, hrm, written, start, asks, faults, owed, sent, torn, off, paged>>

RemoveLogged ==
  /\ job["drain"].at = "remove"
  /\ queue' = Less(queue, ToSet(job["drain"].value))
  /\ job' = [job EXCEPT !["drain"] = NoJob]
  /\ UNCHANGED <<clock, cell, hrm, written, start, asks, faults, history>>

(* The queue file could not be written: it is as it was. *)
RemoveFails ==
  /\ job["drain"].at = "remove"
  /\ faults < MaxFaults
  /\ faults' = faults + 1
  /\ job' = [job EXCEPT !["drain"] = NoJob]
  /\ UNCHANGED <<clock, queue, cell, hrm, written, start, asks, history>>

(* OnLogOff goes on to drop the day's queued tickets. *)
PageEnds ==
  LET markedOff == job["page"].value = Off /\ job["page"].ok
  IN  /\ BothDone("page")
      /\ start.at = "idle"
      /\ job' = [job EXCEPT !["page"] = NoJob]
      /\ queue' = IF markedOff THEN <<>> ELSE queue
      /\ owed' = IF markedOff THEN {} ELSE owed
      /\ off' = (off \/ markedOff)
      /\ UNCHANGED <<clock, cell, hrm, written, start, asks, faults, delivered, sent, torn, paged>>

-----------------------------------------------------------------------------
(* The user and the queue.  The UI thread finishes a handler before it     *)
(* begins another; a drain does not wait for it.                           *)

JustDelivered == IF job["drain"].at = "remove" THEN ToSet(job["drain"].value) ELSE {}

Ask(S) ==
  /\ asks < MaxAsks
  /\ asks' = asks + 1
  /\ owed' = owed \cup S
  /\ delivered' = delivered \ (S \ JustDelivered)
  /\ off' = FALSE

(* OnQueue.  The button is off while a page job runs, not while a drain    *)
(* does.  QueueDrain splits this into its read and its write.              *)
OnQueueRepeating(tickets) ==
  /\ job["page"].at = "idle"
  /\ start.at = "idle"
  /\ tickets # <<>>
  /\ queue' = queue \o tickets
  /\ Ask(ToSet(tickets))
  /\ UNCHANGED <<clock, cell, hrm, written, job, start, faults, sent, torn, paged>>
OnQueue(tickets) ==
  /\ job["page"].at = "idle"
  /\ start.at = "idle"
  /\ tickets # <<>>
  /\ queue' = queue \o Less(tickets, ToSet(queue))
  /\ Ask(ToSet(tickets))
  /\ UNCHANGED <<clock, cell, hrm, written, job, start, faults, sent, torn, paged>>

(* QueueTicketsForToday: the checks, the add under the lock, and the       *)
(* second look at _draining.                                               *)
StartCheck(t) ==
  /\ start.at = "idle"
  /\ asks < MaxAsks
  /\ job["drain"].at = "idle"
  /\ clock < HrmTodayOpensAt /\ clock < LogTime
  /\ start' = [at |-> "checked", ticket |-> t, written |-> written]
  /\ UNCHANGED <<clock, queue, cell, hrm, written, job, asks, faults, history>>

StartAddUnlogged ==
  /\ start.at = "checked"
  /\ start.ticket \notin ToSet(queue)
  /\ queue' = Append(queue, start.ticket)
  /\ Ask({start.ticket})
  /\ start' = [start EXCEPT !.at = "added"]
  /\ UNCHANGED <<clock, cell, hrm, written, job, faults, sent, torn, paged>>
StartAdd ==
  /\ start.at = "checked"
  /\ start.ticket \notin ToSet(queue)
  /\ queue # <<>> \/ ~start.written
  /\ queue' = Append(queue, start.ticket)
  /\ Ask({start.ticket})
  /\ start' = [start EXCEPT !.at = "added"]
  /\ UNCHANGED <<clock, cell, hrm, written, job, faults, sent, torn, paged>>

(* AlreadyQueued, AlreadyLogged, or the file could not be written. *)
StartRefused ==
  /\ start.at = "checked"
  /\ start' = NoStart
  /\ UNCHANGED <<clock, queue, cell, hrm, written, job, asks, faults, history>>

StartKeep ==
  /\ start.at = "added"
  /\ job["drain"].at = "idle"
  /\ start' = NoStart
  /\ UNCHANGED <<clock, queue, cell, hrm, written, job, asks, faults, history>>

StartTakeOut ==
  /\ start.at = "added"
  /\ job["drain"].at # "idle"
  /\ queue' = Less(queue, {start.ticket})
  /\ owed' = owed \ {start.ticket}
  /\ start' = NoStart
  /\ UNCHANGED <<clock, cell, hrm, written, job, asks, faults, delivered, sent, torn, off, paged>>

(* The write that would take it out fails: the ticket stays in the queue,  *)
(* for the drain after the one under way.                                  *)
StartTakeOutFails ==
  /\ start.at = "added"
  /\ job["drain"].at # "idle"
  /\ faults < MaxFaults
  /\ faults' = faults + 1
  /\ start' = NoStart
  /\ UNCHANGED <<clock, queue, cell, hrm, written, job, asks, history>>

RemoveTicket(t) ==
  /\ start.at = "idle"
  /\ t \in ToSet(queue)
  /\ queue' = Less(queue, {t})
  /\ owed' = owed \ {t}
  /\ UNCHANGED <<clock, cell, hrm, written, job, start, asks, faults, delivered, sent, torn, off, paged>>

-----------------------------------------------------------------------------
JobStep ==
  \/ \E p \in Jobs : TokenArrives(p) \/ WriteCell(p) \/ SendSlot(p)
  \/ DrainLogged
  \/ RemoveLogged
  \/ PageEnds

Fault ==
  \/ \E p \in Jobs :
       NoToken(p) \/ RecordFails(p) \/ CellFails(p) \/ SlotFails(p) \/ SlotRejected(p)
  \/ RemoveFails
  \/ StartTakeOutFails

StartStep == StartAdd \/ StartRefused \/ StartKeep \/ StartTakeOut

UserStep ==
  \/ \E kind \in PageKinds, tickets \in PageLists : PageBegins(kind, tickets)
  \/ \E tickets \in Lists : OnQueue(tickets)
  \/ \E t \in Tickets : StartCheck(t)
  \/ StartStep
  \/ \E t \in Tickets : RemoveTicket(t)

Next == ClockMoves \/ DrainBegins \/ JobStep \/ Fault \/ UserStep

(* Every job goes on, the day goes on, and the daily timer drains whatever *)
(* is queued, again and again; Start, once begun, is straight-line code.   *)
(* The user owes nothing, and neither does a fault.                        *)
Spec ==
  /\ Init /\ [][Next]_vars
  /\ SF_vars(ClockMoves) /\ WF_vars(DrainBegins)
  /\ WF_vars(JobStep) /\ WF_vars(StartStep)

-----------------------------------------------------------------------------
(* A retry is safe when the day's list is still the one every attempt was  *)
(* made with: once a drain has succeeded each ticket holds exactly its     *)
(* slots, however many of the calls had been booked before, by the drain   *)
(* or by the Work page, or booked and their answer lost.                   *)
SafeToRetrySameList ==
  BothDone("drain") /\ job["drain"].ok /\ sent = {job["drain"].value} =>
    hrm = Bookings(job["drain"].value)

(* "Re-runs are idempotent ..., so kept entries are safe to retry":        *)
(* whatever succeeds has hours.                                            *)
SuccessMeansHours ==
  BothDone("drain") /\ job["drain"].ok =>
    \A t \in ToSet(job["drain"].value) : \E b \in hrm : b.ticket = t

(* No cell of the workbook holds anything the app has not first recorded,  *)
(* so Start never begins a new entry over a written day, crash or not.     *)
RecordedFirst == (\E c \in DOMAIN cell : cell[c] # <<>>) => written

(* With the jobs at rest both columns say the same, unless a job of the    *)
(* Work page has written beside the drain's, or a write failed and no run  *)
(* has written both columns since: the retry of a kept entry mends what    *)
(* the failed attempts, applied or not, left of the day.                   *)
MirrorsAgree ==
  (\A p \in Jobs : job[p].at = "idle") /\ ~torn /\ ~paged => cell["M"] = cell["J"]

(* "Drop the day's queued tickets so the scheduled drain cannot overwrite  *)
(* OFF."                                                                   *)
OffStays == off => \A c \in DOMAIN cell : cell[c] = Off

(* Start "refuses whenever the drain could overwrite the TSC cell with a   *)
(* partial list": where it has begun a new entry, and looked again, no     *)
(* cell holds a ticket that the next drain would not write back, though    *)
(* the day's earlier entry is gone from the queue, logged or taken back.   *)
(* It looks for a drain only: a job of the Work page may have written.     *)
StartKeepsTheCell ==
  start.at = "added" /\ job["drain"].at = "idle" /\ ~paged /\ queue = <<start.ticket>> =>
    \A c \in DOMAIN cell : ToSet(cell[c]) \subseteq ToSet(queue)

(* Whatever is queued leaves the queue in the end, logged or taken back:   *)
(* no kept entry is kept for ever once calls stop failing.                 *)
QueueEmpties == <>[](queue = <<>>)

(* The promise of Outbox, with a run's own verdict for "delivered". *)
Promise == INSTANCE Outbox WITH Item <- Tickets, waiting <- ToSet(queue), torn <- FALSE
KeepsPromise == Promise!Spec
=============================================================================
