----------------------------- MODULE QueueDrain -----------------------------
(***************************************************************************)
(* The queue file and everybody who changes it: the Work page and the task *)
(* board on the UI thread, and the log run (the drain), which the daily    *)
(* timer starts on a thread-pool thread.  A queue entry is reduced here to *)
(* the set of its <<date, ticket>> pairs; WorkLog adds order, minutes and  *)
(* the two timesheets.                                                     *)
(*                                                                         *)
(* Each lock region of TicketQueue is one step; the drain and a UI handler *)
(* interleave between any two of them.                                     *)
(***************************************************************************)
CONSTANTS
  Dates,     \* the dates entries are queued for
  Tickets    \* ticket keys

Item == Dates \X Tickets
On(d) == {d} \X Tickets

VARIABLES
  queue,      \* queue.json, as the set of its <<date, ticket>> pairs
  draining,   \* TrayApp._draining
  drain,      \* where the drain is: idle, snapshot, entries, remove, release
  todo,       \* the part of the drain's snapshot it has not come to yet
  processed,  \* DrainQueueAsync's "processed" list
  ui,         \* where the UI handler is: idle, queueing, checked, added
  copy,       \* the queue OnQueue has read and will write back
  typed,      \* what OnQueue or AddStartedTicket is adding
  owed,       \* history: asked for by the user and not taken back
  delivered,  \* history: logged since it was last asked for
  torn        \* history: a crash in the middle of File.WriteAllText

drainVars == <<draining, drain, todo, processed>>
uiVars == <<ui, copy, typed>>
vars == <<queue, drainVars, uiVars, owed, delivered, torn>>

TypeOK ==
  /\ queue \subseteq Item
  /\ draining \in BOOLEAN
  /\ drain \in {"idle", "snapshot", "entries", "remove", "release"}
  /\ todo \subseteq Item
  /\ processed \subseteq Item
  /\ ui \in {"idle", "queueing", "checked", "added"}
  /\ copy \subseteq Item
  /\ typed \subseteq Item
  /\ owed \subseteq Item
  /\ delivered \subseteq Item
  /\ torn \in BOOLEAN

Init ==
  /\ queue = {}
  /\ draining = FALSE
  /\ drain = "idle"
  /\ todo = {}
  /\ processed = {}
  /\ ui = "idle"
  /\ copy = {}
  /\ typed = {}
  /\ owed = {}
  /\ delivered = {}
  /\ torn = FALSE

-----------------------------------------------------------------------------
(* The drain. *)

(* CompareExchange(ref _draining, 1, 0) won. *)
EnterDrain ==
  /\ ~draining
  /\ drain = "idle"
  /\ draining' = TRUE
  /\ drain' = "snapshot"
  /\ UNCHANGED <<queue, todo, processed, uiVars, owed, delivered, torn>>

(* TicketQueue.Read() at the head of DrainQueueAsync.  An empty queue ends *)
(* the run at once.                                                        *)
TakeSnapshotReturningEarly ==
  /\ drain = "snapshot"
  /\ todo' = queue
  /\ processed' = {}
  /\ drain' = IF queue = {} THEN "idle" ELSE "entries"
  /\ UNCHANGED <<queue, draining, uiVars, owed, delivered, torn>>
TakeSnapshot ==
  /\ drain = "snapshot"
  /\ todo' = queue
  /\ processed' = {}
  /\ drain' = IF queue = {} THEN "release" ELSE "entries"
  /\ UNCHANGED <<queue, draining, uiVars, owed, delivered, torn>>

(* One turn of the foreach: the entry of one date was logged to both       *)
(* destinations, or was not and is kept.                                   *)
LogEntryRegardless(d) ==
  /\ drain = "entries"
  /\ todo \cap On(d) # {}
  /\ todo' = todo \ On(d)
  /\ processed' = processed \cup (todo \cap On(d))
  /\ delivered' \in {delivered \cup (todo \cap On(d)), delivered}
  /\ UNCHANGED <<queue, draining, drain, uiVars, owed, torn>>
LogEntry(d) ==
  /\ drain = "entries"
  /\ todo \cap On(d) # {}
  /\ todo' = todo \ On(d)
  /\ \/ /\ processed' = processed \cup (todo \cap On(d))
        /\ delivered' = delivered \cup (todo \cap On(d))
     \/ UNCHANGED <<processed, delivered>>
  /\ UNCHANGED <<queue, draining, drain, uiVars, owed, torn>>

(* The foreach ends, or the five-minute timeout cancels it between two     *)
(* entries; the finally block follows in both cases.                       *)
EndEntries ==
  /\ drain = "entries"
  /\ drain' = "remove"
  /\ todo' = {}
  /\ UNCHANGED <<queue, draining, processed, uiVars, owed, delivered, torn>>

(* RemoveLogged(processed), from the current file.  It may fail to write:  *)
(* the file is then as it was.                                             *)
RemoveEverything ==
  /\ drain = "remove"
  /\ queue' \in {{}, queue}
  /\ drain' = "release"
  /\ UNCHANGED <<draining, todo, processed, uiVars, owed, delivered, torn>>
RemoveLogged ==
  /\ drain = "remove"
  /\ queue' \in {queue \ processed, queue}
  /\ drain' = "release"
  /\ UNCHANGED <<draining, todo, processed, uiVars, owed, delivered, torn>>

LeaveDrain ==
  /\ drain = "release"
  /\ draining' = FALSE
  /\ drain' = "idle"
  /\ processed' = {}
  /\ UNCHANGED <<queue, todo, uiVars, owed, delivered, torn>>

-----------------------------------------------------------------------------
(* The user. *)

(* The user is owed the items of S, anew unless the running drain has just *)
(* delivered them and not yet taken them out of the file.                  *)
Ask(S) ==
  /\ owed' = owed \cup S
  /\ delivered' = delivered \ (S \ processed)

BackToIdle ==
  /\ ui' = "idle"
  /\ copy' = {}
  /\ typed' = {}

(* OnQueue reads the file, and later writes what it read with the typed    *)
(* tickets merged in.  Read and Write each take the lock; the pair does    *)
(* not.                                                                    *)
QueueRead(d, S) ==
  /\ ui = "idle"
  /\ S # {}
  /\ ui' = "queueing"
  /\ copy' = queue
  /\ typed' = {d} \X S
  /\ UNCHANGED <<queue, drainVars, owed, delivered, torn>>

QueueWrite ==
  /\ ui = "queueing"
  /\ queue' = copy \cup typed
  /\ Ask(typed)
  /\ BackToIdle
  /\ UNCHANGED <<drainVars, torn>>

(* The merge would exceed eight hours, or the write failed. *)
QueueRefused ==
  /\ ui = "queueing"
  /\ BackToIdle
  /\ UNCHANGED <<queue, drainVars, owed, delivered, torn>>

(* QueueTicketsForToday: look at _draining, add under the lock, look again *)
(* and take the ticket back out when a drain has begun.                    *)
StartCheck(x) ==
  /\ ui = "idle"
  /\ ~draining
  /\ ui' = "checked"
  /\ typed' = {x}
  /\ UNCHANGED <<queue, drainVars, copy, owed, delivered, torn>>

StartAdd ==
  /\ ui = "checked"
  /\ typed \cap queue = {}
  /\ queue' = queue \cup typed
  /\ Ask(typed)
  /\ ui' = "added"
  /\ UNCHANGED <<drainVars, copy, typed, torn>>

StartRefused ==
  /\ ui = "checked"
  /\ BackToIdle
  /\ UNCHANGED <<queue, drainVars, owed, delivered, torn>>

StartKeep ==
  /\ ui = "added"
  /\ ~draining
  /\ BackToIdle
  /\ UNCHANGED <<queue, drainVars, owed, delivered, torn>>

StartTakeOut ==
  /\ ui = "added"
  /\ draining
  /\ queue' = queue \ typed
  /\ owed' = owed \ typed
  /\ BackToIdle
  /\ UNCHANGED <<drainVars, delivered, torn>>

(* The write that would take it out fails: the ticket stays, with a notice *)
(* that it is not queued.                                                  *)
StartTakeOutFails ==
  /\ ui = "added"
  /\ draining
  /\ BackToIdle
  /\ UNCHANGED <<queue, drainVars, owed, delivered, torn>>

(* The row [X], "Clear queue", and the queue half of "Log OFF". *)
TakeBack(S) ==
  /\ ui = "idle"
  /\ queue' = queue \ S
  /\ owed' = owed \ S
  /\ UNCHANGED <<drainVars, uiVars, delivered, torn>>

RemoveTicket == \E x \in queue : TakeBack({x})
ClearQueue == queue # {} /\ TakeBack(Item)
LogOff == \E d \in Dates : TakeBack(On(d))

-----------------------------------------------------------------------------
(* The process ends and is started again: only the file survives. *)
Restart ==
  /\ draining' = FALSE
  /\ drain' = "idle"
  /\ todo' = {}
  /\ processed' = {}
  /\ BackToIdle
  /\ UNCHANGED <<owed, delivered>>

Crash == Restart /\ UNCHANGED <<queue, torn>>

(* WriteUnlocked is a plain File.WriteAllText: a crash inside it leaves a  *)
(* file that does not parse, and ReadUnlocked then answers "empty".        *)
CrashInWrite ==
  /\ processed # {} \/ ui # "idle" \/ queue # {}
  /\ Restart
  /\ queue' = {}
  /\ torn' = TRUE

-----------------------------------------------------------------------------
DrainStep ==
  \/ TakeSnapshot
  \/ \E d \in Dates : LogEntry(d)
  \/ EndEntries
  \/ RemoveLogged
  \/ LeaveDrain

UserStep ==
  \/ \E d \in Dates, S \in SUBSET Tickets : QueueRead(d, S)
  \/ QueueWrite
  \/ QueueRefused
  \/ \E x \in Item : StartCheck(x)
  \/ StartAdd
  \/ StartRefused
  \/ StartKeep
  \/ StartTakeOut
  \/ StartTakeOutFails
  \/ RemoveTicket
  \/ ClearQueue
  \/ LogOff

Next == EnterDrain \/ DrainStep \/ UserStep \/ Crash \/ CrashInWrite

(* The thread pool and the UI message loop run what is ready; the timer,   *)
(* the user and a crash owe nothing.                                       *)
Spec == Init /\ [][Next]_vars /\ WF_vars(DrainStep)

-----------------------------------------------------------------------------
(* The inductive invariant: what the drain will remove it has delivered,   *)
(* and what OnQueue will write back holds at least what the file holds.    *)
Inv ==
  /\ processed \subseteq delivered
  /\ drain \in {"idle", "snapshot"} => processed = {}
  /\ torn \/ owed \subseteq queue \cup delivered
  /\ ui = "queueing" => queue \subseteq copy

(* A ticket the user queued and did not take back is in the file or was    *)
(* delivered, at every point of every interleaving of OnQueue's            *)
(* read-then-write, Start's check-add-recheck and RemoveLogged.            *)
NothingLost == torn \/ owed \subseteq queue \cup delivered

(* RemoveLogged works on the current file, not on the drain's snapshot: no *)
(* step of the drain takes out a ticket that was not delivered.            *)
DrainKeepsTheRest ==
  [][drain = "remove" /\ drain' = "release" => queue \ queue' \subseteq delivered]_vars

(* Every run ends and gives the gate back, so the daily run, the catch-up  *)
(* and "Log queue now" are never refused for good.                         *)
GateComesFree == draining ~> ~draining

(* The promise of Outbox is kept. *)
Promise == INSTANCE Outbox WITH Item <- Item, waiting <- queue
KeepsPromise == Promise!Spec
=============================================================================
