-------------------------- MODULE QueueDrain_proofs --------------------------
(***************************************************************************)
(* For every set of dates and tickets: the queue protocol loses nothing,   *)
(* and implements the promise of Outbox.                                   *)
(***************************************************************************)
EXTENDS QueueDrain, TLAPS

(* Every variable keeps its type. *)
THEOREM TypeCorrect == Spec => []TypeOK
<1>1. Init => TypeOK
  BY DEF Init, TypeOK
<1>2. TypeOK /\ [Next]_vars => TypeOK'
  <2> SUFFICES ASSUME TypeOK, [Next]_vars PROVE TypeOK'
    OBVIOUS
  <2> USE DEF TypeOK, Item, On, drainVars, uiVars
  <2>1. CASE EnterDrain
    BY <2>1 DEF EnterDrain
  <2>2. CASE DrainStep
    BY <2>2 DEF DrainStep, TakeSnapshot, LogEntry, EndEntries, RemoveLogged, LeaveDrain
  <2>3. CASE UserStep
    <3>1. ASSUME NEW d \in Dates, NEW S \in SUBSET Tickets, QueueRead(d, S) PROVE TypeOK'
      BY <3>1 DEF QueueRead
    <3>2. CASE QueueWrite
      BY <3>2 DEF QueueWrite, Ask, BackToIdle
    <3>3. CASE QueueRefused \/ StartRefused \/ StartKeep \/ StartTakeOutFails
      BY <3>3 DEF QueueRefused, StartRefused, StartKeep, StartTakeOutFails, BackToIdle
    <3>4. ASSUME NEW x \in Item, StartCheck(x) PROVE TypeOK'
      BY <3>4 DEF StartCheck
    <3>5. CASE StartAdd
      BY <3>5 DEF StartAdd, Ask
    <3>6. CASE StartTakeOut
      BY <3>6 DEF StartTakeOut, BackToIdle
    <3>7. CASE RemoveTicket \/ ClearQueue \/ LogOff
      BY <3>7 DEF RemoveTicket, ClearQueue, LogOff, TakeBack
    <3> QED
      BY <2>3, <3>1, <3>2, <3>3, <3>4, <3>5, <3>6, <3>7 DEF UserStep
  <2>4. CASE Crash \/ CrashInWrite
    BY <2>4 DEF Crash, CrashInWrite, Restart, BackToIdle
  <2>5. CASE UNCHANGED vars
    BY <2>5 DEF vars
  <2> QED
    BY <2>1, <2>2, <2>3, <2>4, <2>5 DEF Next
<1> QED
  BY <1>1, <1>2, PTL DEF Spec

(* Inv is inductive. *)
LEMMA InvHolds == Spec => []Inv
<1>1. Init => Inv
  BY DEF Init, Inv
<1>2. TypeOK /\ Inv /\ [Next]_vars => Inv'
  <2> SUFFICES ASSUME TypeOK, Inv, [Next]_vars PROVE Inv'
    OBVIOUS
  <2> USE DEF Inv, drainVars, uiVars
  <2>1. CASE EnterDrain
    BY <2>1 DEF EnterDrain
  <2>2. CASE TakeSnapshot
    BY <2>2 DEF TakeSnapshot
  <2>3. ASSUME NEW d \in Dates, LogEntry(d) PROVE Inv'
    BY <2>3 DEF LogEntry
  <2>4. CASE EndEntries
    BY <2>4 DEF EndEntries
  <2>5. CASE RemoveLogged
    BY <2>5 DEF RemoveLogged
  <2>6. CASE LeaveDrain
    BY <2>6 DEF LeaveDrain
  <2>7. ASSUME NEW d \in Dates, NEW S \in SUBSET Tickets, QueueRead(d, S) PROVE Inv'
    BY <2>7 DEF QueueRead
  <2>8. CASE QueueWrite
    BY <2>8 DEF QueueWrite, Ask, BackToIdle
  <2>9. CASE QueueRefused \/ StartRefused \/ StartKeep \/ StartTakeOutFails
    BY <2>9 DEF QueueRefused, StartRefused, StartKeep, StartTakeOutFails, BackToIdle
  <2>10. ASSUME NEW x \in Item, StartCheck(x) PROVE Inv'
    BY <2>10 DEF StartCheck
  <2>11. CASE StartAdd
    BY <2>11 DEF StartAdd, Ask
  <2>12. CASE StartTakeOut
    BY <2>12 DEF StartTakeOut, BackToIdle
  <2>13. CASE RemoveTicket \/ ClearQueue \/ LogOff
    BY <2>13 DEF RemoveTicket, ClearQueue, LogOff, TakeBack
  <2>14. CASE Crash \/ CrashInWrite
    BY <2>14 DEF Crash, CrashInWrite, Restart, BackToIdle
  <2>15. CASE UNCHANGED vars
    BY <2>15 DEF vars
  <2> QED
    BY <2>1, <2>2, <2>3, <2>4, <2>5, <2>6, <2>7, <2>8, <2>9, <2>10, <2>11, <2>12,
       <2>13, <2>14, <2>15 DEF Next, DrainStep, UserStep
<1> QED
  BY <1>1, <1>2, TypeCorrect, PTL DEF Spec

(* A ticket the user queued and did not take back is in queue.json or was  *)
(* delivered, for any number of dates and tickets.                         *)
THEOREM NeverLost == Spec => []NothingLost
<1>1. Inv => NothingLost
  BY DEF Inv, NothingLost
<1> QED
  BY <1>1, InvHolds, PTL

(* RemoveLogged takes out of the current file only what was delivered.     *)
THEOREM DrainRemovesOnlyDelivered == Spec => DrainKeepsTheRest
<1>1. TypeOK /\ Inv /\ [Next]_vars
        => [drain = "remove" /\ drain' = "release" => queue \ queue' \subseteq delivered]_vars
  <2> SUFFICES ASSUME Inv, Next, drain = "remove", drain' = "release"
               PROVE  queue \ queue' \subseteq delivered
    BY DEF vars
  <2>1. CASE RemoveLogged
    BY <2>1 DEF RemoveLogged, Inv
  <2>2. CASE ~RemoveLogged
    <3>1. ~(EnterDrain \/ Crash \/ CrashInWrite \/ UserStep)
      BY DEF EnterDrain, Crash, CrashInWrite, Restart, UserStep, QueueRead, QueueWrite,
             QueueRefused, StartCheck, StartAdd, StartRefused, StartKeep, StartTakeOut,
             StartTakeOutFails, RemoveTicket, ClearQueue, LogOff, TakeBack, drainVars
    <3>2. ~(TakeSnapshot \/ EndEntries \/ LeaveDrain \/ \E d \in Dates : LogEntry(d))
      BY DEF TakeSnapshot, EndEntries, LeaveDrain, LogEntry
    <3> QED
      BY <2>2, <3>1, <3>2 DEF Next, DrainStep
  <2> QED
    BY <2>1, <2>2
<1> QED
  BY <1>1, TypeCorrect, InvHolds, PTL DEF Spec, DrainKeepsTheRest

(* Every step of the queue protocol is a step of Outbox or invisible to it. *)
LEMMA StepKeepsPromise == TypeOK /\ Inv /\ [Next]_vars => [Promise!Next]_(Promise!vars)
<1> SUFFICES ASSUME TypeOK, Inv, [Next]_vars PROVE [Promise!Next]_(Promise!vars)
  OBVIOUS
<1> USE DEF Promise!vars, drainVars, uiVars
<1>1. CASE EnterDrain \/ TakeSnapshot \/ EndEntries \/ LeaveDrain
  BY <1>1 DEF EnterDrain, TakeSnapshot, EndEntries, LeaveDrain
<1>2. ASSUME NEW d \in Dates, LogEntry(d) PROVE [Promise!Next]_(Promise!vars)
  <2>1. CASE processed' = processed /\ delivered' = delivered
    BY <1>2, <2>1 DEF LogEntry
  <2>2. CASE delivered' = delivered \cup (todo \cap On(d))
    <3>1. Promise!Deliver(todo \cap On(d))
      BY <1>2, <2>2 DEF LogEntry, Promise!Deliver
    <3>2. todo \cap On(d) \in SUBSET Item
      BY DEF TypeOK
    <3> QED
      BY <3>1, <3>2 DEF Promise!Next
  <2> QED
    BY <1>2, <2>1, <2>2 DEF LogEntry
<1>3. CASE RemoveLogged
  <2>1. CASE queue' = queue
    BY <1>3, <2>1 DEF RemoveLogged
  <2>2. CASE queue' = queue \ processed
    <3>1. Promise!Settle(processed)
      BY <1>3, <2>2 DEF RemoveLogged, Inv, Promise!Settle
    <3> QED
      BY <3>1 DEF Promise!Next, TypeOK
  <2> QED
    BY <1>3, <2>1, <2>2 DEF RemoveLogged
<1>4. CASE QueueWrite \/ StartAdd
  <2>1. queue \cup typed \subseteq queue'
    BY <1>4 DEF QueueWrite, StartAdd, Inv
  <2>2. Ask(typed) /\ UNCHANGED torn
    BY <1>4 DEF QueueWrite, StartAdd
  <2>3. typed \ processed \in SUBSET typed
    OBVIOUS
  <2>4. Promise!Ask(typed)
    BY <2>1, <2>2, <2>3 DEF Ask, Promise!Ask
  <2> QED
    BY <2>4 DEF Promise!Next, TypeOK
<1>5. ASSUME NEW d \in Dates, NEW S \in SUBSET Tickets, QueueRead(d, S)
      PROVE  [Promise!Next]_(Promise!vars)
  BY <1>5 DEF QueueRead
<1>6. CASE QueueRefused \/ StartRefused \/ StartKeep \/ StartTakeOutFails
           \/ \E x \in Item : StartCheck(x)
  BY <1>6 DEF QueueRefused, StartRefused, StartKeep, StartTakeOutFails, StartCheck
<1>7. ASSUME NEW S \in SUBSET Item, TakeBack(S) PROVE [Promise!Next]_(Promise!vars)
  <2>1. Promise!TakeBack(S)
    BY <1>7 DEF TakeBack, Promise!TakeBack
  <2> QED
    BY <2>1 DEF Promise!Next
<1>8. CASE StartTakeOut
  <2>1. Promise!TakeBack(typed)
    BY <1>8 DEF StartTakeOut, Promise!TakeBack
  <2> QED
    BY <2>1 DEF Promise!Next, TypeOK
<1>9. CASE RemoveTicket \/ ClearQueue \/ LogOff
  <2>1. \A x \in queue : {x} \in SUBSET Item
    BY DEF TypeOK
  <2>2. \A d \in Dates : On(d) \in SUBSET Item
    BY DEF On, Item
  <2> QED
    BY <1>7, <1>9, <2>1, <2>2 DEF RemoveTicket, ClearQueue, LogOff
<1>10. CASE Crash
  BY <1>10 DEF Crash, Restart
<1>11. CASE CrashInWrite
  BY <1>11 DEF CrashInWrite, Restart, Promise!TearFile, Promise!Next
<1>12. CASE UNCHANGED vars
  BY <1>12 DEF vars
<1> QED
  BY <1>1, <1>2, <1>3, <1>4, <1>5, <1>6, <1>8, <1>9, <1>10, <1>11, <1>12
  DEF Next, DrainStep, UserStep

(* The queue file, its lock regions and its races implement the promise    *)
(* that nothing the user is owed leaves the queue undelivered.             *)
THEOREM ImplementsPromise == Spec => KeepsPromise
<1>1. Init => Promise!Init
  BY DEF Init, Promise!Init
<1> QED
  BY <1>1, StepKeepsPromise, TypeCorrect, InvHolds, PTL
  DEF Spec, KeepsPromise, Promise!Spec
=============================================================================
