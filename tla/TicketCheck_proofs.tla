------------------------- MODULE TicketCheck_proofs --------------------------
(***************************************************************************)
(* The ticket board, its poll and its walks, and the check of the pull     *)
(* requests beside them, for any tickets, statuses and pull requests.      *)
(*                                                                         *)
(* First the board alone: what a handler's saves leave behind (Handles),   *)
(* that a ticket goes along the moves of Board (Inv), and what the poll    *)
(* and the walks hold between two awaits (Holds).  Then the board beside   *)
(* the check: every step is one of the board's or leaves it alone, the     *)
(* unseen counts (CheckInv), and who was told of what (ToldInv).           *)
(***************************************************************************)
EXTENDS TicketCheck, SequenceTheorems, TLAPS

LEMMA Ranged ==
  ASSUME NEW V, NEW m \in Maps(V)
  PROVE  /\ DOMAIN m \subseteq Tickets
         /\ m \in [DOMAIN m -> V]
BY DEF Maps

LEMMA IsMap ==
  ASSUME NEW V, NEW S \in SUBSET Tickets, NEW m \in [S -> V]
  PROVE  m \in Maps(V)
BY DEF Maps

LEMMA PutIn ==
  ASSUME NEW V, NEW m \in Maps(V), NEW t \in Tickets, NEW v \in V
  PROVE  /\ Put(m, t, v) \in Maps(V)
         /\ DOMAIN Put(m, t, v) = DOMAIN m \cup {t}
<1>1. Put(m, t, v) \in [DOMAIN m \cup {t} -> V]
  BY Ranged DEF Put
<1> QED
  BY <1>1, Ranged, IsMap

LEMMA PutStatus ==
  \A m \in Maps(Statuses), t \in Tickets, v \in Statuses :
    /\ Put(m, t, v) \in Maps(Statuses)
    /\ DOMAIN Put(m, t, v) = DOMAIN m \cup {t}
BY PutIn

LEMMA PutDismissed ==
  \A m \in Maps([ticket : Statuses, origin : Sections]), t \in Tickets,
     v \in [ticket : Statuses, origin : Sections] :
    /\ Put(m, t, v) \in Maps([ticket : Statuses, origin : Sections])
    /\ DOMAIN Put(m, t, v) = DOMAIN m \cup {t}
BY PutIn

LEMMA PutAllIn ==
  ASSUME NEW V, NEW m \in Maps(V), NEW n \in Maps(V)
  PROVE  /\ PutAll(m, n) \in Maps(V)
         /\ DOMAIN PutAll(m, n) = DOMAIN m \cup DOMAIN n
<1>1. PutAll(m, n) \in [DOMAIN m \cup DOMAIN n -> V]
  BY Ranged DEF PutAll
<1> QED
  BY <1>1, Ranged, IsMap

LEMMA PutAllStatuses ==
  \A m, n \in Maps(Statuses) :
    /\ PutAll(m, n) \in Maps(Statuses)
    /\ DOMAIN PutAll(m, n) = DOMAIN m \cup DOMAIN n
BY PutAllIn

LEMMA TakenOut ==
  ASSUME NEW V, NEW m \in Maps(V), NEW S
  PROVE  /\ Without(m, S) \in Maps(V)
         /\ DOMAIN Without(m, S) = DOMAIN m \ S
         /\ \A t \in DOMAIN m \ S : Without(m, S)[t] = m[t]
<1>1. Without(m, S) \in [DOMAIN m \ S -> V]
  BY Ranged DEF Without, Restrict
<1> QED
  BY <1>1, Ranged, IsMap DEF Without, Restrict

LEMMA Kept ==
  ASSUME NEW V, NEW m \in Maps(V), NEW S \in SUBSET DOMAIN m
  PROVE  /\ Restrict(m, S) \in Maps(V)
         /\ DOMAIN Restrict(m, S) = S
BY DEF Maps, Restrict

LEMMA Replaced ==
  ASSUME NEW V, NEW m \in Maps(V), NEW n \in Maps(V)
  PROVE  /\ ReplaceChangedTickets(m, n) \in Maps(V)
         /\ DOMAIN ReplaceChangedTickets(m, n) = DOMAIN m
<1>1. ReplaceChangedTickets(m, n) \in [DOMAIN m -> V]
  BY Ranged DEF ReplaceChangedTickets
<1> QED
  BY <1>1, Ranged, IsMap


-----------------------------------------------------------------------------
(* Handlers, as sequences of saves. *)

Good == {f \in Files : \A t \in Tickets : InOneOf(f, t)}

(* From f to g the ticket keeps its place, or goes along one of the moves. *)
Moved(f, g, t) ==
  \/ Where(g, t) = Where(f, t) /\ Origin(g, t) = Origin(f, t)
  \/ Where(f, t) = "Nowhere" /\ Where(g, t) = "New"
  \/ Where(f, t) = "New" /\ Where(g, t) = "InProgress"
  \/ Where(f, t) = "InProgress" /\ Where(g, t) = "Done"
  \/ Where(f, t) = "Done" /\ Where(g, t) = "InProgress"
  \/ /\ Where(f, t) \in Sections /\ Where(g, t) = "Dismissed"
     /\ Origin(g, t) = Where(f, t)
  \/ Where(f, t) = "Dismissed" /\ Where(g, t) = Origin(f, t)

(* Every save leaves good files and forgets no seen key; one before the    *)
(* last may have dropped a ticket of S; the last has not.                  *)
Handles(f, saves, S) ==
  /\ saves \in Seq(Good) /\ Len(saves) > 0
  /\ \A n \in 1 .. Len(saves) : f.seen \subseteq saves[n].seen
  /\ \A n \in 1 .. Len(saves) : \A t \in Tickets :
       Moved(f, saves[n], t) \/ (t \in S /\ Where(saves[n], t) = "Nowhere")
  /\ \A t \in Tickets : Moved(f, saves[Len(saves)], t)

LEMMA GoodFiles ==
  ASSUME NEW f \in Good
  PROVE  /\ f \in Files
         /\ f.pending \in Maps(Statuses) /\ f.started \in Maps(Statuses)
         /\ f.done \in Maps(Statuses)
         /\ f.dismissed \in Maps([ticket : Statuses, origin : Sections])
BY DEF Good, Files

LEMMA StartHandles ==
  ASSUME NEW f \in Good, NEW t \in DOMAIN f.pending
  PROVE  Handles(f, StartSaves(f, t), {t})
<1> DEFINE m == Without(f.pending, {t})
           n == Put(f.started, t, f.pending[t])
           g == [f EXCEPT !.pending = m]
           h == [g EXCEPT !.started = n]
<1>1. t \in Tickets /\ f.pending[t] \in Statuses
  BY GoodFiles, Ranged
<1>2. m \in Maps(Statuses) /\ DOMAIN m = DOMAIN f.pending \ {t}
  BY GoodFiles, TakenOut
<1>3. n \in Maps(Statuses) /\ DOMAIN n = DOMAIN f.started \cup {t}
  BY <1>1, GoodFiles, PutStatus
<1>4. StartSaves(f, t) = <<g, h>>
  BY GoodFiles DEF StartSaves, Files
<1>5. /\ g \in Files /\ h \in Files
      /\ g.pending = m /\ g.started = f.started /\ g.done = f.done /\ g.dismissed = f.dismissed
      /\ h.pending = m /\ h.started = n /\ h.done = f.done /\ h.dismissed = f.dismissed
      /\ g.seen = f.seen /\ h.seen = f.seen
  BY <1>2, <1>3, GoodFiles DEF Files
<1> HIDE DEF m, n, g, h
<1>6. g \in Good /\ h \in Good
  BY <1>2, <1>3, <1>5 DEF Good, InOneOf
<1>7. \A u \in Tickets : Moved(f, g, u) \/ (u \in {t} /\ Where(g, u) = "Nowhere")
  BY <1>2, <1>5 DEF Good, InOneOf, Moved, Where, Origin
<1>8. \A u \in Tickets : Moved(f, h, u)
  BY <1>2, <1>3, <1>5 DEF Good, InOneOf, Moved, Where, Origin
<1> QED
  BY <1>4, <1>5, <1>6, <1>7, <1>8 DEF Handles

LEMMA MarkDoneHandles ==
  ASSUME NEW f \in Good, NEW t \in DOMAIN f.started
  PROVE  Handles(f, MarkDoneSaves(f, t), {t})
<1> DEFINE m == Without(f.started, {t})
           n == Put(f.done, t, f.started[t])
           g == [f EXCEPT !.started = m]
           h == [g EXCEPT !.done = n]
<1>1. t \in Tickets /\ f.started[t] \in Statuses
  BY GoodFiles, Ranged
<1>2. m \in Maps(Statuses) /\ DOMAIN m = DOMAIN f.started \ {t}
  BY GoodFiles, TakenOut
<1>3. n \in Maps(Statuses) /\ DOMAIN n = DOMAIN f.done \cup {t}
  BY <1>1, GoodFiles, PutStatus
<1>4. MarkDoneSaves(f, t) = <<g, h>>
  BY GoodFiles DEF MarkDoneSaves, Files
<1>5. /\ g \in Files /\ h \in Files
      /\ g.pending = f.pending /\ g.started = m /\ g.done = f.done /\ g.dismissed = f.dismissed
      /\ h.pending = f.pending /\ h.started = m /\ h.done = n /\ h.dismissed = f.dismissed
      /\ g.seen = f.seen /\ h.seen = f.seen
  BY <1>2, <1>3, GoodFiles DEF Files
<1> HIDE DEF m, n, g, h
<1>6. g \in Good /\ h \in Good
  BY <1>2, <1>3, <1>5 DEF Good, InOneOf
<1>7. \A u \in Tickets : Moved(f, g, u) \/ (u \in {t} /\ Where(g, u) = "Nowhere")
  BY <1>2, <1>5 DEF Good, InOneOf, Moved, Where, Origin
<1>8. \A u \in Tickets : Moved(f, h, u)
  BY <1>2, <1>3, <1>5 DEF Good, InOneOf, Moved, Where, Origin
<1> QED
  BY <1>4, <1>5, <1>6, <1>7, <1>8 DEF Handles

LEMMA ReopenHandles ==
  ASSUME NEW f \in Good, NEW t \in DOMAIN f.done
  PROVE  Handles(f, ReopenSaves(f, t), {t})
<1> DEFINE m == Without(f.done, {t})
           n == Put(f.started, t, f.done[t])
           g == [f EXCEPT !.done = m]
           h == [g EXCEPT !.started = n]
<1>1. t \in Tickets /\ f.done[t] \in Statuses
  BY GoodFiles, Ranged
<1>2. m \in Maps(Statuses) /\ DOMAIN m = DOMAIN f.done \ {t}
  BY GoodFiles, TakenOut
<1>3. n \in Maps(Statuses) /\ DOMAIN n = DOMAIN f.started \cup {t}
  BY <1>1, GoodFiles, PutStatus
<1>4. ReopenSaves(f, t) = <<g, h>>
  BY GoodFiles DEF ReopenSaves, Files
<1>5. /\ g \in Files /\ h \in Files
      /\ g.pending = f.pending /\ g.started = f.started /\ g.done = m /\ g.dismissed = f.dismissed
      /\ h.pending = f.pending /\ h.started = n /\ h.done = m /\ h.dismissed = f.dismissed
      /\ g.seen = f.seen /\ h.seen = f.seen
  BY <1>2, <1>3, GoodFiles DEF Files
<1> HIDE DEF m, n, g, h
<1>6. g \in Good /\ h \in Good
  BY <1>2, <1>3, <1>5 DEF Good, InOneOf
<1>7. \A u \in Tickets : Moved(f, g, u) \/ (u \in {t} /\ Where(g, u) = "Nowhere")
  BY <1>2, <1>5 DEF Good, InOneOf, Moved, Where, Origin
<1>8. \A u \in Tickets : Moved(f, h, u)
  BY <1>2, <1>3, <1>5 DEF Good, InOneOf, Moved, Where, Origin
<1> QED
  BY <1>4, <1>5, <1>6, <1>7, <1>8 DEF Handles

LEMMA AddHandles ==
  ASSUME NEW f \in Good, NEW t \in Tickets, NEW s \in Statuses, ~OnBoard(f, t)
  PROVE  Handles(f, AddSaves(f, t, s), {t})
<1> DEFINE n == Put(f.pending, t, s)
           g == [f EXCEPT !.pending = n]
           h == [g EXCEPT !.seen = IF f.hasSeen THEN @ \cup {t} ELSE @]
<1>1. n \in Maps(Statuses) /\ DOMAIN n = DOMAIN f.pending \cup {t}
  BY GoodFiles, PutStatus
<1>2. AddSaves(f, t, s) = <<g, h>>
  BY DEF AddSaves
<1>3. /\ g \in Files /\ h \in Files
      /\ g.pending = n /\ g.started = f.started /\ g.done = f.done /\ g.dismissed = f.dismissed
      /\ h.pending = n /\ h.started = f.started /\ h.done = f.done /\ h.dismissed = f.dismissed
      /\ f.seen \subseteq g.seen /\ f.seen \subseteq h.seen
  BY <1>1, GoodFiles DEF Files
<1> HIDE DEF n, g, h
<1>4. g \in Good /\ h \in Good
  BY <1>1, <1>3 DEF Good, InOneOf, OnBoard
<1>5. \A u \in Tickets : Moved(f, g, u) /\ Moved(f, h, u)
  BY <1>1, <1>3 DEF Good, InOneOf, OnBoard, Moved, Where, Origin
<1> QED
  BY <1>2, <1>3, <1>4, <1>5 DEF Handles

LEMMA RestoreHandles ==
  ASSUME NEW f \in Good, NEW t \in DOMAIN f.dismissed
  PROVE  Handles(f, RestoreSaves(f, t), {t})
<1> DEFINE m == Without(f.dismissed, {t})
           s == f.dismissed[t].ticket
           g == [f EXCEPT !.dismissed = m]
<1>1. t \in Tickets /\ s \in Statuses /\ f.dismissed[t].origin \in Sections
  <2>1. f.dismissed[t] \in [ticket : Statuses, origin : Sections]
    BY GoodFiles, Ranged
  <2> QED
    BY <2>1, GoodFiles, Ranged
<1>2. m \in Maps([ticket : Statuses, origin : Sections]) /\ DOMAIN m = DOMAIN f.dismissed \ {t}
      /\ \A u \in DOMAIN m : m[u] = f.dismissed[u]
  <2>1. f.dismissed \in Maps([ticket : Statuses, origin : Sections])
    BY GoodFiles
  <2>2. m \in Maps([ticket : Statuses, origin : Sections])
        /\ DOMAIN m = DOMAIN f.dismissed \ {t}
    BY <2>1, TakenOut
  <2> QED
    BY <2>2 DEF Without, Restrict
<1>3. /\ g \in Files
      /\ g.pending = f.pending /\ g.started = f.started /\ g.done = f.done /\ g.dismissed = m
      /\ g.seen = f.seen
  BY <1>2, GoodFiles DEF Files
<1>4. CASE f.dismissed[t].origin = "InProgress"
  <2> DEFINE n == Put(f.started, t, s)
             h == [g EXCEPT !.started = n]
  <2>1. n \in Maps(Statuses) /\ DOMAIN n = DOMAIN f.started \cup {t}
    BY <1>1, GoodFiles, PutStatus
  <2>2. RestoreSaves(f, t) = <<g, h>>
    BY <1>4, <1>3 DEF RestoreSaves
  <2>3. h \in Files /\ h.pending = f.pending /\ h.started = n /\ h.done = f.done /\ h.dismissed = m
        /\ h.seen = f.seen
    BY <1>2, <1>3, <2>1, GoodFiles DEF Files
  <2> HIDE DEF m, n, g, h, s
  <2>4. g \in Good /\ h \in Good
    BY <1>2, <1>3, <2>1, <2>3 DEF Good, InOneOf
  <2>5. \A u \in Tickets : Moved(f, g, u) \/ (u \in {t} /\ Where(g, u) = "Nowhere")
    BY <1>2, <1>3 DEF Good, InOneOf, Moved, Where, Origin
  <2>6. \A u \in Tickets : Moved(f, h, u)
    BY <1>4, <1>2, <2>1, <2>3 DEF Good, InOneOf, Moved, Where, Origin
  <2> QED
    BY <1>3, <2>2, <2>3, <2>4, <2>5, <2>6 DEF Handles
<1>5. CASE f.dismissed[t].origin = "Done"
  <2> DEFINE n == Put(f.done, t, s)
             h == [g EXCEPT !.done = n]
  <2>1. n \in Maps(Statuses) /\ DOMAIN n = DOMAIN f.done \cup {t}
    BY <1>1, GoodFiles, PutStatus
  <2>2. RestoreSaves(f, t) = <<g, h>>
    BY <1>5, <1>3 DEF RestoreSaves
  <2>3. h \in Files /\ h.pending = f.pending /\ h.started = f.started /\ h.done = n /\ h.dismissed = m
        /\ h.seen = f.seen
    BY <1>2, <1>3, <2>1, GoodFiles DEF Files
  <2> HIDE DEF m, n, g, h, s
  <2>4. g \in Good /\ h \in Good
    BY <1>2, <1>3, <2>1, <2>3 DEF Good, InOneOf
  <2>5. \A u \in Tickets : Moved(f, g, u) \/ (u \in {t} /\ Where(g, u) = "Nowhere")
    BY <1>2, <1>3 DEF Good, InOneOf, Moved, Where, Origin
  <2>6. \A u \in Tickets : Moved(f, h, u)
    BY <1>5, <1>2, <2>1, <2>3 DEF Good, InOneOf, Moved, Where, Origin
  <2> QED
    BY <1>3, <2>2, <2>3, <2>4, <2>5, <2>6 DEF Handles
<1>6. CASE f.dismissed[t].origin = "New"
  <2> DEFINE n == Put(f.pending, t, s)
             h == [g EXCEPT !.pending = n]
  <2>1. n \in Maps(Statuses) /\ DOMAIN n = DOMAIN f.pending \cup {t}
    BY <1>1, GoodFiles, PutStatus
  <2>2. RestoreSaves(f, t) = <<g, h>>
    BY <1>6, <1>3 DEF RestoreSaves
  <2>3. h \in Files /\ h.pending = n /\ h.started = f.started /\ h.done = f.done /\ h.dismissed = m
        /\ h.seen = f.seen
    BY <1>2, <1>3, <2>1, GoodFiles DEF Files
  <2> HIDE DEF m, n, g, h, s
  <2>4. g \in Good /\ h \in Good
    BY <1>2, <1>3, <2>1, <2>3 DEF Good, InOneOf
  <2>5. \A u \in Tickets : Moved(f, g, u) \/ (u \in {t} /\ Where(g, u) = "Nowhere")
    BY <1>2, <1>3 DEF Good, InOneOf, Moved, Where, Origin
  <2>6. \A u \in Tickets : Moved(f, h, u)
    BY <1>6, <1>2, <2>1, <2>3 DEF Good, InOneOf, Moved, Where, Origin
  <2> QED
    BY <1>3, <2>2, <2>3, <2>4, <2>5, <2>6 DEF Handles
<1> QED
  BY <1>1, <1>4, <1>5, <1>6 DEF Sections

LEMMA DismissHandles ==
  ASSUME NEW f \in Good, NEW t \in Tickets, t \notin DOMAIN f.dismissed, OnBoard(f, t)
  PROVE  Handles(f, DismissSaves(f, t), {t})
<1> DEFINE p == Without(f.pending, {t})
           s == Without(f.started, {t})
           d == Without(f.done, {t})
           from == Where(f, t)
           status == Stored(f, t)
           x == Put(f.dismissed, t, [ticket |-> status, origin |-> from])
           f1 == [f EXCEPT !.pending = p]
           f2 == [f1 EXCEPT !.started = s]
           f3 == [f2 EXCEPT !.done = d]
           f4 == [f3 EXCEPT !.dismissed = x]
<1>1. /\ p \in Maps(Statuses) /\ DOMAIN p = DOMAIN f.pending \ {t}
      /\ s \in Maps(Statuses) /\ DOMAIN s = DOMAIN f.started \ {t}
      /\ d \in Maps(Statuses) /\ DOMAIN d = DOMAIN f.done \ {t}
  BY GoodFiles, TakenOut
<1>2. /\ from \in Sections
      /\ from = "New" <=> t \in DOMAIN f.pending
      /\ from = "InProgress" <=> t \in DOMAIN f.started
      /\ from = "Done" <=> t \in DOMAIN f.done
  BY DEF Where, OnBoard, Good, InOneOf, Sections
<1>3. status \in Statuses
  <2>1. /\ \A u \in DOMAIN f.pending : f.pending[u] \in Statuses
        /\ \A u \in DOMAIN f.started : f.started[u] \in Statuses
        /\ \A u \in DOMAIN f.done : f.done[u] \in Statuses
    BY GoodFiles, Ranged
  <2> QED
    BY <2>1 DEF Stored, OnBoard
<1>4. /\ x \in Maps([ticket : Statuses, origin : Sections])
      /\ DOMAIN x = DOMAIN f.dismissed \cup {t}
      /\ x[t].origin = from
      /\ \A u \in DOMAIN f.dismissed : x[u] = f.dismissed[u]
  <2>1. [ticket |-> status, origin |-> from] \in [ticket : Statuses, origin : Sections]
    BY <1>2, <1>3
  <2>2. f.dismissed \in Maps([ticket : Statuses, origin : Sections])
    BY GoodFiles
  <2> HIDE DEF from, status
  <2>3. /\ x \in Maps([ticket : Statuses, origin : Sections])
        /\ DOMAIN x = DOMAIN f.dismissed \cup {t}
    BY <2>1, <2>2, PutDismissed
  <2> QED
    BY <2>3 DEF Put
<1>5. DismissSaves(f, t) = <<f1, f2, f3, f4>>
  <2>1. f3.dismissed = f.dismissed
    BY GoodFiles DEF Files
  <2>2. f4 = [f3 EXCEPT !.dismissed =
               CASE t \in DOMAIN f.done ->
                      Put(f.dismissed, t, [ticket |-> f.done[t], origin |-> "Done"])
                 [] t \in DOMAIN f.started ->
                      Put(f.dismissed, t, [ticket |-> f.started[t], origin |-> "InProgress"])
                 [] t \in DOMAIN f.pending ->
                      Put(f.dismissed, t, [ticket |-> f.pending[t], origin |-> "New"])
                 [] OTHER -> @]
    BY <2>1, <1>2 DEF Stored, Good, InOneOf, OnBoard, Sections
  <2> QED
    BY <2>1, <2>2 DEF DismissSaves
<1>6. /\ f1 \in Files /\ f2 \in Files /\ f3 \in Files /\ f4 \in Files
      /\ f1.pending = p /\ f1.started = f.started /\ f1.done = f.done
      /\ f2.pending = p /\ f2.started = s /\ f2.done = f.done
      /\ f3.pending = p /\ f3.started = s /\ f3.done = d
      /\ f4.pending = p /\ f4.started = s /\ f4.done = d
      /\ f1.dismissed = f.dismissed /\ f2.dismissed = f.dismissed
      /\ f3.dismissed = f.dismissed /\ f4.dismissed = x
      /\ f1.seen = f.seen /\ f2.seen = f.seen /\ f3.seen = f.seen /\ f4.seen = f.seen
  BY ZenonT(60), <1>1, <1>4, GoodFiles DEF Files
<1> HIDE DEF p, s, d, from, status, x, f1, f2, f3, f4
<1>7. f1 \in Good /\ f2 \in Good /\ f3 \in Good /\ f4 \in Good
  BY <1>1, <1>4, <1>6 DEF Good, InOneOf
<1>8. \A g \in {f1, f2, f3} : \A u \in Tickets :
        Moved(f, g, u) \/ (u \in {t} /\ Where(g, u) = "Nowhere")
  <2>1. \A u \in Tickets \ {t} : Moved(f, f1, u) /\ Moved(f, f2, u) /\ Moved(f, f3, u)
    BY <1>1, <1>6 DEF Moved, Where, Origin
  <2>2. /\ Where(f1, t) = Where(f, t) \/ Where(f1, t) = "Nowhere"
        /\ Where(f2, t) = Where(f, t) \/ Where(f2, t) = "Nowhere"
        /\ Where(f3, t) = "Nowhere"
        /\ Origin(f1, t) = Origin(f, t) /\ Origin(f2, t) = Origin(f, t)
    BY <1>1, <1>6 DEF Where, Origin, Good, InOneOf
  <2> QED
    BY <2>1, <2>2 DEF Moved
<1>9. \A u \in Tickets : Moved(f, f4, u)
  <2>1. \A u \in Tickets \ {t} : Moved(f, f4, u)
    BY <1>1, <1>4, <1>6 DEF Moved, Where, Origin
  <2>2. Where(f4, t) = "Dismissed" /\ Origin(f4, t) = from
    BY <1>1, <1>4, <1>6 DEF Where, Origin
  <2> QED
    BY <2>1, <2>2, <1>2 DEF Moved, from
<1> QED
  BY <1>5, <1>6, <1>7, <1>8, <1>9 DEF Handles

(* New details move no ticket. *)
SamePlaces(f, g) ==
  /\ \A t \in Tickets : Where(g, t) = Where(f, t) /\ Origin(g, t) = Origin(f, t)
  /\ g.seen = f.seen /\ g.hasSeen = f.hasSeen

LEMMA UpdateKeeps ==
  ASSUME NEW f \in Good, NEW live \in Maps(Statuses)
  PROVE  \E f1, f2, f3, f4 \in Good :
           /\ UpdateTicketDetails(f, live) = <<f1, f2, f3, f4>>
           /\ SamePlaces(f, f1) /\ SamePlaces(f, f2)
           /\ SamePlaces(f, f3) /\ SamePlaces(f, f4)
           /\ f4.started = ReplaceChangedTickets(f.started, live)
<1> DEFINE p == ReplaceChangedTickets(f.pending, live)
           s == ReplaceChangedTickets(f.started, live)
           d == ReplaceChangedTickets(f.done, live)
           x == [t \in DOMAIN f.dismissed |->
                   IF t \in DOMAIN live THEN [f.dismissed[t] EXCEPT !.ticket = live[t]]
                                        ELSE f.dismissed[t]]
           f1 == [f EXCEPT !.pending = p]
           f2 == [f1 EXCEPT !.started = s]
           f3 == [f2 EXCEPT !.done = d]
           f4 == [f3 EXCEPT !.dismissed = x]
<1>1. /\ p \in Maps(Statuses) /\ DOMAIN p = DOMAIN f.pending
      /\ s \in Maps(Statuses) /\ DOMAIN s = DOMAIN f.started
      /\ d \in Maps(Statuses) /\ DOMAIN d = DOMAIN f.done
  BY GoodFiles, Replaced
<1>2. /\ x \in Maps([ticket : Statuses, origin : Sections])
      /\ DOMAIN x = DOMAIN f.dismissed
      /\ \A t \in DOMAIN x : x[t].origin = f.dismissed[t].origin
  <2>1. /\ DOMAIN f.dismissed \in SUBSET Tickets
        /\ f.dismissed \in [DOMAIN f.dismissed -> [ticket : Statuses, origin : Sections]]
        /\ live \in [DOMAIN live -> Statuses]
    BY GoodFiles, Ranged
  <2>2. /\ x \in [DOMAIN f.dismissed -> [ticket : Statuses, origin : Sections]]
        /\ \A t \in DOMAIN x : x[t].origin = f.dismissed[t].origin
    BY <2>1
  <2> QED
    BY <2>1, <2>2, IsMap
<1>3. UpdateTicketDetails(f, live) = <<f1, f2, f3, f4>>
  BY GoodFiles DEF UpdateTicketDetails, Files
<1>4. /\ f1 \in Files /\ f2 \in Files /\ f3 \in Files /\ f4 \in Files
      /\ f1.pending = p /\ f1.started = f.started /\ f1.done = f.done
      /\ f2.pending = p /\ f2.started = s /\ f2.done = f.done
      /\ f3.pending = p /\ f3.started = s /\ f3.done = d
      /\ f4.pending = p /\ f4.started = s /\ f4.done = d
      /\ f1.dismissed = f.dismissed /\ f2.dismissed = f.dismissed
      /\ f3.dismissed = f.dismissed /\ f4.dismissed = x
      /\ \A g \in {f1, f2, f3, f4} : g.seen = f.seen /\ g.hasSeen = f.hasSeen
  BY <1>1, <1>2, GoodFiles DEF Files
<1> HIDE DEF p, s, d, x, f1, f2, f3, f4
<1>5. f1 \in Good /\ f2 \in Good /\ f3 \in Good /\ f4 \in Good
  BY <1>1, <1>2, <1>4 DEF Good, InOneOf
<1>6. SamePlaces(f, f1) /\ SamePlaces(f, f2) /\ SamePlaces(f, f3) /\ SamePlaces(f, f4)
  BY <1>1, <1>2, <1>4 DEF SamePlaces, Where, Origin
<1>7. f4.started = ReplaceChangedTickets(f.started, live)
  BY <1>4 DEF s
<1> QED
  BY <1>3, <1>5, <1>6, <1>7

LEMMA UpdateHandles ==
  ASSUME NEW f \in Good, NEW live \in Maps(Statuses)
  PROVE  Handles(f, UpdateTicketDetails(f, live), {})
<1>1. PICK f1, f2, f3, f4 \in Good :
        /\ UpdateTicketDetails(f, live) = <<f1, f2, f3, f4>>
        /\ SamePlaces(f, f1) /\ SamePlaces(f, f2)
        /\ SamePlaces(f, f3) /\ SamePlaces(f, f4)
  BY UpdateKeeps
<1> QED
  BY <1>1 DEF Handles, SamePlaces, Moved

LEMMA UpdateSaved ==
  ASSUME NEW f \in Good, NEW live \in Maps(Statuses), NEW g,
         g = Last(UpdateTicketDetails(f, live))
  PROVE  SamePlaces(f, g) /\ g.started = ReplaceChangedTickets(f.started, live)
<1>1. PICK f1, f2, f3, f4 \in Good :
        /\ UpdateTicketDetails(f, live) = <<f1, f2, f3, f4>>
        /\ SamePlaces(f, f1) /\ SamePlaces(f, f2)
        /\ SamePlaces(f, f3) /\ SamePlaces(f, f4)
        /\ f4.started = ReplaceChangedTickets(f.started, live)
  BY UpdateKeeps
<1>2. g = f4
  BY <1>1 DEF Last
<1> QED
  BY <1>1, <1>2

(* A poll's saves, one after the other: reopening takes the sent-back      *)
(* tickets out of Done and puts them into In progress, the update moves    *)
(* nothing, and filing adds tickets that are nowhere.                      *)
Reopened(f, g, h, live) ==
  /\ \A t \in Tickets :
       /\ \/ Where(g, t) = Where(f, t) /\ Origin(g, t) = Origin(f, t)
          \/ t \in SentBack(f, live) /\ Where(g, t) = "Nowhere"
       /\ IF t \in SentBack(f, live)
            THEN Where(f, t) = "Done" /\ Where(h, t) = "InProgress"
            ELSE Where(h, t) = Where(f, t) /\ Origin(h, t) = Origin(f, t)
  /\ \A t \in DOMAIN f.started : h.started[t] = f.started[t]
  /\ g.seen = f.seen /\ h.seen = f.seen /\ h.hasSeen = f.hasSeen

LEMMA ReopenSteps ==
  ASSUME NEW f \in Good, NEW live \in Maps(Statuses)
  PROVE  \E g, h \in Good :
           /\ ReopenSentBack(f, live) = <<g, h>>
           /\ Reopened(f, g, h, live)
<1> DEFINE B == SentBack(f, live)
           m == Without(f.done, B)
           n == PutAll(f.started, Restrict(live, B))
           g == [f EXCEPT !.done = m]
           h == [g EXCEPT !.started = n]
<1>1. B \subseteq DOMAIN f.done /\ B \subseteq DOMAIN live
  BY DEF SentBack
<1>2. m \in Maps(Statuses) /\ DOMAIN m = DOMAIN f.done \ B
  BY GoodFiles, TakenOut
<1>3. /\ n \in Maps(Statuses) /\ DOMAIN n = DOMAIN f.started \cup B
      /\ \A t \in DOMAIN f.started : n[t] = f.started[t]
  <2> HIDE DEF B
  <2>1. Restrict(live, B) \in Maps(Statuses) /\ DOMAIN Restrict(live, B) = B
    BY <1>1, Kept
  <2>2. \A t \in DOMAIN f.started : t \notin B
    BY <1>1, GoodFiles, Ranged DEF Good, InOneOf
  <2> QED
    BY <2>1, <2>2, GoodFiles, PutAllStatuses DEF PutAll
<1>4. ReopenSentBack(f, live) = <<g, h>>
  BY GoodFiles DEF ReopenSentBack, Files
<1>5. /\ g \in Files /\ h \in Files
      /\ g.pending = f.pending /\ g.started = f.started /\ g.done = m /\ g.dismissed = f.dismissed
      /\ h.pending = f.pending /\ h.started = n /\ h.done = m /\ h.dismissed = f.dismissed
      /\ g.seen = f.seen /\ h.seen = f.seen /\ h.hasSeen = f.hasSeen
  BY <1>2, <1>3, GoodFiles DEF Files
<1> HIDE DEF B, m, n, g, h
<1>6. g \in Good /\ h \in Good
  BY <1>1, <1>2, <1>3, <1>5 DEF Good, InOneOf
<1>7. \A t \in Tickets :
        \/ Where(g, t) = Where(f, t) /\ Origin(g, t) = Origin(f, t)
        \/ t \in B /\ Where(g, t) = "Nowhere"
  BY <1>1, <1>2, <1>5 DEF Good, InOneOf, Where, Origin
<1>8. \A t \in Tickets :
        IF t \in B THEN Where(f, t) = "Done" /\ Where(h, t) = "InProgress"
        ELSE Where(h, t) = Where(f, t) /\ Origin(h, t) = Origin(f, t)
  BY <1>1, <1>2, <1>3, <1>5 DEF Good, InOneOf, Where, Origin
<1>9. Reopened(f, g, h, live)
  BY <1>3, <1>5, <1>7, <1>8 DEF Reopened, B
<1> QED
  BY <1>4, <1>6, <1>9

Filed(f, g, h, live, new) ==
  /\ \A t \in Tickets :
       /\ Where(h, t) = Where(g, t) /\ Origin(h, t) = Origin(g, t)
       /\ IF t \in new THEN Where(f, t) = "Nowhere" /\ Where(g, t) = "New"
          ELSE Where(g, t) = Where(f, t) /\ Origin(g, t) = Origin(f, t)
  /\ h.started = f.started
  /\ g.seen = f.seen /\ h.seen = f.seen \cup DOMAIN live

LEMMA FileSteps ==
  ASSUME NEW f \in Good, NEW live \in Maps(Statuses), NEW new \in SUBSET DOMAIN live,
         \A t \in new : Where(f, t) = "Nowhere"
  PROVE  \E g, h \in Good :
           /\ FileNewTickets(f, live, new) = <<g, h>>
           /\ Filed(f, g, h, live, new)
<1> DEFINE n == PutAll(f.pending, Restrict(live, new))
           g == [f EXCEPT !.pending = n]
           h == [g EXCEPT !.seen = @ \cup DOMAIN live, !.hasSeen = TRUE]
<1>1. n \in Maps(Statuses) /\ DOMAIN n = DOMAIN f.pending \cup new
  <2>1. Restrict(live, new) \in Maps(Statuses) /\ DOMAIN Restrict(live, new) = new
    BY Kept
  <2> QED
    BY <2>1, GoodFiles, PutAllStatuses
<1>2. FileNewTickets(f, live, new) = <<g, h>>
  BY DEF FileNewTickets
<1>3. DOMAIN live \subseteq Tickets
  BY Ranged
<1>4. /\ g \in Files /\ h \in Files
      /\ g.pending = n /\ g.started = f.started /\ g.done = f.done /\ g.dismissed = f.dismissed
      /\ h.pending = n /\ h.started = f.started /\ h.done = f.done /\ h.dismissed = f.dismissed
      /\ g.seen = f.seen /\ h.seen = f.seen \cup DOMAIN live
  BY <1>1, <1>3, GoodFiles DEF Files
<1> HIDE DEF n, g, h
<1>5. \A t \in new : /\ t \notin DOMAIN f.pending /\ t \notin DOMAIN f.started
                     /\ t \notin DOMAIN f.done /\ t \notin DOMAIN f.dismissed
  BY DEF Where
<1>6. g \in Good /\ h \in Good
  BY <1>1, <1>4, <1>5 DEF Good, InOneOf
<1>7. \A t \in Tickets :
        /\ Where(h, t) = Where(g, t) /\ Origin(h, t) = Origin(g, t)
        /\ IF t \in new THEN Where(f, t) = "Nowhere" /\ Where(g, t) = "New"
           ELSE Where(g, t) = Where(f, t) /\ Origin(g, t) = Origin(f, t)
  BY <1>1, <1>4, <1>5 DEF Where, Origin
<1> QED
  BY <1>2, <1>4, <1>6, <1>7 DEF Filed

(* What a poll's saves leave: PollSaved for the last of them. *)
PollSaved(f, g, live) ==
  /\ \A t \in Tickets :
       IF t \in SentBack(f, live) THEN Where(f, t) = "Done" /\ Where(g, t) = "InProgress"
       ELSE \/ Where(g, t) = Where(f, t) /\ Origin(g, t) = Origin(f, t)
            \/ t \in NewTickets(f, live) /\ Where(f, t) = "Nowhere" /\ Where(g, t) = "New"
  /\ \A t \in DOMAIN f.started :
       g.started[t] = IF t \in DOMAIN live THEN live[t] ELSE f.started[t]
  /\ g.seen = f.seen \cup DOMAIN live

LEMMA PollHandles ==
  ASSUME NEW f \in Good, NEW live \in Maps(Statuses)
  PROVE  /\ Handles(f, PollSaves(f, live), SentBack(f, live))
         /\ PollSaved(f, Last(PollSaves(f, live)), live)
<1> DEFINE new == NewTickets(f, live)
           F == {g \in Good :
                   /\ f.seen \subseteq g.seen
                   /\ \A t \in Tickets :
                        \/ Moved(f, g, t)
                        \/ t \in SentBack(f, live) /\ Where(g, t) = "Nowhere"}
<1>1. PICK g1, g2 \in Good :
        ReopenSentBack(f, live) = <<g1, g2>> /\ Reopened(f, g1, g2, live)
  BY ReopenSteps
<1>2. Last(<<g1, g2>>) = g2
  BY DEF Last
<1>3. PICK g3, g4, g5, g6 \in Good :
        /\ UpdateTicketDetails(g2, live) = <<g3, g4, g5, g6>>
        /\ SamePlaces(g2, g3) /\ SamePlaces(g2, g4)
        /\ SamePlaces(g2, g5) /\ SamePlaces(g2, g6)
        /\ g6.started = ReplaceChangedTickets(g2.started, live)
  BY UpdateKeeps
<1>4. Last(<<g3, g4, g5, g6>>) = g6
  BY DEF Last
<1>5. new \subseteq DOMAIN live /\ new \subseteq Tickets
      /\ \A t \in new : Where(f, t) = "Nowhere" /\ t \notin SentBack(f, live)
  BY Ranged DEF NewTickets, OnBoard, Where, SentBack
<1>6. \A t \in new : Where(g6, t) = "Nowhere"
  BY <1>1, <1>3, <1>5 DEF SamePlaces, Reopened
<1> HIDE DEF new
<1>7. PICK g7, g8 \in Good :
        FileNewTickets(g6, live, new) = <<g7, g8>> /\ Filed(g6, g7, g8, live, new)
  BY <1>5, <1>6, FileSteps
<1>8. PollSaves(f, live) = (<<g1, g2>> \o <<g3, g4, g5, g6>>) \o <<g7, g8>>
  BY <1>1, <1>2, <1>3, <1>4, <1>7 DEF PollSaves, new
<1>9. \A t \in Tickets :
        \/ Moved(f, g1, t)
        \/ t \in SentBack(f, live) /\ Where(g1, t) = "Nowhere"
  BY <1>1 DEF Moved, Reopened
<1>10. \A t \in Tickets : \A g \in {g2, g3, g4, g5, g6} : Moved(f, g, t)
  BY <1>1, <1>3 DEF Moved, SamePlaces, Reopened
<1>11. \A t \in Tickets :
         /\ Where(g8, t) = Where(g7, t) /\ Origin(g8, t) = Origin(g7, t)
         /\ IF t \in new THEN Where(f, t) = "Nowhere" /\ Where(g7, t) = "New"
            ELSE Where(g7, t) = Where(g2, t) /\ Origin(g7, t) = Origin(g2, t)
  BY <1>3, <1>5, <1>7 DEF SamePlaces, Filed
<1>12. \A t \in Tickets : Moved(f, g7, t) /\ Moved(f, g8, t)
  BY <1>1, <1>11 DEF Moved, Reopened
<1>13. /\ \A g \in {g1, g2, g3, g4, g5, g6, g7, g8} : f.seen \subseteq g.seen
       /\ g8.seen = f.seen \cup DOMAIN live
  BY <1>1, <1>3, <1>7 DEF Reopened, SamePlaces, Filed
<1>14. \A t \in Tickets :
         IF t \in SentBack(f, live) THEN Where(f, t) = "Done" /\ Where(g8, t) = "InProgress"
         ELSE \/ Where(g8, t) = Where(f, t) /\ Origin(g8, t) = Origin(f, t)
              \/ t \in new /\ Where(f, t) = "Nowhere" /\ Where(g8, t) = "New"
  BY <1>1, <1>5, <1>11 DEF Reopened
<1>15. \A t \in DOMAIN f.started :
         g8.started[t] = IF t \in DOMAIN live THEN live[t] ELSE f.started[t]
  <2> TAKE t \in DOMAIN f.started
  <2>1. t \in DOMAIN g2.started
    <3>1. t \in Tickets /\ Where(f, t) = "InProgress" /\ t \notin SentBack(f, live)
      BY GoodFiles, Ranged DEF Good, InOneOf, Where, SentBack
    <3> QED
      BY <1>1, <3>1 DEF Reopened, Where
  <2> QED
    BY <1>1, <1>3, <1>7, <2>1 DEF Reopened, Filed, ReplaceChangedTickets
<1>16. PollSaved(f, g8, live)
  BY <1>13, <1>14, <1>15 DEF PollSaved, new
<1>17. <<g1, g2>> \in Seq(F) /\ <<g3, g4, g5, g6>> \in Seq(F) /\ <<g7, g8>> \in Seq(F)
  BY <1>9, <1>10, <1>12, <1>13
<1> HIDE DEF F
<1>18. /\ PollSaves(f, live) \in Seq(F)
       /\ Len(PollSaves(f, live)) = 8
       /\ PollSaves(f, live)[8] = g8
  <2>1. /\ <<g1, g2>> \o <<g3, g4, g5, g6>> \in Seq(F)
        /\ Len(<<g1, g2>> \o <<g3, g4, g5, g6>>) = 6
    BY <1>17, ConcatProperties
  <2> QED
    BY <1>8, <1>17, <2>1, ConcatProperties
<1>19. \A n \in 1 .. 8 : PollSaves(f, live)[n] \in F
  BY <1>18, ElementOfSeq
<1>20. PollSaves(f, live) \in Seq(Good)
  BY <1>18 DEF F
<1>21. Last(PollSaves(f, live)) = g8
  BY <1>18 DEF Last
<1> QED
  BY <1>12, <1>16, <1>18, <1>19, <1>20, <1>21 DEF F, Handles

-----------------------------------------------------------------------------
(* The steps. *)

(* What each step does to the files and what goes with them: they stay     *)
(* good, and the tickets moved along the board's moves or are among those  *)
(* dropped.                                                                *)
Stepped ==
  /\ files' \in Good
  /\ files.seen \subseteq files'.seen
  /\ faults' \in 0 .. MaxFaults
  /\ brokenOff \subseteq brokenOff' /\ brokenOff' \subseteq Tickets
  /\ \A t \in Tickets :
       Moved(files, files', t) \/ (t \in brokenOff' /\ Where(files', t) = "Nowhere")

Inv == TypeOK /\ files \in Good

(* A handler does, whether it completes or is cut short. *)
LEMMA Completed ==
  ASSUME Inv, NEW S \in SUBSET Tickets, NEW saves, Handles(files, saves, S), Complete(saves)
  PROVE  Stepped
<1>1. saves \in Seq(Good) /\ Len(saves) \in Nat /\ Len(saves) > 0
  BY LenProperties DEF Handles
<1>2. files' = saves[Len(saves)] /\ saves[Len(saves)] \in Good
  BY <1>1, ElementOfSeq DEF Complete, Last
<1>3. files.seen \subseteq files'.seen
  BY <1>1, <1>2 DEF Handles
<1>4. faults' \in 0 .. MaxFaults /\ brokenOff' = brokenOff /\ brokenOff' \subseteq Tickets
  BY DEF Complete, Inv, TypeOK
<1> QED
  BY <1>2, <1>3, <1>4 DEF Handles, Stepped

LEMMA Interrupted ==
  ASSUME Inv, NEW S \in SUBSET Tickets, NEW saves, Handles(files, saves, S), CutShort(saves, S)
  PROVE  Stepped
<1>1. saves \in Seq(Good) /\ Len(saves) \in Nat /\ Len(saves) > 0
  BY LenProperties DEF Handles
<1>2. \A n \in 1 .. Len(saves) : saves[n] \in Good
  BY <1>1, ElementOfSeq
<1>3. /\ faults' \in 0 .. MaxFaults
      /\ brokenOff \subseteq brokenOff' /\ brokenOff' \subseteq Tickets
      /\ S \subseteq brokenOff'
  <2>1. faults \in 0 .. MaxFaults /\ brokenOff \subseteq Tickets
    BY DEF Inv, TypeOK
  <2>2. MaxFaults \in Nat
    BY TicketBoardAssumption
  <2> QED
    BY <2>1, <2>2 DEF CutShort
<1>4. CASE files' = files
  BY <1>3, <1>4 DEF Inv, Moved, Stepped
<1>5. CASE \E n \in 1 .. Len(saves) - 1 : files' = saves[n]
  <2>1. PICK n \in 1 .. Len(saves) : files' = saves[n]
    BY <1>1, <1>5
  <2> QED
    BY <1>2, <1>3, <2>1 DEF Handles, Stepped
<1> QED
  BY <1>4, <1>5 DEF CutShort

LEMMA MoveStep ==
  ASSUME Inv, NEW t \in Tickets, NEW saves, Handles(files, saves, {t}), Moves(t, saves)
  PROVE  Stepped
<1>1. CASE Complete(saves)
  BY <1>1, Completed
<1>2. CASE CutShort(saves, {t})
  BY <1>2, Interrupted
<1> QED
  BY <1>1, <1>2 DEF Moves

LEMMA UserMovesStep ==
  ASSUME Inv, UserMoves
  PROVE  Stepped
<1> PICK t \in Tickets :
      Add(t) \/ Start(t) \/ MarkDone(t) \/ Reopen(t) \/ Dismiss(t) \/ Restore(t)
  BY DEF UserMoves
<1>1. CASE Add(t)
  <2>1. jira[t] \in Statuses
    BY DEF Inv, TypeOK
  <2>2. Handles(files, AddSaves(files, t, jira[t]), {t})
    BY <1>1, <2>1, AddHandles DEF Inv, Add
  <2> QED
    BY <1>1, <2>2, MoveStep DEF Add
<1>2. CASE Start(t)
  <2>1. Handles(files, StartSaves(files, t), {t})
    BY <1>2, StartHandles DEF Inv, Start
  <2> QED
    BY <1>2, <2>1, MoveStep DEF Start
<1>3. CASE MarkDone(t)
  <2>1. Handles(files, MarkDoneSaves(files, t), {t})
    BY <1>3, MarkDoneHandles DEF Inv, MarkDone
  <2> QED
    BY <1>3, <2>1, MoveStep DEF MarkDone
<1>4. CASE Reopen(t)
  <2>1. Handles(files, ReopenSaves(files, t), {t})
    BY <1>4, ReopenHandles DEF Inv, Reopen
  <2> QED
    BY <1>4, <2>1, MoveStep DEF Reopen
<1>5. CASE Dismiss(t)
  <2>1. Handles(files, DismissSaves(files, t), {t})
    BY <1>5, DismissHandles DEF Inv, Dismiss
  <2> QED
    BY <1>5, <2>1, MoveStep DEF Dismiss
<1>6. CASE Restore(t)
  <2>1. Handles(files, RestoreSaves(files, t), {t})
    BY <1>6, RestoreHandles DEF Inv, Restore
  <2> QED
    BY <1>6, <2>1, MoveStep DEF Restore
<1> QED
  BY <1>1, <1>2, <1>3, <1>4, <1>5, <1>6

LEMMA Untouched ==
  ASSUME Inv, files' = files, brokenOff' = brokenOff, faults' \in 0 .. MaxFaults
  PROVE  Stepped
BY DEF Inv, TypeOK, Moved, Stepped

(* A poll and a walk hold what they should. *)
Polls == [at : {"idle", "answered", "refreshing"}, answer : Maps(Statuses),
          keys : SUBSET Tickets, live : Maps(Statuses), new : SUBSET Tickets]
WalkOf == {w \in [at : {"idle", "walking", "refreshed"}, steps : Seq(Statuses),
                  status : Statuses \cup {""}, overtaken : BOOLEAN] :
             w.at = "refreshed" => w.status \in Statuses}

LEMMA Typed ==
  ASSUME Inv
  PROVE  /\ poll \in Polls /\ walk \in [Tickets -> WalkOf]
         /\ jira \in [Tickets -> Statuses] /\ assigned \in [Tickets -> BOOLEAN]
         /\ changes \in 0 .. MaxChanges /\ faults \in 0 .. MaxFaults
         /\ notices \in [Tickets -> Nat] /\ finished \subseteq Tickets
         /\ brokenOff \subseteq Tickets /\ files \in Good
         /\ MaxChanges \in Nat /\ MaxFaults \in Nat
BY TicketBoardAssumption DEF Inv, TypeOK, Polls, WalkOf

LEMMA NoneTyped ==
  NoPoll \in Polls /\ NoWalk \in WalkOf
<1>1. <<>> \in Maps(Statuses)
  <2>1. <<>> \in [{} -> Statuses]
    OBVIOUS
  <2> QED
    BY <2>1, IsMap
<1>2. NoPoll \in Polls
  BY <1>1 DEF NoPoll, Polls
<1>3. NoWalk \in WalkOf
  BY EmptySeq DEF NoWalk, WalkOf
<1> QED
  BY <1>2, <1>3

LEMMA PollStep ==
  ASSUME Inv, PollSteps
  PROVE  /\ Stepped
         /\ poll' \in Polls /\ notices' \in [Tickets -> Nat] /\ finished' \subseteq Tickets
<1> USE Typed, NoneTyped
<1>1. CASE PollAnswered
  <2>1. poll' \in Polls
    <3> DEFINE S == {t \in Tickets : assigned[t] /\ ~IsStatusDone(jira[t])}
    <3>1. jira \in Maps(Statuses) /\ DOMAIN jira = Tickets
      BY IsMap
    <3>2. Restrict(jira, S) \in Maps(Statuses)
      BY <3>1, Kept
    <3>3. poll' = [NoPoll EXCEPT !.at = "answered", !.answer = Restrict(jira, S)]
      BY <1>1 DEF PollAnswered
    <3> HIDE DEF S
    <3> QED
      BY <3>2, <3>3 DEF Polls
  <2>2. Stepped
    BY <1>1, Untouched DEF PollAnswered
  <2> QED
    BY <1>1, <2>1, <2>2 DEF PollAnswered
<1>2. CASE PollApplies
  <2> DEFINE new == NewTickets(files, poll.answer)
             keys == OffPollKeys(files', poll.answer)
             done == {}
  <2>1. poll.answer \in Maps(Statuses)
    BY DEF Polls
  <2>2. Stepped
    <3>1. Handles(files, PollSaves(files, poll.answer), SentBack(files, poll.answer))
      BY <2>1, PollHandles
    <3>2. SentBack(files, poll.answer) \subseteq Tickets
      BY <2>1, Ranged DEF SentBack
    <3> QED
      BY <1>2, <3>1, <3>2, Completed DEF PollApplies
  <2>3. new \subseteq Tickets
    BY <2>1, Ranged DEF NewTickets
  <2>4. keys \subseteq Tickets
    BY <2>2, GoodFiles, Ranged DEF Stepped, OffPollKeys
  <2>5. CASE PollEnds(new, {})
    BY <2>2, <2>5 DEF PollEnds
  <2>6. CASE /\ poll' = [NoPoll EXCEPT !.at = "refreshing", !.keys = keys, !.new = new]
             /\ UNCHANGED <<notices, finished>>
    <3> HIDE DEF keys, new
    <3> QED
      BY <2>2, <2>3, <2>4, <2>6 DEF Polls
  <2> QED
    BY <1>2, <2>5, <2>6 DEF PollApplies
<1>3. CASE FetchOffPoll
  <2>1. PICK t \in poll.keys :
          \/ /\ poll' = [poll EXCEPT !.keys = @ \ {t}, !.live = Put(@, t, jira[t])]
             /\ UNCHANGED faults
          \/ /\ faults < MaxFaults
             /\ faults' = faults + 1
             /\ poll' = [poll EXCEPT !.keys = @ \ {t}]
    BY <1>3 DEF FetchOffPoll
  <2>2. t \in Tickets /\ jira[t] \in Statuses /\ poll.live \in Maps(Statuses)
    BY <2>1 DEF Polls
  <2>3. Put(poll.live, t, jira[t]) \in Maps(Statuses)
    BY <2>2, PutStatus
  <2>4. poll' \in Polls
    <3> DEFINE live == Put(poll.live, t, jira[t])
               keys == poll.keys \ {t}
    <3>1. live \in Maps(Statuses) /\ keys \in SUBSET Tickets
      BY <2>3 DEF Polls
    <3>2. \/ poll' = [poll EXCEPT !.keys = keys, !.live = live]
          \/ poll' = [poll EXCEPT !.keys = keys]
      BY <2>1 DEF Polls
    <3> HIDE DEF live, keys
    <3> QED
      BY <3>1, <3>2 DEF Polls
  <2>5. faults' \in 0 .. MaxFaults
    BY <2>1
  <2> QED
    BY <1>3, <2>4, <2>5, Untouched DEF FetchOffPoll
<1>4. CASE RefreshApplies
  <2>1. poll.live \in Maps(Statuses)
    BY DEF Polls
  <2>2. Stepped
    <3>1. Handles(files, UpdateTicketDetails(files, poll.live), {})
      BY <2>1, UpdateHandles
    <3> QED
      BY <1>4, <3>1, Completed DEF RefreshApplies
  <2>3. FinishedTickets \subseteq Tickets
    BY <2>1, Ranged DEF FinishedTickets
  <2> QED
    BY <1>4, <2>2, <2>3 DEF RefreshApplies, PollEnds
<1>5. CASE PollCutShort
  <2>1. poll.answer \in Maps(Statuses) /\ poll.live \in Maps(Statuses)
    BY DEF Polls
  <2>2. CASE CutShort(PollSaves(files, poll.answer), SentBack(files, poll.answer))
    <3>1. Handles(files, PollSaves(files, poll.answer), SentBack(files, poll.answer))
      BY <2>1, PollHandles
    <3>2. SentBack(files, poll.answer) \subseteq Tickets
      BY <2>1, Ranged DEF SentBack
    <3>3. Stepped
      BY <2>2, <3>1, <3>2, Interrupted
    <3> QED
      BY <1>5, <3>3 DEF PollCutShort
  <2>3. CASE CutShort(UpdateTicketDetails(files, poll.live), {})
    <3>1. Handles(files, UpdateTicketDetails(files, poll.live), {})
      BY <2>1, UpdateHandles
    <3>2. Stepped
      BY <2>3, <3>1, Interrupted
    <3> QED
      BY <1>5, <3>2 DEF PollCutShort
  <2> QED
    BY <1>5, <2>2, <2>3 DEF PollCutShort
<1> QED
  BY <1>1, <1>2, <1>3, <1>4, <1>5 DEF PollSteps

LEMMA WalksStep ==
  ASSUME Inv, Walks
  PROVE  /\ Stepped
         /\ jira' \in [Tickets -> Statuses] /\ walk' \in [Tickets -> WalkOf]
<1> USE Typed, NoneTyped
<1> PICK t \in Tickets : WalkStarts(t) \/ WalkSteps(t) \/ WalkRefetches(t) \/ WalkApplies(t)
  BY DEF Walks
<1>0. /\ walk[t] \in WalkOf /\ jira[t] \in Statuses
      /\ walk[t].steps \in Seq(Statuses) /\ <<>> \in Seq(Statuses)
  <2>1. walk[t] \in WalkOf /\ jira[t] \in Statuses
    OBVIOUS
  <2>2. walk[t].steps \in Seq(Statuses)
    BY <2>1 DEF WalkOf
  <2> QED
    BY <2>1, <2>2, EmptySeq
<1>1. CASE WalkStarts(t)
  <2>1. PICK steps \in {GetStepsToReadyToTest(jira[t]), <<>>} :
          walk' = [walk EXCEPT ![t] = [NoWalk EXCEPT !.at = "walking", !.steps = steps]]
    BY <1>1 DEF WalkStarts
  <2>2. steps \in Seq(Statuses)
    BY <1>0, <2>1, TicketBoardAssumption
  <2>3. [NoWalk EXCEPT !.at = "walking", !.steps = steps] \in WalkOf
    BY <2>2 DEF WalkOf
  <2> QED
    BY <1>1, <2>1, <2>3, Untouched DEF WalkStarts
<1>2. CASE WalkSteps(t)
  <2>1. walk[t].steps # <<>>
    BY <1>2 DEF WalkSteps
  <2>2. Head(walk[t].steps) \in Statuses /\ Tail(walk[t].steps) \in Seq(Statuses)
    BY <1>0, <2>1, HeadTailProperties
  <2>3. jira' \in [Tickets -> Statuses]
    BY <1>2, <2>2 DEF WalkSteps
  <2>4. PICK rest \in {Tail(walk[t].steps), <<>>} : walk' = [walk EXCEPT ![t].steps = rest]
    BY <1>2 DEF WalkSteps
  <2>5. rest \in Seq(Statuses) /\ walk[t].at = "walking"
    BY <1>0, <1>2, <2>2, <2>4 DEF WalkSteps
  <2>6. [walk[t] EXCEPT !.steps = rest] \in WalkOf
    BY <1>0, <2>5 DEF WalkOf
  <2>7. walk' \in [Tickets -> WalkOf]
    BY <2>4, <2>6
  <2> QED
    BY <1>2, <2>3, <2>7, Untouched DEF WalkSteps
<1>3. CASE WalkRefetches(t)
  <2>1. [NoWalk EXCEPT !.at = "refreshed", !.status = jira[t]] \in WalkOf
    BY <1>0 DEF WalkOf
  <2> QED
    BY <1>3, <2>1, Untouched DEF WalkRefetches
<1>4. CASE WalkApplies(t)
  <2> DEFINE live == [u \in {t} |-> walk[t].status]
  <2>1. walk[t].status \in Statuses
    BY <1>0, <1>4 DEF WalkApplies, WalkOf
  <2>2. live \in Maps(Statuses)
    <3>1. live \in [{t} -> Statuses]
      BY <2>1
    <3> QED
      BY <3>1, IsMap
  <2>3. Complete(UpdateTicketDetails(files, live)) \/ CutShort(UpdateTicketDetails(files, live), {})
    BY <1>4 DEF WalkApplies
  <2> HIDE DEF live
  <2>4. Handles(files, UpdateTicketDetails(files, live), {})
    BY <2>2, UpdateHandles
  <2>5. Stepped
    BY <2>3, <2>4, Completed, Interrupted
  <2> QED
    BY <1>4, <2>5 DEF WalkApplies
<1> QED
  BY <1>1, <1>2, <1>3, <1>4

LEMMA InitGood ==
  Init => Inv
<1> SUFFICES ASSUME Init PROVE Inv
  OBVIOUS
<1>1. <<>> \in Maps(Statuses) /\ <<>> \in Maps([ticket : Statuses, origin : Sections])
  <2>1. <<>> \in [{} -> Statuses] /\ <<>> \in [{} -> [ticket : Statuses, origin : Sections]]
    OBVIOUS
  <2> QED
    BY <2>1, IsMap
<1>2. files \in Good
  BY <1>1 DEF Init, Good, Files, InOneOf
<1>3. poll \in Polls /\ walk \in [Tickets -> WalkOf]
  BY NoneTyped DEF Init
<1>4. /\ jira \in [Tickets -> Statuses] /\ assigned \in [Tickets -> BOOLEAN]
      /\ changes \in 0 .. MaxChanges /\ faults \in 0 .. MaxFaults
      /\ notices \in [Tickets -> Nat]
      /\ finished \subseteq Tickets /\ brokenOff \subseteq Tickets
  BY TicketBoardAssumption DEF Init
<1> QED
  BY <1>2, <1>3, <1>4 DEF Inv, TypeOK, Good, Polls, WalkOf

LEMMA NextGood ==
  ASSUME Inv, [Next]_vars
  PROVE  Inv' /\ Stepped
<1> USE Typed, NoneTyped
<1>0. ASSUME Stepped,
             poll' \in Polls, walk' \in [Tickets -> WalkOf],
             jira' \in [Tickets -> Statuses], assigned' \in [Tickets -> BOOLEAN],
             changes' \in 0 .. MaxChanges, notices' \in [Tickets -> Nat],
             finished' \subseteq Tickets
      PROVE  Inv' /\ Stepped
  BY <1>0 DEF Stepped, Inv, TypeOK, Good, Polls, WalkOf
<1>1. CASE UserMoves
  <2>1. UNCHANGED <<jira, assigned, poll, walk, changes, notices, finished>>
    BY <1>1 DEF UserMoves, Add, Start, MarkDone, Reopen, Dismiss, Restore, Moves
  <2> QED
    BY <1>0, <1>1, <2>1, UserMovesStep
<1>2. CASE PollSteps
  <2>1. UNCHANGED <<jira, assigned, walk, changes>>
    BY <1>2 DEF PollSteps, PollAnswered, PollApplies, FetchOffPoll, RefreshApplies, PollCutShort
  <2> QED
    BY <1>0, <1>2, <2>1, PollStep
<1>3. CASE Walks
  <2>1. UNCHANGED <<assigned, poll, changes, notices, finished>>
    BY <1>3 DEF Walks, WalkStarts, WalkSteps, WalkRefetches, WalkApplies, WalkOnly
  <2> QED
    BY <1>0, <1>3, <2>1, WalksStep
<1>4. CASE JiraChanges
  <2>1. /\ changes' \in 0 .. MaxChanges
        /\ UNCHANGED <<files, poll, faults, notices, finished, brokenOff>>
    BY <1>4 DEF JiraChanges
  <2>2. PICK t \in Tickets : JiraMoves(t) \/ JiraAssigns(t)
    BY <1>4 DEF JiraChanges
  <2>3. jira' \in [Tickets -> Statuses] /\ assigned' \in [Tickets -> BOOLEAN]
    BY ZenonT(60), <2>2 DEF JiraMoves, JiraAssigns
  <2>4. walk' \in [Tickets -> WalkOf]
    <3>1. \A b \in BOOLEAN : [walk[t] EXCEPT !.overtaken = b] \in WalkOf
      BY DEF WalkOf
    <3> QED
      BY <2>2, <3>1 DEF JiraMoves, JiraAssigns
  <2>5. Stepped
    BY <2>1, Untouched
  <2> QED
    BY <1>0, <2>1, <2>3, <2>4, <2>5
<1>5. CASE Crash
  <2>1. Stepped
    BY <1>5, Untouched DEF Crash
  <2> QED
    BY <1>0, <1>5, <2>1 DEF Crash
<1>6. CASE UNCHANGED vars
  <2>1. Stepped
    BY <1>6, Untouched DEF vars
  <2> QED
    BY <1>0, <1>6, <2>1 DEF vars
<1> QED
  BY <1>1, <1>2, <1>3, <1>4, <1>5, <1>6 DEF Next

-----------------------------------------------------------------------------
(* The variables keep their types, for every set of tickets and statuses. *)
THEOREM BoardTypeCorrect == Spec => []TypeOK
<1>1. Inv => TypeOK
  BY DEF Inv
<1> QED
  BY <1>1, InitGood, NextGood, PTL DEF Spec

(* No ticket is ever in two lists: neither a failed save, nor a crash, nor *)
(* what the user moved while the poll or the walk awaited Jira, can put it *)
(* there.                                                                  *)
THEOREM OneListEver == Spec => []OneList
<1>1. Inv => OneList
  BY DEF Inv, Good, OneList
<1> QED
  BY <1>1, InitGood, NextGood, PTL DEF Spec

(* Good steps keep the promise. *)
LEMMA InitPromise ==
  Init => Promise!Init
BY DEF Init, Promise!Init, Where, Origin

LEMMA SteppedPromise ==
  Stepped => Promise!Next
<1> SUFFICES ASSUME Stepped
             PROVE  Promise!Next
  OBVIOUS
<1>1. brokenOff \subseteq brokenOff'
  BY DEF Stepped
<1>2. ASSUME NEW t \in Tickets
      PROVE  \/ Promise!Stay(t) \/ Promise!Arrive(t) \/ Promise!Start(t)
             \/ Promise!MarkDone(t) \/ Promise!Reopen(t) \/ Promise!Dismiss(t)
             \/ Promise!Restore(t) \/ Promise!Drop(t)
  <2>1. CASE Moved(files, files', t)
    BY <2>1 DEF Moved, Sections, Promise!Goes, Promise!Lists, Promise!Stay, Promise!Arrive,
                Promise!Start, Promise!MarkDone, Promise!Reopen, Promise!Dismiss, Promise!Restore
  <2>2. CASE t \in brokenOff' /\ Where(files', t) = "Nowhere"
    BY <2>2 DEF Promise!Drop
  <2> QED
    BY <2>1, <2>2 DEF Stepped
<1> QED
  BY <1>1, <1>2 DEF Promise!Next

(* The board implements its promise: whatever is interleaved with the poll *)
(* and the walks, tickets go along the board's moves only, and none is     *)
(* dropped but one whose move was cut short between two saves.             *)
THEOREM BoardKeepsPromise == Spec => KeepsPromise
<1>1. Inv /\ [Next]_vars => [Promise!Next]_(Promise!vars)
  BY NextGood, SteppedPromise
<1> QED
  BY <1>1, InitPromise, InitGood, NextGood, PTL DEF Spec, KeepsPromise, Promise!Spec

-----------------------------------------------------------------------------
(* What a poll and a walk hold.  A poll has tickets to fetch and to tell   *)
(* of only while it fetches, and nothing is told as done meanwhile; no     *)
(* answer is done in Jira; what is to be told was never told, though it is *)
(* seen already, and what was told is seen, so it is never new again.      *)
PollHolds(p, f, told, done) ==
  /\ p.at # "refreshing" => p.keys = {} /\ p.new = {}
  /\ p.at # "idle" => done = {}
  /\ \A t \in DOMAIN p.answer : ~IsStatusDone(p.answer[t])
  /\ \A t \in p.new : t \in f.seen /\ told[t] = 0
  /\ \A t \in Tickets : told[t] \in {0, 1} /\ (told[t] = 1 => t \in f.seen)

(* A walk that is not overtaken has the steps of the status in Jira left.  *)
WalkHolds(w, status) ==
  w.steps # <<>> =>
    /\ w.at = "walking"
    /\ w.overtaken = TRUE \/ w.steps = GetStepsToReadyToTest(status)

Holds ==
  /\ PollHolds(poll, files, notices, finished)
  /\ \A t \in Tickets : WalkHolds(walk[t], jira[t])

LEMMA InitHolds ==
  Init => Holds
<1> SUFFICES ASSUME Init PROVE Holds
  OBVIOUS
<1>1. PollHolds(poll, files, notices, finished)
  BY DEF Init, PollHolds, NoPoll
<1>2. \A t \in Tickets : walk[t].steps = <<>>
  BY DEF Init, NoWalk
<1> QED
  BY <1>1, <1>2 DEF Holds, WalkHolds

LEMMA PollEndsHolds ==
  ASSUME Inv, NEW new \in SUBSET files'.seen, NEW done, files.seen \subseteq files'.seen,
         \A t \in Tickets : notices[t] \in {0, 1} /\ (notices[t] = 1 => t \in files.seen),
         \A t \in new : notices[t] = 0,
         PollEnds(new, done)
  PROVE  PollHolds(poll', files', notices', finished')
<1>1. \A t \in Tickets : notices'[t] = IF t \in new THEN notices[t] + 1 ELSE notices[t]
  BY DEF PollEnds
<1>2. \A t \in Tickets : notices'[t] \in {0, 1} /\ (notices'[t] = 1 => t \in files'.seen)
  BY <1>1
<1>3. poll' = NoPoll
  BY DEF PollEnds
<1> QED
  BY <1>2, <1>3 DEF PollHolds, NoPoll

(* The tickets a poll finds new were never told of, and are seen once its  *)
(* saves are made.                                                         *)
LEMMA AppliesHolds ==
  ASSUME Inv, Holds, Stepped, PollApplies
  PROVE  PollHolds(poll', files', notices', finished')
<1> DEFINE new == NewTickets(files, poll.answer)
           keys == OffPollKeys(files', poll.answer)
<1>1. poll.answer \in Maps(Statuses) /\ files \in Good
  BY Typed DEF Polls, Inv
<1>2. PollSaved(files, files', poll.answer)
  BY <1>1, PollHandles DEF PollApplies, Complete
<1>3. new \subseteq files'.seen /\ new \subseteq Tickets /\ \A t \in new : t \notin files.seen
  BY <1>1, <1>2, Ranged DEF PollSaved, NewTickets
<1>4. /\ \A t \in Tickets : notices[t] \in {0, 1} /\ (notices[t] = 1 => t \in files.seen)
      /\ finished = {} /\ files.seen \subseteq files'.seen
  BY DEF Holds, PollHolds, PollApplies, Stepped
<1>5. \A t \in new : notices[t] = 0
  BY <1>3, <1>4
<1>6. \/ PollEnds(new, {})
      \/ /\ poll' = [NoPoll EXCEPT !.at = "refreshing", !.keys = keys, !.new = new]
         /\ UNCHANGED <<notices, finished>>
  BY DEF PollApplies
<1> HIDE DEF new, keys
<1>7. CASE PollEnds(new, {})
  BY <1>3, <1>4, <1>5, <1>7, PollEndsHolds
<1>8. CASE /\ poll' = [NoPoll EXCEPT !.at = "refreshing", !.keys = keys, !.new = new]
           /\ UNCHANGED <<notices, finished>>
  BY <1>3, <1>4, <1>5, <1>8 DEF PollHolds, NoPoll
<1> QED
  BY <1>6, <1>7, <1>8

LEMMA PollsHold ==
  ASSUME Inv, Holds, Stepped, [Next]_vars
  PROVE  PollHolds(poll', files', notices', finished')
<1> USE DEF Holds
<1>1. files.seen \subseteq files'.seen
  BY DEF Stepped
<1>2. ASSUME UNCHANGED <<poll, notices, finished>>
      PROVE  PollHolds(poll', files', notices', finished')
  BY <1>1, <1>2 DEF PollHolds
<1>3. ASSUME poll' = NoPoll, UNCHANGED <<notices, finished>>
      PROVE  PollHolds(poll', files', notices', finished')
  BY <1>1, <1>3 DEF PollHolds, NoPoll
<1>4. CASE UserMoves
  BY <1>2, <1>4 DEF UserMoves, Add, Start, MarkDone, Reopen, Dismiss, Restore, Moves
<1>5. CASE PollAnswered
  <2> DEFINE S == {t \in Tickets : assigned[t] /\ ~IsStatusDone(jira[t])}
  <2>1. DOMAIN Restrict(jira, S) = S /\ \A t \in S : ~IsStatusDone(Restrict(jira, S)[t])
    BY DEF Restrict
  <2>2. poll' = [NoPoll EXCEPT !.at = "answered", !.answer = Restrict(jira, S)]
    BY <1>5 DEF PollAnswered
  <2> HIDE DEF S
  <2> QED
    BY <1>1, <1>5, <2>1, <2>2 DEF PollAnswered, PollHolds, NoPoll
<1>6. CASE PollApplies
  BY <1>6, AppliesHolds
<1>7. CASE FetchOffPoll
  <2>1. PICK t \in poll.keys :
          \/ poll' = [poll EXCEPT !.keys = @ \ {t}, !.live = Put(@, t, jira[t])]
          \/ poll' = [poll EXCEPT !.keys = @ \ {t}]
    BY <1>7 DEF FetchOffPoll
  <2>2. poll \in Polls
    BY Typed
  <2>3. poll'.at = poll.at /\ poll'.answer = poll.answer /\ poll'.new = poll.new
    BY <2>1, <2>2 DEF Polls
  <2>4. poll.at = "refreshing"
    BY <2>1 DEF PollHolds
  <2> QED
    BY <1>7, <2>3, <2>4 DEF FetchOffPoll, PollHolds
<1>8. CASE RefreshApplies
  BY <1>1, <1>8, PollEndsHolds DEF RefreshApplies, PollHolds
<1>9. CASE PollCutShort
  BY <1>3, <1>9 DEF PollCutShort
<1>10. CASE Walks
  BY <1>2, <1>10 DEF Walks, WalkStarts, WalkSteps, WalkRefetches, WalkApplies, WalkOnly
<1>11. CASE JiraChanges
  BY <1>2, <1>11 DEF JiraChanges
<1>12. CASE Crash
  BY <1>3, <1>12 DEF Crash
<1>13. CASE UNCHANGED vars
  BY <1>2, <1>13 DEF vars
<1> QED
  BY <1>4, <1>5, <1>6, <1>7, <1>8, <1>9, <1>10, <1>11, <1>12, <1>13 DEF Next, PollSteps

LEMMA HeadAndTail ==
  ASSUME NEW x, NEW y
  PROVE  /\ Head(<<x, y>>) = x /\ Tail(<<x, y>>) = <<y>>
         /\ Head(<<x>>) = x /\ Tail(<<x>>) = <<>>
OBVIOUS

(* A transition leaves the steps of the status it leads to. *)
LEMMA StepsLeft ==
  ASSUME NEW status, GetStepsToReadyToTest(status) # <<>>
  PROVE  /\ Tail(GetStepsToReadyToTest(status))
              = GetStepsToReadyToTest(Head(GetStepsToReadyToTest(status)))
         /\ Rank(Head(GetStepsToReadyToTest(status))) > Rank(status)
<1> DEFINE first == Head(GetStepsToReadyToTest(status))
           rest == Tail(GetStepsToReadyToTest(status))
<1>1. /\ GetStepsToReadyToTest("PR & Code Review") = <<"Deployed to Dev", "Ready to Test">>
      /\ GetStepsToReadyToTest("Deployed to Dev") = <<"Ready to Test">>
      /\ GetStepsToReadyToTest("Ready to Test") = <<>>
  BY DEF GetStepsToReadyToTest
<1>2. /\ Rank("PR & Code Review") = 1
      /\ Rank("Deployed to Dev") = 2
      /\ Rank("Ready to Test") = 3
  BY DEF Rank, IsStatusDone, DoneStatuses
<1>3. CASE status = "PR & Code Review"
  <2>1. first = "Deployed to Dev" /\ rest = <<"Ready to Test">>
    BY <1>1, <1>3, HeadAndTail
  <2> HIDE DEF first, rest
  <2>2. rest = GetStepsToReadyToTest(first)
    BY <1>1, <2>1
  <2>3. Rank(first) = 2 /\ Rank(status) = 1
    BY <1>2, <1>3, <2>1
  <2>4. Rank(first) > Rank(status)
    BY <2>3
  <2> QED
    BY <2>2, <2>4 DEF first, rest
<1>4. CASE status = "Deployed to Dev"
  <2>1. first = "Ready to Test" /\ rest = <<>>
    BY <1>1, <1>4, HeadAndTail
  <2> HIDE DEF first, rest
  <2>2. rest = GetStepsToReadyToTest(first)
    BY <1>1, <2>1
  <2>3. Rank(first) = 3 /\ Rank(status) = 2
    BY <1>2, <1>4, <2>1
  <2>4. Rank(first) > Rank(status)
    BY <2>3
  <2> QED
    BY <2>2, <2>4 DEF first, rest
<1> QED
  BY <1>3, <1>4 DEF GetStepsToReadyToTest

LEMMA WalksHold ==
  ASSUME Inv, Holds, [Next]_vars
  PROVE  \A t \in Tickets : WalkHolds(walk'[t], jira'[t])
<1> USE Typed DEF Holds
<1>1. ASSUME UNCHANGED <<jira, walk>>
      PROVE  \A t \in Tickets : WalkHolds(walk'[t], jira'[t])
  BY <1>1
<1>2. CASE UserMoves
  BY <1>1, <1>2 DEF UserMoves, Add, Start, MarkDone, Reopen, Dismiss, Restore, Moves
<1>3. CASE PollSteps
  BY <1>1, <1>3 DEF PollSteps, PollAnswered, PollApplies, FetchOffPoll, RefreshApplies, PollCutShort
<1>4. ASSUME NEW t \in Tickets, WalkStarts(t) \/ WalkSteps(t) \/ WalkRefetches(t) \/ WalkApplies(t)
      PROVE  \A u \in Tickets : WalkHolds(walk'[u], jira'[u])
  <2>1. /\ walk[t] \in WalkOf /\ walk' \in [Tickets -> WalkOf] /\ jira' \in [Tickets -> Statuses]
        /\ \A u \in Tickets \ {t} : walk'[u] = walk[u] /\ jira'[u] = jira[u]
    <3>1. walk' \in [Tickets -> WalkOf] /\ jira' \in [Tickets -> Statuses]
      BY <1>4, WalksStep DEF Walks
    <3> QED
      BY <1>4, <3>1 DEF WalkStarts, WalkSteps, WalkRefetches, WalkApplies
  <2>2. CASE WalkStarts(t)
    <3>1. PICK steps \in {GetStepsToReadyToTest(jira[t]), <<>>} :
            walk'[t] = [NoWalk EXCEPT !.at = "walking", !.steps = steps]
      BY <2>2 DEF WalkStarts
    <3> QED
      BY <2>1, <2>2, <3>1 DEF WalkStarts, WalkHolds, NoWalk
  <2>3. CASE WalkSteps(t)
    <3>1. CASE walk' = [walk EXCEPT ![t].steps = <<>>]
      <4>1. walk'[t] = [walk[t] EXCEPT !.steps = <<>>]
        BY <3>1
      <4>2. WalkHolds(walk'[t], jira'[t])
        BY <2>1, <4>1 DEF WalkHolds, WalkOf
      <4> QED
        BY <2>1, <4>2
    <3>2. CASE /\ jira' = [jira EXCEPT ![t] = Head(walk[t].steps)]
               /\ walk' = [walk EXCEPT ![t].steps = Tail(walk[t].steps)]
      <4>1. /\ walk'[t] = [walk[t] EXCEPT !.steps = Tail(walk[t].steps)]
            /\ jira'[t] = Head(walk[t].steps)
        BY <3>2
      <4>2. walk'[t].at = "walking" /\ walk'[t].overtaken = walk[t].overtaken
            /\ walk'[t].steps = Tail(walk[t].steps) /\ walk[t].steps # <<>>
        BY <2>1, <2>3, <4>1 DEF WalkSteps, WalkOf
      <4>3. walk[t].overtaken = TRUE \/ walk[t].steps = GetStepsToReadyToTest(jira[t])
        BY <4>2 DEF WalkHolds
      <4>4. ASSUME walk[t].steps = GetStepsToReadyToTest(jira[t])
            PROVE  walk'[t].steps = GetStepsToReadyToTest(jira'[t])
        BY <4>1, <4>2, <4>4, StepsLeft
      <4>5. WalkHolds(walk'[t], jira'[t])
        BY <4>2, <4>3, <4>4 DEF WalkHolds
      <4> QED
        BY <2>1, <4>5
    <3> QED
      BY <2>3, <3>1, <3>2 DEF WalkSteps
  <2>4. CASE WalkRefetches(t) \/ WalkApplies(t)
    <3>1. walk'[t] = NoWalk \/ walk'[t] = [NoWalk EXCEPT !.at = "refreshed", !.status = jira[t]]
      BY <2>4 DEF WalkRefetches, WalkApplies
    <3>2. NoWalk.steps = <<>> /\ [NoWalk EXCEPT !.at = "refreshed", !.status = jira[t]].steps = <<>>
      BY DEF NoWalk
    <3> QED
      BY <2>1, <3>1, <3>2 DEF WalkHolds
  <2> QED
    BY <1>4, <2>2, <2>3, <2>4
<1>5. CASE JiraChanges
  <2>1. PICK t \in Tickets : JiraMoves(t) \/ JiraAssigns(t)
    BY <1>5 DEF JiraChanges
  <2>2. CASE JiraAssigns(t)
    BY <1>1, <2>2 DEF JiraAssigns
  <2>3. CASE JiraMoves(t)
    <3>1. walk[t] \in WalkOf
      OBVIOUS
    <3>2. walk'[t] = [walk[t] EXCEPT !.overtaken = walk[t].at = "walking" /\ walk[t].steps # <<>>]
      BY <2>3 DEF JiraMoves
    <3>3. WalkHolds(walk'[t], jira'[t])
      BY <3>1, <3>2 DEF WalkHolds, WalkOf
    <3>4. \A u \in Tickets \ {t} : walk'[u] = walk[u] /\ jira'[u] = jira[u]
      BY <2>3 DEF JiraMoves
    <3> QED
      BY <3>3, <3>4
  <2> QED
    BY <2>1, <2>2, <2>3
<1>6. CASE Crash
  BY <1>6 DEF Crash, WalkHolds, NoWalk
<1>7. CASE UNCHANGED vars
  BY <1>1, <1>7 DEF vars
<1> QED
  BY <1>2, <1>3, <1>4, <1>5, <1>6, <1>7 DEF Next, Walks

LEMMA NextHolds ==
  ASSUME Inv, Holds, [Next]_vars
  PROVE  Holds'
BY NextGood, PollsHold, WalksHold DEF Holds

(* What a step of the board never does. *)
PollMoves ==
  poll' # poll /\ faults' = faults =>
    \A t \in Tickets :
      LET was == Where(files, t)
          now == Where(files', t)
          told == poll.at = "answered" /\ t \in DOMAIN poll.answer
      IN  IF told /\ was = "Done" /\ IsSentBack(files.done[t], poll.answer[t])
          THEN now = "InProgress"
          ELSE \/ now = was
               \/ /\ told /\ files.hasSeen /\ t \notin files.seen
                  /\ was = "Nowhere" /\ now = "New"

PollReports ==
  poll' # poll /\ faults' = faults =>
    /\ finished' \subseteq DOMAIN files'.started
    /\ \A t \in DOMAIN files.started \cap DOMAIN files'.started :
         ~IsStatusDone(files.started[t]) /\ IsStatusDone(files'.started[t])
           => t \in finished'

WalkMoves ==
  changes' = changes =>
    \A t \in Tickets : jira'[t] # jira[t] /\ ~walk[t].overtaken
      => Rank(jira'[t]) > Rank(jira[t])

(* Only the poll's own steps change it without a fault. *)
LEMMA PollChanges ==
  ASSUME Inv, [Next]_vars, poll' # poll, faults' = faults
  PROVE  PollAnswered \/ PollApplies \/ FetchOffPoll \/ RefreshApplies
<1>1. ~(\E n \in Nat : faults = n /\ faults' = n + 1)
  OBVIOUS
<1>2. faults \in Nat
  <2>1. faults \in 0 .. MaxFaults
    BY Typed
  <2> QED
    BY <2>1, TicketBoardAssumption
<1>3. ~Crash /\ ~PollCutShort
  BY <1>1, <1>2 DEF Crash, PollCutShort, CutShort
<1>4. ~UserMoves /\ ~Walks /\ ~JiraChanges /\ ~UNCHANGED vars
  BY DEF UserMoves, Add, Start, MarkDone, Reopen, Dismiss, Restore, Moves, Walks, WalkStarts,
         WalkSteps, WalkRefetches, WalkApplies, WalkOnly, JiraChanges, vars
<1> QED
  BY <1>3, <1>4 DEF Next, PollSteps

LEMMA PollMovesStep ==
  ASSUME Inv, Holds, [Next]_vars
  PROVE  PollMoves
<1> SUFFICES ASSUME poll' # poll, faults' = faults, NEW t \in Tickets
             PROVE  LET was == Where(files, t)
                        now == Where(files', t)
                        told == poll.at = "answered" /\ t \in DOMAIN poll.answer
                    IN  IF told /\ was = "Done" /\ IsSentBack(files.done[t], poll.answer[t])
                        THEN now = "InProgress"
                        ELSE \/ now = was
                             \/ /\ told /\ files.hasSeen /\ t \notin files.seen
                                /\ was = "Nowhere" /\ now = "New"
  BY DEF PollMoves
<1>1. CASE PollAnswered
  BY <1>1 DEF PollAnswered
<1>2. CASE FetchOffPoll
  <2>1. poll.at # "answered" /\ files' = files
    BY <1>2 DEF FetchOffPoll, Holds, PollHolds
  <2> QED
    BY <2>1
<1>3. CASE RefreshApplies
  <2>1. poll.live \in Maps(Statuses) /\ files \in Good
    BY Typed DEF Polls, Inv
  <2>2. SamePlaces(files, files')
    BY <1>3, <2>1, UpdateSaved DEF RefreshApplies, Complete
  <2> QED
    BY <1>3, <2>2 DEF RefreshApplies, SamePlaces
<1>4. CASE PollApplies
  <2>1. poll.answer \in Maps(Statuses) /\ files \in Good
    BY Typed DEF Polls, Inv
  <2>2. PollSaved(files, files', poll.answer)
    BY <1>4, <2>1, PollHandles DEF PollApplies, Complete
  <2>3. poll.at = "answered"
    BY <1>4 DEF PollApplies
  <2>4. Where(files, t) = "Done" <=> t \in DOMAIN files.done
    BY <2>1 DEF Good, InOneOf, Where
  <2>5. CASE t \in SentBack(files, poll.answer)
    BY <2>2, <2>3, <2>4, <2>5 DEF PollSaved, SentBack
  <2>6. CASE t \notin SentBack(files, poll.answer)
    BY <2>2, <2>3, <2>4, <2>6 DEF PollSaved, SentBack, NewTickets
  <2> QED
    BY <2>5, <2>6
<1> QED
  BY <1>1, <1>2, <1>3, <1>4, PollChanges

LEMMA PollReportsStep ==
  ASSUME Inv, Holds, [Next]_vars
  PROVE  PollReports
<1> SUFFICES ASSUME poll' # poll, faults' = faults
             PROVE  /\ finished' \subseteq DOMAIN files'.started
                    /\ \A t \in DOMAIN files.started \cap DOMAIN files'.started :
                         ~IsStatusDone(files.started[t]) /\ IsStatusDone(files'.started[t])
                           => t \in finished'
  BY DEF PollReports
<1>1. CASE PollAnswered
  BY <1>1 DEF PollAnswered
<1>2. CASE FetchOffPoll
  BY <1>2 DEF FetchOffPoll, Holds, PollHolds
<1>3. CASE RefreshApplies
  <2>1. poll.live \in Maps(Statuses) /\ files \in Good
    BY Typed DEF Polls, Inv
  <2>2. files'.started = ReplaceChangedTickets(files.started, poll.live)
    BY <1>3, <2>1, UpdateSaved DEF RefreshApplies, Complete
  <2>3. finished' = FinishedTickets
    BY <1>3 DEF RefreshApplies, PollEnds
  <2> QED
    BY <2>2, <2>3 DEF FinishedTickets, ReplaceChangedTickets
<1>4. CASE PollApplies
  <2>1. poll.answer \in Maps(Statuses) /\ files \in Good
    BY Typed DEF Polls, Inv
  <2>2. PollSaved(files, files', poll.answer)
    BY <1>4, <2>1, PollHandles DEF PollApplies, Complete
  <2>3. finished' = {} /\ \A t \in DOMAIN poll.answer : ~IsStatusDone(poll.answer[t])
    BY <1>4 DEF PollApplies, PollEnds, Holds, PollHolds
  <2> QED
    BY <2>2, <2>3 DEF PollSaved
<1> QED
  BY <1>1, <1>2, <1>3, <1>4, PollChanges

LEMMA WalkMovesStep ==
  ASSUME Inv, Holds, [Next]_vars
  PROVE  WalkMoves
<1> SUFFICES ASSUME changes' = changes, NEW t \in Tickets, jira'[t] # jira[t], ~walk[t].overtaken
             PROVE  Rank(jira'[t]) > Rank(jira[t])
  BY DEF WalkMoves
<1>1. changes' # changes + 1
  <2>1. changes \in 0 .. MaxChanges
    BY Typed
  <2> QED
    BY <2>1, TicketBoardAssumption
<1>2. jira' # jira
  OBVIOUS
<1>3. ~UserMoves
  BY <1>2 DEF UserMoves, Add, Start, MarkDone, Reopen, Dismiss, Restore, Moves
<1>4. ~PollSteps
  BY <1>2 DEF PollSteps, PollAnswered, PollApplies, FetchOffPoll, RefreshApplies, PollCutShort
<1>5. ~JiraChanges /\ ~Crash /\ ~UNCHANGED vars
  BY <1>1, <1>2 DEF JiraChanges, Crash, vars
<1>6. PICK u \in Tickets : WalkSteps(u)
  BY <1>2, <1>3, <1>4, <1>5 DEF Next, Walks, WalkStarts, WalkRefetches, WalkApplies
<1>7. jira' = [jira EXCEPT ![u] = Head(walk[u].steps)] /\ walk[u].steps # <<>>
  BY <1>2, <1>6 DEF WalkSteps
<1>8. u = t /\ jira'[t] = Head(walk[t].steps)
  BY <1>7, Typed
<1>9. walk[t].steps = GetStepsToReadyToTest(jira[t]) /\ walk[t].steps # <<>>
  BY <1>7, <1>8 DEF Holds, WalkHolds
<1> QED
  BY <1>8, <1>9, StepsLeft

(* A new ticket is announced once: what was announced is among the seen    *)
(* keys, and no poll, add, failed save or crash ever forgets one of those. *)
THEOREM NeverToldTwice == Spec => []NoSecondNotice
<1>1. Holds => NoSecondNotice
  BY DEF Holds, PollHolds, NoSecondNotice
<1> QED
  BY <1>1, InitGood, NextGood, InitHolds, NextHolds, PTL DEF Spec

(* A poll moves only tickets that are new and those Jira sent back, though *)
(* the user moves tickets between its query, its fetches and its saves.    *)
THEOREM PollsKeepPlaces == Spec => PollsMoveOnlyNewAndSentBack
<1>1. Inv /\ Holds /\ [Next]_vars => [PollMoves]_vars
  BY PollMovesStep
<1> QED
  BY <1>1, InitGood, NextGood, InitHolds, NextHolds, PTL
  DEF Spec, PollMoves, PollsMoveOnlyNewAndSentBack

(* A poll tells of every ticket it finds done in Jira, and of no other.    *)
THEOREM PollsReport == Spec => FinishedIsReported
<1>1. Inv /\ Holds /\ [Next]_vars => [PollReports]_vars
  BY PollReportsStep
<1> QED
  BY <1>1, InitGood, NextGood, InitHolds, NextHolds, PTL
  DEF Spec, PollReports, FinishedIsReported

(* A walk the team does not overtake never takes a ticket backward.        *)
THEOREM WalksGoForward == Spec => WalksForward
<1>1. Inv /\ Holds /\ [Next]_vars => [WalkMoves]_vars
  BY WalkMovesStep
<1> QED
  BY <1>1, InitGood, NextGood, InitHolds, NextHolds, PTL
  DEF Spec, WalkMoves, WalksForward

-----------------------------------------------------------------------------
(* The check of the pull requests. *)

PrFileSets == [tracking : [Prs -> PrStates], alerts : [Tickets -> Nat], baseline : BOOLEAN]
Checks == [at : {"idle", "due", "asking", "telling"}, keys : SUBSET Tickets,
           tracking : [Prs -> PrStates], quiet : BOOLEAN, complete : BOOLEAN,
           news : SUBSET Notices, toAdd : [Tickets -> Nat]]
Pasts == [written : [Prs -> Nat], told : [Prs -> Nat], merged : [Prs -> Nat],
          due : [Tickets -> Nat], cut : SUBSET Tickets]

(* What a ticket's unseen count is and what will be added to it are, in    *)
(* sum, what the user has not looked at; nothing is to be added before the *)
(* first notice is told.                                                   *)
Even(f, c, h) == \A t \in Tickets : t \notin h.cut => f.alerts[t] + c.toAdd[t] = h.due[t]
Counted(f, c, h) ==
  /\ f \in PrFileSets /\ c \in Checks /\ h \in Pasts
  /\ (c.at # "telling" => c.toAdd = NoAlerts)
  /\ Even(f, c, h)

CheckInv ==
  /\ Inv
  /\ ado \in BOOLEAN /\ azure \in [Prs -> PrStates]
  /\ edits \in 0 .. MaxEdits /\ base \in [Prs -> PrStates]
  /\ Counted(prFiles, check, past)

LEMMA PrTyped ==
  /\ Untracked \in PrStates /\ NoTracking \in [Prs -> PrStates]
  /\ NoAlerts \in [Tickets -> Nat] /\ NoCheck \in Checks
<1>1. Untracked \in PrStates
  BY DEF Untracked, Pr, PrStates
<1>2. NoTracking \in [Prs -> PrStates] /\ NoAlerts \in [Tickets -> Nat]
  BY <1>1 DEF NoTracking, NoAlerts
<1> QED
  BY <1>1, <1>2 DEF NoCheck, Checks

LEMMA FailsTyped ==
  ASSUME NEW n \in Nat, faults \in Nat, Fails(n)
  PROVE  faults' \in 0 .. MaxFaults
BY TicketBoardAssumption DEF Fails

(* The next notice, or the end of the check. *)
LEMMA GoesOnCounted ==
  ASSUME NEW c \in Checks, NEW f \in PrFileSets, NEW n \in Nat, past \in Pasts,
         faults \in Nat, Even(f, c, past), GoesOn(c, f, n)
  PROVE  Counted(prFiles', check', past') /\ faults' \in 0 .. MaxFaults
<1>1. ASSUME NEW notice \in c.news,
             check' = [c EXCEPT !.at = "telling", !.news = @ \ {notice},
                                !.toAdd[TicketOf[notice.pr]] = @ + notice.count],
             past' = [past EXCEPT !.told[notice.pr] = @ + notice.count,
                        !.merged[notice.pr] = IF notice.kind = "merged" THEN @ + 1 ELSE @,
                        !.due[TicketOf[notice.pr]] = @ + notice.count],
             prFiles' = f, Fails(n)
      PROVE  Counted(prFiles', check', past') /\ faults' \in 0 .. MaxFaults
  <2> DEFINE p == notice.pr
             t == TicketOf[p]
             k == notice.count
             toAdd == [c.toAdd EXCEPT ![t] = @ + k]
             told == [past.told EXCEPT ![p] = @ + k]
             merged == [past.merged EXCEPT ![p] = IF notice.kind = "merged" THEN @ + 1 ELSE @]
             due == [past.due EXCEPT ![t] = @ + k]
  <2>1. p \in Prs /\ t \in Tickets /\ k \in Nat
    BY TicketCheckAssumption DEF Checks, Notices
  <2>2. /\ c.toAdd \in [Tickets -> Nat] /\ past.told \in [Prs -> Nat]
        /\ past.merged \in [Prs -> Nat] /\ past.due \in [Tickets -> Nat]
        /\ f.alerts \in [Tickets -> Nat]
    BY DEF Checks, Pasts, PrFileSets
  <2>3. /\ toAdd \in [Tickets -> Nat] /\ told \in [Prs -> Nat]
        /\ merged \in [Prs -> Nat] /\ due \in [Tickets -> Nat]
    BY <2>1, <2>2
  <2>4. /\ check' = [c EXCEPT !.at = "telling", !.news = @ \ {notice}, !.toAdd = toAdd]
        /\ past' = [past EXCEPT !.told = told, !.merged = merged, !.due = due]
    BY <1>1 DEF Checks, Pasts
  <2>5. \A u \in Tickets : u \notin past.cut => f.alerts[u] + toAdd[u] = due[u]
    BY <2>1, <2>2 DEF Even
  <2> HIDE DEF toAdd, told, merged, due
  <2>6. check' \in Checks /\ past' \in Pasts
    BY <2>3, <2>4 DEF Checks, Pasts
  <2>7. check'.at = "telling" /\ check'.toAdd = toAdd /\ past'.due = due /\ past'.cut = past.cut
    BY <2>4 DEF Checks, Pasts
  <2> QED
    BY <1>1, <2>5, <2>6, <2>7, FailsTyped DEF Counted, Even
<1>2. ASSUME check' = NoCheck,
             prFiles' = [f EXCEPT !.alerts = MergePrCommentAlerts(@, c.toAdd)],
             past' = [past EXCEPT !.due = [t \in Tickets |-> IF t \in BoardKeys(files) THEN @[t] ELSE 0]],
             Fails(n)
      PROVE  Counted(prFiles', check', past') /\ faults' \in 0 .. MaxFaults
  <2> DEFINE alerts == MergePrCommentAlerts(f.alerts, c.toAdd)
             due == [t \in Tickets |-> IF t \in BoardKeys(files) THEN past.due[t] ELSE 0]
  <2>1. /\ c.toAdd \in [Tickets -> Nat] /\ past.due \in [Tickets -> Nat]
        /\ f.alerts \in [Tickets -> Nat]
    BY DEF Checks, Pasts, PrFileSets
  <2>2. alerts \in [Tickets -> Nat] /\ due \in [Tickets -> Nat]
    BY <2>1 DEF MergePrCommentAlerts
  <2>3. \A t \in Tickets : t \notin past.cut => alerts[t] = due[t]
    BY <2>1 DEF MergePrCommentAlerts, Even
  <2>4. prFiles' = [f EXCEPT !.alerts = alerts] /\ past' = [past EXCEPT !.due = due]
    BY <1>2 DEF PrFileSets, Pasts
  <2> HIDE DEF alerts, due
  <2>5. /\ prFiles' \in PrFileSets /\ past' \in Pasts
        /\ prFiles'.alerts = alerts /\ past'.due = due /\ past'.cut = past.cut
    BY <2>2, <2>4 DEF PrFileSets, Pasts
  <2>6. check' \in Checks /\ check'.toAdd = NoAlerts
    BY <1>2, PrTyped DEF NoCheck
  <2>7. Even(prFiles', check', past')
    BY <2>2, <2>3, <2>5, <2>6 DEF Even, NoAlerts
  <2> QED
    BY <1>2, <2>5, <2>6, <2>7, FailsTyped DEF Counted
<1>3. ASSUME check' = NoCheck, prFiles' = f, Fails(n + 1),
             past' = [past EXCEPT !.cut = @ \cup {t \in Tickets : c.toAdd[t] > 0}]
      PROVE  Counted(prFiles', check', past') /\ faults' \in 0 .. MaxFaults
  <2> DEFINE cut == past.cut \cup {t \in Tickets : c.toAdd[t] > 0}
  <2>1. past' \in Pasts /\ past'.due = past.due /\ past'.cut = cut
    BY <1>3 DEF Pasts
  <2>2. check' \in Checks /\ check'.toAdd = NoAlerts
    BY <1>3, PrTyped DEF NoCheck
  <2>3. /\ c.toAdd \in [Tickets -> Nat] /\ f.alerts \in [Tickets -> Nat]
    BY DEF Checks, PrFileSets
  <2>4. \A t \in Tickets : t \notin cut => f.alerts[t] + 0 = past.due[t]
    BY <2>3 DEF Even
  <2>5. Even(prFiles', check', past')
    BY <1>3, <2>1, <2>2, <2>4 DEF Even, NoAlerts
  <2>6. n + 1 \in Nat
    OBVIOUS
  <2> QED
    BY <1>3, <2>1, <2>2, <2>5, <2>6, FailsTyped DEF Counted
<1> QED
  BY <1>1, <1>2, <1>3 DEF GoesOn

(* After a lookup, or before the first one. *)
LEMMA PassCounted ==
  ASSUME NEW c \in Checks, c.at = "asking", c.toAdd = NoAlerts, NEW n \in Nat,
         prFiles \in PrFileSets, past \in Pasts, faults \in Nat,
         base \in [Prs -> PrStates], Even(prFiles, c, past), PassGoesOn(c, n)
  PROVE  /\ Counted(prFiles', check', past') /\ faults' \in 0 .. MaxFaults
         /\ base' \in [Prs -> PrStates]
<1> DEFINE tracking == IF SavesTracking(prFiles.tracking, c.tracking) THEN c.tracking
                       ELSE prFiles.tracking
           saved == [prFiles EXCEPT !.tracking = tracking]
           marked == [saved EXCEPT !.baseline = prFiles.baseline \/ c.complete]
<1>1. tracking \in [Prs -> PrStates]
  BY DEF PrFileSets, Checks
<1> HIDE DEF tracking
<1>2. /\ saved \in PrFileSets /\ marked \in PrFileSets
      /\ saved.alerts = prFiles.alerts /\ marked.alerts = prFiles.alerts
      /\ saved.baseline = prFiles.baseline
  BY <1>1 DEF PrFileSets, Checks
<1>3. CASE c.keys = {}
  <2>1. \/ GoesOn(c, marked, n)
        \/ /\ check' = NoCheck /\ Fails(n + 1) /\ past' = past
           /\ prFiles' = prFiles \/ prFiles' = saved
    <3>1. PassEnds(c, n)
      BY <1>3 DEF PassGoesOn
    <3>2. /\ saved = [prFiles EXCEPT !.tracking =
                        IF SavesTracking(@, c.tracking) THEN c.tracking ELSE @]
          /\ marked = [saved EXCEPT !.baseline = @ \/ c.complete]
      BY <1>2 DEF tracking, PrFileSets
    <3> HIDE DEF saved, marked
    <3> QED
      BY <3>1, <3>2 DEF PassEnds
  <2> HIDE DEF saved, marked
  <2>2. ASSUME GoesOn(c, marked, n)
        PROVE  Counted(prFiles', check', past') /\ faults' \in 0 .. MaxFaults
    <3>1. Even(marked, c, past)
      BY <1>2 DEF Even
    <3> QED
      BY <1>2, <2>2, <3>1, GoesOnCounted
  <2>3. ASSUME check' = NoCheck, Fails(n + 1), past' = past,
               prFiles' = prFiles \/ prFiles' = saved
        PROVE  Counted(prFiles', check', past') /\ faults' \in 0 .. MaxFaults
    <3>1. check' \in Checks /\ check'.toAdd = NoAlerts
      BY <2>3, PrTyped DEF NoCheck
    <3>2. prFiles' \in PrFileSets /\ prFiles'.alerts = prFiles.alerts
      BY <1>2, <2>3
    <3>3. Even(prFiles', check', past')
      BY <2>3, <3>1, <3>2 DEF Even
    <3>4. n + 1 \in Nat
      OBVIOUS
    <3> QED
      BY <2>3, <3>1, <3>2, <3>3, <3>4, FailsTyped DEF Counted
  <2>4. Counted(prFiles', check', past') /\ faults' \in 0 .. MaxFaults
    BY <2>1, <2>2, <2>3
  <2>5. prFiles'.tracking \in [Prs -> PrStates]
    BY <2>4 DEF Counted, PrFileSets
  <2> QED
    BY <2>4, <2>5 DEF PassGoesOn
<1>4. CASE c.keys # {}
  <2>1. check' = c /\ Fails(n) /\ prFiles' = prFiles /\ past' = past
    BY <1>4 DEF PassGoesOn
  <2>2. base' \in [Prs -> PrStates]
    BY <2>1 DEF PassGoesOn, PrFileSets
  <2> QED
    BY <2>1, <2>2, FailsTyped DEF Counted
<1> QED
  BY <1>3, <1>4

LEMMA ChangesTyped ==
  ASSUME azure \in [Prs -> PrStates], NEW tracking \in [Prs -> PrStates], NEW found \in SUBSET Prs
  PROVE  Changes(tracking, found) \subseteq Notices
<1>1. \A p \in found : NewComments(tracking[p], azure[p]) \in Nat
  BY DEF NewComments, PrStates
<1> QED
  BY <1>1 DEF Changes, Notice, Notices

LEMMA DetectChangesTyped ==
  ASSUME azure \in [Prs -> PrStates], NEW c \in Checks, NEW found \in SUBSET Prs
  PROVE  /\ DetectChanges(c, found) \in Checks
         /\ DetectChanges(c, found).at = c.at /\ DetectChanges(c, found).toAdd = c.toAdd
         /\ DetectChanges(c, found).keys = c.keys
<1> DEFINE known == {p \in found : c.tracking[p] # Untracked}
           tracking == [p \in Prs |-> IF p \in found THEN azure[p] ELSE c.tracking[p]]
           news == IF c.quiet THEN c.news ELSE c.news \cup Changes(c.tracking, known)
<1>1. c.tracking \in [Prs -> PrStates] /\ c.news \subseteq Notices
  BY DEF Checks
<1>2. tracking \in [Prs -> PrStates]
  BY <1>1
<1>3. news \subseteq Notices
  BY <1>1, ChangesTyped
<1>4. DetectChanges(c, found) = [c EXCEPT !.tracking = tracking, !.news = news]
  BY DEF DetectChanges, Checks
<1> HIDE DEF known, tracking, news
<1> QED
  BY <1>2, <1>3, <1>4 DEF Checks

-----------------------------------------------------------------------------
(* The steps of the check. *)

Checked ==
  /\ Counted(prFiles', check', past') /\ faults' \in 0 .. MaxFaults
  /\ base' \in [Prs -> PrStates]

LEMMA PrStepsCounted ==
  ASSUME CheckInv, PrSteps
  PROVE  Checked
<1>1. /\ prFiles \in PrFileSets /\ check \in Checks /\ past \in Pasts
      /\ Even(prFiles, check, past) /\ (check.at # "telling" => check.toAdd = NoAlerts)
      /\ azure \in [Prs -> PrStates] /\ base \in [Prs -> PrStates]
      /\ faults \in Nat /\ files \in Good
  <2>1. faults \in 0 .. MaxFaults /\ files \in Good
    BY Zenon DEF CheckInv, Inv, TypeOK
  <2>2. faults \in Nat
    BY <2>1, TicketBoardAssumption
  <2> QED
    BY <2>1, <2>2 DEF CheckInv, Counted
<1>2. CASE PrsBegin
  <2> DEFINE keys == TrackedTickets(files, prFiles.tracking)
             c == [NoCheck EXCEPT !.at = "asking", !.tracking = prFiles.tracking,
                                  !.quiet = ~prFiles.baseline, !.keys = keys]
  <2>1. keys \subseteq Tickets
    BY <1>1, GoodFiles, Ranged DEF TrackedTickets
  <2>2. prFiles.tracking \in [Prs -> PrStates] /\ prFiles.baseline \in BOOLEAN
    BY <1>1 DEF PrFileSets
  <2> HIDE DEF keys
  <2>3. c \in Checks /\ c.at = "asking" /\ c.toAdd = NoAlerts
    BY <2>1, <2>2, PrTyped DEF NoCheck, Checks
  <2>4. PassGoesOn(c, 0)
    BY <1>2 DEF PrsBegin, keys
  <2>5. check.toAdd = NoAlerts
    BY <1>1, <1>2 DEF PrsBegin
  <2> HIDE DEF c
  <2>6. Even(prFiles, c, past)
    BY <1>1, <2>3, <2>5 DEF Even
  <2> QED
    BY <1>1, <2>3, <2>4, <2>6, PassCounted DEF Checked
<1>3. ASSUME NEW t \in Tickets, PrsLookedUp(t)
      PROVE  Checked
  <2>1. PICK found \in SUBSET Prs, ok \in BOOLEAN, down \in BOOLEAN :
          PassGoesOn([DetectChanges(check, found) EXCEPT
                        !.keys = IF down THEN {} ELSE @ \ {t}, !.complete = @ /\ ok],
                     IF ok THEN 0 ELSE 1)
    BY <1>3 DEF PrsLookedUp, OfTicket
  <2> DEFINE d == DetectChanges(check, found)
             keys == IF down THEN {} ELSE d.keys \ {t}
             complete == d.complete /\ ok
             c == [d EXCEPT !.keys = keys, !.complete = complete]
             n == IF ok THEN 0 ELSE 1
  <2>2. d \in Checks /\ d.at = check.at /\ d.toAdd = check.toAdd
    BY <1>1, DetectChangesTyped
  <2>3. check.at = "asking" /\ check.toAdd = NoAlerts
    BY <1>1, <1>3 DEF PrsLookedUp
  <2> HIDE DEF d
  <2>4. keys \subseteq Tickets /\ complete \in BOOLEAN /\ n \in Nat
    BY <2>2 DEF Checks
  <2>5. PassGoesOn(c, n)
    BY <2>1, <2>2 DEF d, Checks
  <2> HIDE DEF keys, complete, n
  <2>6. c \in Checks /\ c.at = "asking" /\ c.toAdd = NoAlerts
    BY <2>2, <2>3, <2>4 DEF Checks
  <2> HIDE DEF c
  <2>7. Even(prFiles, c, past)
    BY <1>1, <2>3, <2>6 DEF Even
  <2> QED
    BY <1>1, <2>4, <2>5, <2>6, <2>7, PassCounted DEF Checked
<1>4. CASE TeamsAnswers
  <2>1. GoesOn(check, prFiles, 0) /\ base' = base
    BY <1>4 DEF TeamsAnswers
  <2> QED
    BY <1>1, <2>1, GoesOnCounted DEF Checked
<1> QED
  BY <1>2, <1>3, <1>4 DEF PrSteps

LEMMA ClearCounted ==
  ASSUME CheckInv, NEW t \in Tickets, Clear(t)
  PROVE  Counted(prFiles', check', past')
<1> DEFINE alerts == [prFiles.alerts EXCEPT ![t] = 0]
           due == [past.due EXCEPT ![t] = check.toAdd[t]]
<1>1. /\ prFiles \in PrFileSets /\ check \in Checks /\ past \in Pasts
      /\ Even(prFiles, check, past) /\ (check.at # "telling" => check.toAdd = NoAlerts)
  BY DEF CheckInv, Counted
<1>2. /\ prFiles.alerts \in [Tickets -> Nat] /\ past.due \in [Tickets -> Nat]
      /\ check.toAdd \in [Tickets -> Nat]
  BY <1>1 DEF PrFileSets, Checks, Pasts
<1>3. alerts \in [Tickets -> Nat] /\ due \in [Tickets -> Nat]
  BY <1>2
<1>4. \A u \in Tickets : u \notin past.cut => alerts[u] + check.toAdd[u] = due[u]
  BY <1>1, <1>2 DEF Even
<1>5. /\ prFiles' = [prFiles EXCEPT !.alerts = alerts]
      /\ past' = [past EXCEPT !.due = due] /\ check' = check
  BY <1>1 DEF Clear, PrFileSets, Pasts
<1> HIDE DEF alerts, due
<1>6. /\ prFiles' \in PrFileSets /\ past' \in Pasts /\ prFiles'.alerts = alerts
      /\ past'.due = due /\ past'.cut = past.cut
  BY <1>1, <1>3, <1>5 DEF PrFileSets, Pasts
<1> QED
  BY <1>1, <1>4, <1>5, <1>6 DEF Counted, Even

LEMMA EditsCounted ==
  ASSUME CheckInv, Edits
  PROVE  /\ Counted(prFiles', check', past')
         /\ azure' \in [Prs -> PrStates] /\ edits' \in 0 .. MaxEdits
<1>1. PICK p \in Prs : Edit(p)
  BY DEF Edits
<1>2. azure \in [Prs -> PrStates] /\ azure[p] \in PrStates /\ azure[p].comments \in Nat
  BY DEF CheckInv, PrStates
<1>3. azure' \in [Prs -> PrStates]
  <2>1. PICK pr \in PrStates : Becomes(p, pr)
    <3>1. \A k \in Nat : k > 0 => k - 1 \in Nat
      OBVIOUS
    <3> QED
      BY <1>1, <1>2, <3>1 DEF Edit, Pr, PrStates, Closed
  <2> QED
    BY <1>2, <2>1 DEF Becomes
<1>4. edits' \in 0 .. MaxEdits
  BY TicketCheckAssumption DEF Edits, CheckInv
<1>5. /\ prFiles \in PrFileSets /\ check \in Checks /\ past \in Pasts
      /\ Even(prFiles, check, past) /\ (check.at # "telling" => check.toAdd = NoAlerts)
      /\ prFiles' = prFiles /\ check' = check
  BY DEF CheckInv, Counted, Edits
<1>6. past' \in Pasts /\ past'.due = past.due /\ past'.cut = past.cut
  <2>1. CASE past' = past
    BY <1>5, <2>1
  <2>2. CASE past' = [past EXCEPT !.written[p] = @ + 1]
    BY <1>5, <2>2 DEF Pasts
  <2> QED
    BY <1>1, <2>1, <2>2 DEF Edit
<1> QED
  BY <1>3, <1>4, <1>5, <1>6 DEF Counted, Even

LEMMA KillCounted ==
  ASSUME CheckInv, Kill
  PROVE  Counted(prFiles', check', past')
<1> DEFINE lost == {TicketOf[n.pr] : n \in IF check.at = "telling" THEN check.news ELSE {}}
           cut == (past.cut \cup {t \in Tickets : check.toAdd[t] > 0}) \cup lost
<1>1. /\ prFiles \in PrFileSets /\ check \in Checks /\ past \in Pasts
      /\ Even(prFiles, check, past)
      /\ prFiles' = prFiles /\ check' = NoCheck
  BY DEF CheckInv, Counted, Kill
<1>2. /\ check.toAdd \in [Tickets -> Nat] /\ prFiles.alerts \in [Tickets -> Nat]
      /\ check.news \subseteq Notices
  BY <1>1 DEF PrFileSets, Checks
<1>3. lost \subseteq Tickets
  BY <1>2, TicketCheckAssumption DEF Notices
<1>4. past' = [past EXCEPT !.cut = cut]
  BY <1>1 DEF Kill, Pasts
<1> HIDE DEF lost
<1>5. past' \in Pasts /\ past'.due = past.due /\ past'.cut = cut
  BY <1>1, <1>3, <1>4 DEF Pasts
<1>6. \A t \in Tickets : t \notin cut => prFiles.alerts[t] + 0 = past.due[t]
  BY <1>1, <1>2 DEF Even
<1>7. check' \in Checks /\ check'.toAdd = NoAlerts
  BY <1>1, PrTyped DEF NoCheck
<1>8. Even(prFiles', check', past')
  BY <1>1, <1>5, <1>6, <1>7 DEF Even, NoAlerts
<1> QED
  BY <1>1, <1>5, <1>7, <1>8 DEF Counted

-----------------------------------------------------------------------------
(* Every step of the composition is one of the board's, or leaves the      *)
(* board alone.                                                            *)

LEMMA CheckInitGood ==
  ASSUME CheckInit
  PROVE  CheckInv
<1>1. Inv
  BY InitGood DEF CheckInit
<1>2. prFiles \in PrFileSets /\ prFiles.alerts = NoAlerts
  BY PrTyped DEF CheckInit, PrFileSets
<1>3. check \in Checks /\ check.toAdd = NoAlerts
  BY PrTyped DEF CheckInit, NoCheck
<1>4. past \in Pasts /\ past.due = NoAlerts
  BY PrTyped DEF CheckInit, Pasts
<1>5. Even(prFiles, check, past)
  BY <1>2, <1>3, <1>4 DEF Even, NoAlerts
<1> QED
  BY <1>1, <1>2, <1>3, <1>4, <1>5, PrTyped, TicketCheckAssumption DEF CheckInit, CheckInv, Counted

LEMMA BoardOrNot ==
  ASSUME CheckInv, [CheckNext]_allVars
  PROVE  [Next]_vars \/ (BoardOnly /\ faults' \in 0 .. MaxFaults)
<1>1. CASE PollBegins \/ UserMoves \/ PollRuns \/ Walks \/ JiraChanges \/ Kill \/ UNCHANGED vars
  BY <1>1 DEF PollBegins, PollRuns, Kill, Next, PollSteps
<1>2. CASE PrSteps
  <2>1. BoardOnly
    BY <1>2 DEF PrSteps, PrsBegin, PrsLookedUp, TeamsAnswers
  <2> QED
    BY <1>2, <2>1, PrStepsCounted DEF Checked
<1>3. CASE Edits \/ \E t \in Tickets : Clear(t)
  <2>1. BoardOnly /\ faults' = faults
    BY <1>3 DEF Edits, Clear
  <2>2. faults \in 0 .. MaxFaults
    BY Typed DEF CheckInv
  <2> QED
    BY <2>1, <2>2
<1> QED
  BY <1>1, <1>2, <1>3 DEF CheckNext, QueryFails, allVars

LEMMA BoardStep ==
  ASSUME CheckInv, [CheckNext]_allVars
  PROVE  Inv' /\ Stepped
<1>1. CASE [Next]_vars
  BY <1>1, NextGood DEF CheckInv
<1>2. CASE BoardOnly /\ faults' \in 0 .. MaxFaults
  <2>1. Stepped
    BY <1>2, Untouched DEF CheckInv, BoardOnly
  <2> QED
    BY <1>2, <2>1 DEF CheckInv, Inv, TypeOK, BoardOnly
<1> QED
  BY <1>1, <1>2, BoardOrNot

LEMMA BoardHolds ==
  ASSUME CheckInv, Holds, [CheckNext]_allVars
  PROVE  /\ Holds'
         /\ [PollMoves]_vars /\ [PollReports]_vars /\ [WalkMoves]_vars
<1>1. CASE [Next]_vars
  BY <1>1, NextHolds, PollMovesStep, PollReportsStep, WalkMovesStep DEF CheckInv
<1>2. CASE BoardOnly
  <2>1. Holds'
    BY <1>2 DEF BoardOnly, Holds
  <2>2. poll' = poll /\ jira' = jira
    BY <1>2 DEF BoardOnly
  <2> QED
    BY <2>1, <2>2 DEF PollMoves, PollReports, WalkMoves
<1> QED
  BY <1>1, <1>2, BoardOrNot

LEMMA CheckNextGood ==
  ASSUME CheckInv, [CheckNext]_allVars
  PROVE  CheckInv'
<1>1. Inv'
  BY BoardStep
<1>2. CASE UNCHANGED prVars
  BY <1>1, <1>2 DEF CheckInv, prVars
<1>3. CASE CheckBegins
  <2>1. /\ check' \in Checks /\ check'.at # "telling" /\ check'.toAdd = check.toAdd
        /\ check.at = "idle"
    BY <1>3 DEF CheckBegins, CheckInv, Counted, Checks
  <2>2. /\ prFiles' = prFiles /\ past' = past
        /\ Even(prFiles, check, past) /\ check.toAdd = NoAlerts
    BY <1>3, <2>1 DEF CheckBegins, CheckInv, Counted
  <2>3. Even(prFiles', check', past')
    BY <2>1, <2>2 DEF Even
  <2> QED
    BY <1>1, <1>3, <2>1, <2>2, <2>3 DEF CheckBegins, CheckInv, Counted
<1>4. CASE PrSteps
  <2>1. UNCHANGED <<ado, azure, edits>>
    BY <1>4 DEF PrSteps, PrsBegin, PrsLookedUp, TeamsAnswers
  <2> QED
    BY <1>1, <1>4, <2>1, PrStepsCounted DEF Checked, CheckInv
<1>5. CASE \E t \in Tickets : Clear(t)
  BY <1>1, <1>5, ClearCounted DEF Clear, CheckInv
<1>6. CASE Edits
  BY <1>1, <1>6, EditsCounted DEF Edits, CheckInv
<1>7. CASE Kill
  BY <1>1, <1>7, KillCounted DEF Kill, CheckInv
<1> QED
  BY <1>2, <1>3, <1>4, <1>5, <1>6, <1>7 DEF CheckNext, PollBegins, QueryFails, allVars, prVars

-----------------------------------------------------------------------------
(* The variables keep their types, the board's and the check's. *)
THEOREM CheckTypeCorrect == CheckSpec => [](TypeOK /\ CheckTypeOK)
<1>1. CheckInv => TypeOK /\ CheckTypeOK
  BY DEF CheckInv, Inv, CheckTypeOK, Counted, PrFileSets, Checks, Pasts
<1> QED
  BY <1>1, CheckInitGood, CheckNextGood, PTL DEF CheckSpec

(* The unseen count of a ticket is what was told since the user looked:    *)
(* for any tickets and pull requests, whatever lookups and saves fail, and *)
(* whatever the user does while the check awaits Teams.                    *)
THEOREM AlertsCorrect == CheckSpec => []AlertsAreTheUnseen
<1>1. CheckInv => AlertsAreTheUnseen
  BY DEF CheckInv, Counted, Even, AlertsAreTheUnseen
<1> QED
  BY <1>1, CheckInitGood, CheckNextGood, PTL DEF CheckSpec

(* The check of the pull requests leaves what was proved of the board as   *)
(* it was: no ticket in two lists, and the promise kept.                   *)
THEOREM OneListBesidePrs == CheckSpec => []OneList
<1>1. CheckInv => OneList
  BY DEF CheckInv, Inv, Good, OneList
<1> QED
  BY <1>1, CheckInitGood, CheckNextGood, PTL DEF CheckSpec

THEOREM PromiseKeptBesidePrs == CheckSpec => KeepsPromise
<1>1. CheckInit => Promise!Init
  BY InitPromise DEF CheckInit
<1>2. CheckInv /\ [CheckNext]_allVars => [Promise!Next]_(Promise!vars)
  BY BoardStep, SteppedPromise
<1> QED
  BY <1>1, <1>2, CheckInitGood, CheckNextGood, PTL DEF CheckSpec, KeepsPromise, Promise!Spec

LEMMA CheckInitHolds ==
  CheckInit => Holds
BY InitHolds DEF CheckInit

(* So do the notices, the polls and the walks: nothing the check of the    *)
(* pull requests does, or fails to do, comes between them.                 *)
THEOREM NeverToldTwiceBesidePrs == CheckSpec => []NoSecondNotice
<1>1. Holds => NoSecondNotice
  BY DEF Holds, PollHolds, NoSecondNotice
<1> QED
  BY <1>1, CheckInitGood, CheckNextGood, CheckInitHolds, BoardHolds, PTL DEF CheckSpec

THEOREM PollsKeepPlacesBesidePrs == CheckSpec => PollsMoveOnlyNewAndSentBack
BY CheckInitGood, CheckNextGood, CheckInitHolds, BoardHolds, PTL
DEF CheckSpec, PollMoves, PollsMoveOnlyNewAndSentBack

THEOREM PollsReportBesidePrs == CheckSpec => FinishedIsReported
BY CheckInitGood, CheckNextGood, CheckInitHolds, BoardHolds, PTL
DEF CheckSpec, PollReports, FinishedIsReported

THEOREM WalksGoForwardBesidePrs == CheckSpec => WalksForward
BY CheckInitGood, CheckNextGood, CheckInitHolds, BoardHolds, PTL
DEF CheckSpec, WalkMoves, WalksForward

-----------------------------------------------------------------------------
(* What was told, and what the check is about to tell.                     *)

CommentsIn(news, p) ==
  IF \E n \in news : n.pr = p /\ n.kind = "comments"
  THEN (CHOOSE n \in news : n.pr = p /\ n.kind = "comments").count ELSE 0
Told(h, news, p) == h.told[p] + CommentsIn(news, p)
Merges(h, news, p) == h.merged[p] + IF Notice(p, "merged", 0) \in news THEN 1 ELSE 0

(* A pull request that was recorded as "from" without a notice, is known   *)
(* to be as "was" and is as "is": no more comments are told than were      *)
(* written since, and one merge at most; and what is known was told.       *)
NoMore(told, merges, written, is, from, was) ==
  /\ told + from.comments + NewComments(was, is) <= written
  /\ is.comments <= written /\ was.comments <= written
  /\ was.status = "completed" => is.status = "completed"
  /\ merges <= 1 /\ (merges = 1 => was.status = "completed")
NoLess(told, merges, from, was) ==
  /\ was.comments <= from.comments + told
  /\ was.status = "completed" /\ from.status # "completed" => merges = 1
Fits(p, h, news, is, from, was) ==
  /\ NoMore(Told(h, news, p), Merges(h, news, p), h.written[p], is, from, was)
  /\ TicketOf[p] \notin h.cut => NoLess(Told(h, news, p), Merges(h, news, p), from, was)

(* A check tells of a change once, and only of pull requests on file.      *)
NewsFit(f, c) ==
  /\ \A n, m \in c.news : n.pr = m.pr /\ n.kind = m.kind => n = m
  /\ \A n \in c.news : /\ n.kind = "merged" => n.count = 0
                       /\ f.tracking[n.pr] # Untracked /\ f.baseline
(* Before there is a baseline, or the pull request is on file, nothing is  *)
(* told of it.                                                             *)
Recorded(f, h, b) ==
  \A p \in Prs :
    f.tracking[p] = Untracked \/ ~f.baseline =>
      b[p] = f.tracking[p] /\ h.told[p] = 0 /\ h.merged[p] = 0
(* What the pass of a check has found so far would fit, were it saved; the *)
(* tickets it has still to look up have no news.                           *)
From(f, c, b, p) == IF c.quiet \/ f.tracking[p] = Untracked THEN c.tracking[p] ELSE b[p]
Asked(f, c, h, b, a) ==
  /\ c.quiet = ~f.baseline
  /\ \A p \in Prs :
       /\ f.tracking[p] # Untracked => c.tracking[p] # Untracked
       /\ TicketOf[p] \in c.keys =>
            c.tracking[p] = f.tracking[p] /\ \A n \in c.news : n.pr # p
       /\ Fits(p, h, c.news, a[p], From(f, c, b, p), c.tracking[p])

Telling(c) == IF c.at = "telling" THEN c.news ELSE {}
Whole(f, c, h, b, a) ==
  /\ NewsFit(f, c) /\ Recorded(f, h, b)
  /\ c.at = "asking" => Asked(f, c, h, b, a)
  /\ \A p \in Prs : Fits(p, h, Telling(c), a[p], b[p], f.tracking[p])

ToldInv == Whole(prFiles, check, past, base, azure)

LEMMA CommentsNone ==
  ASSUME NEW news, NEW p, \A n \in news : n.pr # p
  PROVE  CommentsIn(news, p) = 0 /\ Notice(p, "merged", 0) \notin news
BY DEF CommentsIn, Notice

LEMMA CommentsAre ==
  ASSUME NEW news \in SUBSET Notices, NEW p,
         \A n, m \in news : n.pr = m.pr /\ n.kind = m.kind => n = m
  PROVE  /\ \A n \in news : n.pr = p /\ n.kind = "comments" => CommentsIn(news, p) = n.count
         /\ (\A n \in news : ~(n.pr = p /\ n.kind = "comments")) => CommentsIn(news, p) = 0
         /\ CommentsIn(news, p) \in Nat
<1>1. ASSUME NEW n \in news, n.pr = p, n.kind = "comments"
      PROVE  CommentsIn(news, p) = n.count
  <2> DEFINE m == CHOOSE m \in news : m.pr = p /\ m.kind = "comments"
  <2>1. m \in news /\ m.pr = p /\ m.kind = "comments"
    BY <1>1
  <2>2. CommentsIn(news, p) = m.count
    BY <1>1 DEF CommentsIn
  <2> HIDE DEF m
  <2>3. m = n
    BY <1>1, <2>1
  <2> QED
    BY <2>2, <2>3
<1>2. ASSUME \A n \in news : ~(n.pr = p /\ n.kind = "comments")
      PROVE  CommentsIn(news, p) = 0
  BY <1>2 DEF CommentsIn
<1>3. \A n \in news : n.count \in Nat
  BY DEF Notices
<1> QED
  BY <1>1, <1>2, <1>3

LEMMA Sums ==
  ASSUME NEW h \in Pasts, NEW p \in Prs, NEW news \in SUBSET Notices,
         \A n, m \in news : n.pr = m.pr /\ n.kind = m.kind => n = m
  PROVE  /\ h.told[p] \in Nat /\ h.merged[p] \in Nat /\ h.written[p] \in Nat
         /\ Told(h, news, p) \in Nat /\ Merges(h, news, p) \in Nat
         /\ Told(h, {}, p) = h.told[p] /\ Merges(h, {}, p) = h.merged[p]
         /\ h.told[p] <= Told(h, news, p) /\ h.merged[p] <= Merges(h, news, p)
<1>1. h.told[p] \in Nat /\ h.merged[p] \in Nat /\ h.written[p] \in Nat
  BY DEF Pasts
<1>2. CommentsIn(news, p) \in Nat /\ CommentsIn({}, p) = 0
  BY CommentsAre, CommentsNone
<1> QED
  BY <1>1, <1>2 DEF Told, Merges

(* A notice that is shown passes from what is to be told to what was told. *)
LEMMA SumsKept ==
  ASSUME NEW news \in SUBSET Notices, NEW notice \in news, NEW rest, rest = news \ {notice},
         NEW h \in Pasts, NEW g,
         \A n, m \in news : n.pr = m.pr /\ n.kind = m.kind => n = m,
         \A n \in news : n.kind = "merged" => n.count = 0,
         \A q \in Prs :
           /\ g.told[q] = h.told[q] + IF q = notice.pr THEN notice.count ELSE 0
           /\ g.merged[q] = h.merged[q] + IF q = notice.pr /\ notice.kind = "merged" THEN 1 ELSE 0,
         NEW p \in Prs
  PROVE  /\ Told(g, rest, p) = Told(h, news, p)
         /\ Merges(g, rest, p) = Merges(h, news, p)
<1>1. /\ h.told \in [Prs -> Nat] /\ h.merged \in [Prs -> Nat]
      /\ notice.pr \in Prs /\ notice.kind \in {"merged", "comments"} /\ notice.count \in Nat
      /\ notice = Notice(notice.pr, notice.kind, notice.count)
  BY DEF Pasts, Notices, Notice
<1>2. /\ rest \in SUBSET Notices
      /\ \A n, m \in rest : n.pr = m.pr /\ n.kind = m.kind => n = m
  OBVIOUS
<1>3. CommentsIn(news, p) \in Nat /\ CommentsIn(rest, p) \in Nat
  BY <1>2, CommentsAre
<1>4. CASE notice.pr = p /\ notice.kind = "comments"
  <2>1. CommentsIn(news, p) = notice.count
    BY <1>4, CommentsAre
  <2>2. \A n \in rest : ~(n.pr = p /\ n.kind = "comments")
    BY <1>4
  <2>3. CommentsIn(rest, p) = 0
    BY <1>2, <2>2, CommentsAre
  <2>4. Notice(p, "merged", 0) \in rest <=> Notice(p, "merged", 0) \in news
    BY <1>4 DEF Notice
  <2>5. g.told[p] = h.told[p] + notice.count /\ g.merged[p] = h.merged[p]
    BY <1>1, <1>4
  <2> QED
    BY <1>1, <2>1, <2>3, <2>4, <2>5 DEF Told, Merges
<1>5. CASE ~(notice.pr = p /\ notice.kind = "comments")
  <2>1. CommentsIn(rest, p) = CommentsIn(news, p)
    <3>1. CASE \E n \in news : n.pr = p /\ n.kind = "comments"
      <4>1. PICK n \in rest : n.pr = p /\ n.kind = "comments"
        BY <1>5, <3>1
      <4>2. CommentsIn(news, p) = n.count
        BY <4>1, CommentsAre
      <4>3. CommentsIn(rest, p) = n.count
        BY <1>2, <4>1, CommentsAre
      <4> QED
        BY <4>2, <4>3
    <3>2. CASE \A n \in news : ~(n.pr = p /\ n.kind = "comments")
      <4>1. \A n \in rest : ~(n.pr = p /\ n.kind = "comments")
        BY <3>2
      <4>2. CommentsIn(rest, p) = 0
        BY <1>2, <4>1, CommentsAre
      <4>3. CommentsIn(news, p) = 0
        BY <3>2, CommentsAre
      <4> QED
        BY <4>2, <4>3
    <3> QED
      BY <3>1, <3>2
  <2>2. g.told[p] = h.told[p]
    <3>1. CASE notice.pr = p
      BY <1>1, <1>5, <3>1
    <3>2. CASE notice.pr # p
      BY <1>1, <3>2
    <3> QED
      BY <3>1, <3>2
  <2>3. Merges(g, rest, p) = Merges(h, news, p)
    <3>1. CASE notice.pr = p
      <4>1. notice = Notice(p, "merged", 0)
        BY <1>1, <1>5, <3>1
      <4>2. g.merged[p] = h.merged[p] + 1
        BY <1>1, <1>5, <3>1
      <4> QED
        BY <1>1, <4>1, <4>2 DEF Merges
    <3>2. CASE notice.pr # p
      <4>1. g.merged[p] = h.merged[p]
        BY <1>1, <3>2
      <4>2. Notice(p, "merged", 0) # notice
        BY <3>2 DEF Notice
      <4> QED
        BY <4>1, <4>2 DEF Merges
    <3> QED
      BY <3>1, <3>2
  <2> QED
    BY <2>1, <2>2, <2>3 DEF Told
<1> QED
  BY <1>4, <1>5

(* News that are lost leave less told, which fits if the ticket is told of *)
(* no more.                                                                *)
LEMMA LostFits ==
  ASSUME NEW p \in Prs, NEW h \in Pasts, NEW g \in Pasts, NEW news \in SUBSET Notices,
         \A n, m \in news : n.pr = m.pr /\ n.kind = m.kind => n = m,
         NEW is \in PrStates, NEW from \in PrStates, NEW was \in PrStates,
         Fits(p, h, news, is, from, was),
         g.told = h.told, g.merged = h.merged, g.written = h.written, h.cut \subseteq g.cut,
         TicketOf[p] \in g.cut \/ \A n \in news : n.pr # p
  PROVE  Fits(p, g, {}, is, from, was)
<1>1. /\ from.comments \in Nat /\ was.comments \in Nat /\ is.comments \in Nat
      /\ NewComments(was, is) \in Nat
  BY DEF PrStates, NewComments
<1>2. /\ Told(h, news, p) \in Nat /\ Merges(h, news, p) \in Nat
      /\ Told(g, {}, p) = h.told[p] /\ Merges(g, {}, p) = h.merged[p]
      /\ h.told[p] \in Nat /\ h.merged[p] \in Nat /\ h.written[p] \in Nat
      /\ h.told[p] <= Told(h, news, p) /\ h.merged[p] <= Merges(h, news, p)
  BY Sums
<1>3. NoMore(h.told[p], h.merged[p], h.written[p], is, from, was)
  BY <1>1, <1>2 DEF Fits, NoMore
<1>4. ASSUME TicketOf[p] \notin g.cut
      PROVE  NoLess(h.told[p], h.merged[p], from, was)
  <2>1. Told(h, news, p) = h.told[p] /\ Merges(h, news, p) = h.merged[p]
    <3>1. CommentsIn(news, p) = 0 /\ Notice(p, "merged", 0) \notin news
      BY <1>4, CommentsNone
    <3> QED
      BY <1>2, <3>1 DEF Told, Merges
  <2> QED
    BY <1>4, <2>1 DEF Fits
<1> QED
  BY <1>2, <1>3, <1>4 DEF Fits

LEMMA SameFits ==
  ASSUME NEW p, NEW h, NEW g, NEW news, NEW is, NEW from, NEW was,
         Fits(p, h, news, is, from, was), g.told = h.told, g.merged = h.merged,
         g.written = h.written, g.cut = h.cut
  PROVE  Fits(p, g, news, is, from, was)
BY DEF Fits, Told, Merges
-----------------------------------------------------------------------------
(* The steps of the check keep the account. *)

LEMMA GoesOnFits ==
  ASSUME NEW c \in Checks, NEW f \in PrFileSets, NEW n, past \in Pasts, NEW b \in [Prs -> PrStates],
         azure \in [Prs -> PrStates], NewsFit(f, c), Recorded(f, past, b),
         \A p \in Prs : Fits(p, past, c.news, azure[p], b[p], f.tracking[p]),
         GoesOn(c, f, n)
  PROVE  Whole(prFiles', check', past', b, azure) /\ prFiles'.tracking = f.tracking
<1>1. c.news \in SUBSET Notices
  BY DEF Checks
<1>2. ASSUME NEW notice \in c.news,
             check' = [c EXCEPT !.at = "telling", !.news = @ \ {notice},
                                !.toAdd[TicketOf[notice.pr]] = @ + notice.count],
             past' = [past EXCEPT !.told[notice.pr] = @ + notice.count,
                        !.merged[notice.pr] = IF notice.kind = "merged" THEN @ + 1 ELSE @,
                        !.due[TicketOf[notice.pr]] = @ + notice.count],
             prFiles' = f
      PROVE  Whole(prFiles', check', past', b, azure)
  <2>1. check'.at = "telling" /\ check'.news = c.news \ {notice}
    BY <1>2 DEF Checks
  <2>2. /\ past'.told = [past.told EXCEPT ![notice.pr] = @ + notice.count]
        /\ past'.merged = [past.merged EXCEPT ![notice.pr] = IF notice.kind = "merged" THEN @ + 1 ELSE @]
        /\ past'.written = past.written /\ past'.cut = past.cut
    BY <1>2 DEF Pasts
  <2>3. \A p \in Prs : /\ Told(past', check'.news, p) = Told(past, c.news, p)
                       /\ Merges(past', check'.news, p) = Merges(past, c.news, p)
    <3>1. /\ \A v, m \in c.news : v.pr = m.pr /\ v.kind = m.kind => v = m
          /\ \A v \in c.news : v.kind = "merged" => v.count = 0
      BY DEF NewsFit
    <3> TAKE p \in Prs
    <3>2. \A q \in Prs :
            /\ past'.told[q] = past.told[q] + IF q = notice.pr THEN notice.count ELSE 0
            /\ past'.merged[q] = past.merged[q]
                                   + IF q = notice.pr /\ notice.kind = "merged" THEN 1 ELSE 0
      BY <2>2 DEF Pasts
    <3> QED
      BY <1>1, <2>1, <3>1, <3>2, SumsKept
  <2>4. \A p \in Prs : Fits(p, past', check'.news, azure[p], b[p], f.tracking[p])
    BY <2>2, <2>3 DEF Fits
  <2>5. NewsFit(f, check')
    BY <2>1 DEF NewsFit
  <2>6. Recorded(f, past', b)
    <3>1. f.tracking[notice.pr] # Untracked /\ f.baseline
      BY DEF NewsFit
    <3>2. \A p \in Prs : p # notice.pr =>
            past'.told[p] = past.told[p] /\ past'.merged[p] = past.merged[p]
      BY <2>2 DEF Pasts
    <3> QED
      BY <3>1, <3>2 DEF Recorded
  <2> QED
    BY <1>2, <2>1, <2>4, <2>5, <2>6 DEF Whole, Telling
<1>3. ASSUME c.news = {}, check' = NoCheck, prFiles'.tracking = f.tracking,
             prFiles'.baseline = f.baseline,
             past'.told = past.told, past'.merged = past.merged, past'.written = past.written,
             past.cut \subseteq past'.cut
      PROVE  Whole(prFiles', check', past', b, azure)
  <2>1. check'.news = {} /\ check'.at = "idle"
    BY <1>3 DEF NoCheck
  <2>2. \A p \in Prs : Fits(p, past', {}, azure[p], b[p], f.tracking[p])
    BY <1>3 DEF Fits, Told, Merges
  <2> QED
    BY <1>3, <2>1, <2>2 DEF Whole, Telling, NewsFit, Recorded
<1>4. ASSUME c.news = {}, check' = NoCheck,
             prFiles' = [f EXCEPT !.alerts = MergePrCommentAlerts(@, c.toAdd)],
             past' = [past EXCEPT !.due = [t \in Tickets |-> IF t \in BoardKeys(files) THEN @[t] ELSE 0]]
      PROVE  Whole(prFiles', check', past', b, azure) /\ prFiles'.tracking = f.tracking
  <2>1. /\ prFiles'.tracking = f.tracking /\ prFiles'.baseline = f.baseline
        /\ past'.told = past.told /\ past'.merged = past.merged /\ past'.written = past.written
        /\ past'.cut = past.cut
    BY <1>4 DEF PrFileSets, Pasts
  <2> QED
    BY <1>3, <1>4, <2>1
<1>5. ASSUME c.news = {}, check' = NoCheck, prFiles' = f,
             past' = [past EXCEPT !.cut = @ \cup {t \in Tickets : c.toAdd[t] > 0}]
      PROVE  Whole(prFiles', check', past', b, azure)
  <2>1. /\ past'.told = past.told /\ past'.merged = past.merged /\ past'.written = past.written
        /\ past.cut \subseteq past'.cut
    BY <1>5 DEF Pasts
  <2> QED
    BY <1>3, <1>5, <2>1
<1> QED
  BY <1>2, <1>4, <1>5 DEF GoesOn

LEMMA PassFits ==
  ASSUME NEW c \in Checks, c.at = "asking", NEW n, prFiles \in PrFileSets, past \in Pasts,
         base \in [Prs -> PrStates], azure \in [Prs -> PrStates],
         NewsFit(prFiles, c), Recorded(prFiles, past, base), Asked(prFiles, c, past, base, azure),
         \A p \in Prs : Fits(p, past, {}, azure[p], base[p], prFiles.tracking[p]),
         PassGoesOn(c, n)
  PROVE  Whole(prFiles', check', past', base', azure)
<1> DEFINE saved == [prFiles EXCEPT !.tracking = c.tracking]
           marked == [saved EXCEPT !.baseline = prFiles.baseline \/ c.complete]
           b == [p \in Prs |-> From(prFiles, c, base, p)]
<1>1. /\ saved \in PrFileSets /\ saved.tracking = c.tracking /\ saved.baseline = prFiles.baseline
      /\ marked \in PrFileSets /\ marked.tracking = c.tracking
      /\ marked.baseline = (prFiles.baseline \/ c.complete)
      /\ b \in [Prs -> PrStates]
  BY DEF PrFileSets, Checks, From
<1>2. base' = [p \in Prs |-> IF c.quiet \/ prFiles.tracking[p] = Untracked
                             THEN prFiles'.tracking[p] ELSE base[p]]
  BY DEF PassGoesOn
<1>3. ASSUME prFiles' = prFiles
      PROVE  base' = base
  <2>1. c.quiet => ~prFiles.baseline
    BY DEF Asked
  <2>2. \A p \in Prs : c.quiet \/ prFiles.tracking[p] = Untracked => base[p] = prFiles.tracking[p]
    BY <2>1 DEF Recorded
  <2> QED
    BY <1>2, <1>3, <2>2
<1>4. ASSUME prFiles'.tracking = c.tracking
      PROVE  base' = b
  BY <1>2, <1>4 DEF From
<1>5. CASE c.keys # {}
  <2>1. check' = c /\ prFiles' = prFiles /\ past' = past
    BY <1>5 DEF PassGoesOn
  <2> QED
    BY <1>3, <2>1 DEF Whole, Telling
<1>6. CASE c.keys = {}
  <2>1. \/ GoesOn(c, marked, n)
        \/ check' = NoCheck /\ past' = past /\ prFiles' = prFiles
        \/ check' = NoCheck /\ past' = past /\ prFiles' = saved /\ marked # saved
    <3>1. saved = [prFiles EXCEPT !.tracking = IF SavesTracking(@, c.tracking) THEN c.tracking ELSE @]
      BY DEF SavesTracking, PrFileSets
    <3>2. marked = [saved EXCEPT !.baseline = @ \/ c.complete]
      BY <1>1 DEF PrFileSets
    <3>3. PassEnds(c, n)
      BY <1>6 DEF PassGoesOn
    <3> HIDE DEF saved, marked
    <3> QED
      BY <3>1, <3>2, <3>3 DEF PassEnds
  <2> HIDE DEF saved, marked
  <2>2. Recorded(marked, past, b) /\ Recorded(saved, past, b)
    BY <1>1 DEF Recorded, Asked, From
  <2>3. NewsFit(marked, c)
    BY <1>1 DEF NewsFit, Asked, Checks, Notices
  <2>4. \A p \in Prs : Fits(p, past, c.news, azure[p], b[p], c.tracking[p])
    BY DEF Asked
  <2> HIDE DEF b
  <2>5. CASE GoesOn(c, marked, n)
    <3>1. Whole(prFiles', check', past', b, azure) /\ prFiles'.tracking = c.tracking
      BY <1>1, <2>2, <2>3, <2>4, <2>5, GoesOnFits
    <3> QED
      BY <1>4, <3>1
  <2>6. NoCheck.news = {} /\ NoCheck.at = "idle"
    BY DEF NoCheck
  <2>7. CASE check' = NoCheck /\ past' = past /\ prFiles' = prFiles
    BY <1>3, <2>6, <2>7 DEF Whole, Telling, NewsFit
  <2>8. CASE check' = NoCheck /\ past' = past /\ prFiles' = saved /\ marked # saved
    <3>1. ~prFiles.baseline
      BY <1>1, <2>8 DEF saved, marked, PrFileSets
    <3>2. c.news = {}
      BY <3>1 DEF NewsFit
    <3>3. base' = b
      BY <1>1, <1>4, <2>8
    <3> QED
      BY <1>1, <2>2, <2>4, <2>6, <2>8, <3>2, <3>3 DEF Whole, Telling, NewsFit
  <2> QED
    BY <2>1, <2>5, <2>7, <2>8
<1> QED
  BY <1>5, <1>6

(* What is found of a pull request, the first time and later. *)
LEMMA FirstFits ==
  ASSUME NEW p, NEW h, NEW news, NEW is \in PrStates, Told(h, news, p) = 0, Merges(h, news, p) = 0,
         is.comments <= h.written[p]
  PROVE  Fits(p, h, news, is, is, is)
BY DEF Fits, NoMore, NoLess, NewComments, PrStates

LEMMA FoundFits ==
  ASSUME NEW p \in Prs, NEW h \in Pasts, NEW is \in PrStates, NEW from \in PrStates, NEW was \in PrStates,
         NEW news \in SUBSET Notices, NEW more \in SUBSET Notices, \A n \in news : n.pr # p,
         Fits(p, h, news, is, from, was),
         CommentsIn(more, p) = NewComments(was, is),
         Notice(p, "merged", 0) \in more <=> IsMerged(was, is)
  PROVE  Fits(p, h, more, is, from, is)
<1>1. CommentsIn(news, p) = 0 /\ Notice(p, "merged", 0) \notin news
  BY CommentsNone
<1>2. h.told[p] \in Nat /\ h.merged[p] \in Nat /\ h.written[p] \in Nat
  BY DEF Pasts
<1>3. /\ is.comments \in Nat /\ was.comments \in Nat /\ from.comments \in Nat
      /\ NewComments(was, is) \in Nat /\ NewComments(is, is) = 0
      /\ is.comments <= was.comments + NewComments(was, is)
  BY DEF PrStates, NewComments
<1>4. /\ Told(h, news, p) = h.told[p] /\ Merges(h, news, p) = h.merged[p]
      /\ Told(h, more, p) = h.told[p] + NewComments(was, is)
      /\ Merges(h, more, p) = h.merged[p] + IF IsMerged(was, is) THEN 1 ELSE 0
  BY <1>1, <1>2 DEF Told, Merges
<1>5. NoMore(Told(h, more, p), Merges(h, more, p), h.written[p], is, from, is)
  BY <1>2, <1>3, <1>4 DEF Fits, NoMore, IsMerged
<1>6. ASSUME TicketOf[p] \notin h.cut
      PROVE  NoLess(Told(h, more, p), Merges(h, more, p), from, is)
  <2>1. NoLess(h.told[p], h.merged[p], from, was)
    BY <1>4, <1>6 DEF Fits
  <2>2. h.merged[p] = 1 => was.status = "completed"
    BY <1>4 DEF Fits, NoMore
  <2>3. h.merged[p] <= 1
    BY <1>4 DEF Fits, NoMore
  <2>4. is.comments <= from.comments + Told(h, more, p)
    BY <1>2, <1>3, <1>4, <2>1 DEF NoLess
  <2>5. is.status = "completed" /\ from.status # "completed" => Merges(h, more, p) = 1
    <3>1. CASE was.status = "completed"
      BY <1>2, <1>4, <2>1, <3>1 DEF NoLess, IsMerged
    <3>2. CASE was.status # "completed"
      BY <1>2, <1>4, <2>2, <2>3, <3>2 DEF IsMerged
    <3> QED
      BY <3>1, <3>2
  <2> QED
    BY <2>4, <2>5 DEF NoLess
<1> QED
  BY <1>5, <1>6 DEF Fits
(* What a lookup finds is news of pull requests that had none. *)
LEMMA ChangesAre ==
  ASSUME NEW tracking \in [Prs -> PrStates], azure \in [Prs -> PrStates], NEW known \in SUBSET Prs
  PROVE  /\ \A n \in Changes(tracking, known) :
              /\ n.pr \in known /\ n.kind \in {"merged", "comments"}
              /\ n.kind = "merged" => n.count = 0 /\ IsMerged(tracking[n.pr], azure[n.pr])
              /\ n.kind = "comments" => /\ n.count = NewComments(tracking[n.pr], azure[n.pr])
                                        /\ n.count > 0
              /\ n = Notice(n.pr, n.kind, n.count)
         /\ \A p \in known :
              /\ Notice(p, "merged", 0) \in Changes(tracking, known)
                   <=> IsMerged(tracking[p], azure[p])
              /\ NewComments(tracking[p], azure[p]) > 0 =>
                   Notice(p, "comments", NewComments(tracking[p], azure[p]))
                     \in Changes(tracking, known)
<1>1. \A p, kind, k : /\ Notice(p, kind, k).pr = p /\ Notice(p, kind, k).kind = kind
                      /\ Notice(p, kind, k).count = k
  BY DEF Notice
<1>2. ASSUME NEW n \in Changes(tracking, known)
      PROVE  \/ \E p \in known : n = Notice(p, "merged", 0) /\ IsMerged(tracking[p], azure[p])
             \/ \E p \in known : /\ n = Notice(p, "comments", NewComments(tracking[p], azure[p]))
                                /\ NewComments(tracking[p], azure[p]) > 0
  BY DEF Changes
<1>3. ASSUME NEW p \in known
      PROVE  /\ IsMerged(tracking[p], azure[p]) => Notice(p, "merged", 0) \in Changes(tracking, known)
             /\ NewComments(tracking[p], azure[p]) > 0 =>
                  Notice(p, "comments", NewComments(tracking[p], azure[p]))
                    \in Changes(tracking, known)
  BY DEF Changes
<1>4. \A n \in Changes(tracking, known) :
        /\ n.pr \in known /\ n.kind \in {"merged", "comments"}
        /\ n.kind = "merged" => n.count = 0 /\ IsMerged(tracking[n.pr], azure[n.pr])
        /\ n.kind = "comments" => /\ n.count = NewComments(tracking[n.pr], azure[n.pr])
                                  /\ n.count > 0
        /\ n = Notice(n.pr, n.kind, n.count)
  BY <1>1, <1>2
<1>5. \A p \in known : Notice(p, "merged", 0) \in Changes(tracking, known)
                        => IsMerged(tracking[p], azure[p])
  BY <1>1, <1>4
<1> QED
  BY <1>3, <1>4, <1>5

LEMMA DetectFits ==
  ASSUME prFiles \in PrFileSets, check \in Checks, past \in Pasts,
         base \in [Prs -> PrStates], azure \in [Prs -> PrStates],
         Whole(prFiles, check, past, base, azure), check.at = "asking",
         NEW t \in check.keys, NEW found \in SUBSET OfTicket(t),
         \A p \in found : azure[p] # Untracked,
         NEW c \in Checks, c.quiet = check.quiet, c.keys \subseteq check.keys \ {t},
         c.tracking = DetectChanges(check, found).tracking,
         c.news = DetectChanges(check, found).news
  PROVE  NewsFit(prFiles, c) /\ Asked(prFiles, c, past, base, azure)
<1> DEFINE known == {p \in found : check.tracking[p] # Untracked}
           more == Changes(check.tracking, known)
<1>1. /\ check.tracking \in [Prs -> PrStates] /\ check.news \in SUBSET Notices
      /\ c.news \in SUBSET Notices /\ c.tracking \in [Prs -> PrStates]
      /\ prFiles.tracking \in [Prs -> PrStates]
      /\ found \subseteq Prs /\ \A p \in found : TicketOf[p] = t
  BY DEF Checks, PrFileSets, OfTicket
<1>2. /\ c.tracking = [p \in Prs |-> IF p \in found THEN azure[p] ELSE check.tracking[p]]
      /\ c.news = IF check.quiet THEN check.news ELSE check.news \cup more
  BY DEF DetectChanges, Checks
<1>3. NewsFit(prFiles, check) /\ Recorded(prFiles, past, base) /\ Asked(prFiles, check, past, base, azure)
  BY DEF Whole
<1>4. \A p \in found :
        /\ check.tracking[p] = prFiles.tracking[p] /\ \A n \in check.news : n.pr # p
  BY <1>1, <1>3 DEF Asked
<1>5. \A n \in c.news : n \in check.news \/ (n \in more /\ ~check.quiet)
  BY <1>2
<1>6. /\ \A n \in more :
           /\ n.pr \in known /\ n.kind \in {"merged", "comments"}
           /\ n.kind = "merged" => n.count = 0
           /\ n.kind = "comments" => n.count = NewComments(check.tracking[n.pr], azure[n.pr])
           /\ n = Notice(n.pr, n.kind, n.count)
      /\ \A p \in known :
           /\ Notice(p, "merged", 0) \in more <=> IsMerged(check.tracking[p], azure[p])
           /\ NewComments(check.tracking[p], azure[p]) > 0 =>
                Notice(p, "comments", NewComments(check.tracking[p], azure[p])) \in more
  BY <1>1, ChangesAre
<1>7. check.quiet => ~prFiles.baseline
  BY <1>3 DEF Asked
<1>8. ~check.quiet => prFiles.baseline
  BY <1>3 DEF Asked
<1> HIDE DEF more
<1>9. \A n, m \in c.news : n.pr = m.pr /\ n.kind = m.kind => n = m
  <2> SUFFICES ASSUME NEW n \in c.news, NEW m \in c.news, n.pr = m.pr, n.kind = m.kind
               PROVE  n = m
    OBVIOUS
  <2>1. CASE n \in check.news /\ m \in check.news
    BY <1>3, <2>1 DEF NewsFit
  <2>2. CASE n \in more /\ m \in more
    <3>1. n.count = m.count
      BY <1>6, <2>2
    <3> QED
      BY <1>6, <2>2, <3>1
  <2>3. ~(n \in check.news /\ m \in more) /\ ~(n \in more /\ m \in check.news)
    BY <1>4, <1>6
  <2> QED
    BY <1>5, <2>1, <2>2, <2>3
<1>10. NewsFit(prFiles, c)
  <2>1. \A n \in c.news : /\ n.kind = "merged" => n.count = 0
                          /\ prFiles.tracking[n.pr] # Untracked /\ prFiles.baseline
    <3> TAKE n \in c.news
    <3>1. CASE n \in check.news
      BY <1>3, <3>1 DEF NewsFit
    <3>2. CASE n \in more /\ ~check.quiet
      BY <1>4, <1>6, <1>8, <3>2
    <3> QED
      BY <1>5, <3>1, <3>2
  <2> QED
    BY <1>9, <2>1 DEF NewsFit
<1>11. ASSUME NEW p \in Prs, TicketOf[p] \in c.keys
       PROVE  c.tracking[p] = prFiles.tracking[p] /\ \A n \in c.news : n.pr # p
  <2>1. TicketOf[p] \in check.keys /\ p \notin found
    BY <1>1, <1>11
  <2>2. check.tracking[p] = prFiles.tracking[p] /\ \A n \in check.news : n.pr # p
    BY <1>3, <2>1 DEF Asked
  <2> QED
    BY <1>2, <1>5, <1>6, <2>1, <2>2
<1>12. ASSUME NEW p \in Prs, prFiles.tracking[p] # Untracked
       PROVE  c.tracking[p] # Untracked
  BY <1>2, <1>3, <1>12 DEF Asked
<1>13. ASSUME NEW p \in Prs, p \notin found
       PROVE  Fits(p, past, c.news, azure[p], From(prFiles, c, base, p), c.tracking[p])
  <2>1. c.tracking[p] = check.tracking[p]
    BY <1>2, <1>13
  <2>2. \A n : n.pr = p => (n \in c.news <=> n \in check.news)
    BY <1>2, <1>6, <1>13
  <2>3. CommentsIn(c.news, p) = CommentsIn(check.news, p)
    <3>1. CASE \E n \in check.news : n.pr = p /\ n.kind = "comments"
      <4>1. PICK n \in check.news : n.pr = p /\ n.kind = "comments"
        BY <3>1
      <4>2. CommentsIn(check.news, p) = n.count
        BY <1>1, <1>3, <4>1, CommentsAre DEF NewsFit
      <4>3. n \in c.news
        BY <2>2, <4>1
      <4>4. CommentsIn(c.news, p) = n.count
        BY <1>1, <1>9, <4>1, <4>3, CommentsAre
      <4> QED
        BY <4>2, <4>4
    <3>2. CASE \A n \in check.news : ~(n.pr = p /\ n.kind = "comments")
      <4>1. \A n \in c.news : ~(n.pr = p /\ n.kind = "comments")
        BY <2>2, <3>2
      <4>2. CommentsIn(c.news, p) = 0
        BY <1>1, <1>9, <4>1, CommentsAre
      <4>3. CommentsIn(check.news, p) = 0
        BY <1>1, <1>3, <3>2, CommentsAre DEF NewsFit
      <4> QED
        BY <4>2, <4>3
    <3> QED
      BY <3>1, <3>2
  <2>4. Notice(p, "merged", 0) \in c.news <=> Notice(p, "merged", 0) \in check.news
    <3>1. Notice(p, "merged", 0).pr = p
      BY DEF Notice
    <3> QED
      BY <2>2, <3>1
  <2>5. From(prFiles, c, base, p) = From(prFiles, check, base, p)
    BY <2>1 DEF From
  <2>6. Fits(p, past, check.news, azure[p], From(prFiles, check, base, p), check.tracking[p])
    BY <1>3 DEF Asked
  <2>7. Told(past, c.news, p) = Told(past, check.news, p) /\ Merges(past, c.news, p) = Merges(past, check.news, p)
    BY <2>3, <2>4 DEF Told, Merges
  <2> QED
    BY <2>1, <2>5, <2>6, <2>7 DEF Fits
<1>14. ASSUME NEW p \in found, check.quiet \/ prFiles.tracking[p] = Untracked
       PROVE  Fits(p, past, c.news, azure[p], From(prFiles, c, base, p), c.tracking[p])
  <2>1. c.tracking[p] = azure[p] /\ From(prFiles, c, base, p) = azure[p] /\ p \in Prs
    BY <1>1, <1>2, <1>14 DEF From
  <2>2. past.told[p] = 0 /\ past.merged[p] = 0
    BY <1>1, <1>3, <1>7, <1>14 DEF Recorded
  <2>3. \A n \in c.news : n.pr # p
    BY <1>7, <1>10, <1>14 DEF NewsFit
  <2>4. Told(past, c.news, p) = 0 /\ Merges(past, c.news, p) = 0
    BY <2>2, <2>3, CommentsNone DEF Told, Merges
  <2>5. azure[p].comments <= past.written[p] /\ azure[p] \in PrStates
    BY <2>1 DEF Whole, Fits, NoMore
  <2> QED
    BY <2>1, <2>4, <2>5, FirstFits
<1>15. ASSUME NEW p \in found, ~check.quiet, prFiles.tracking[p] # Untracked
       PROVE  Fits(p, past, c.news, azure[p], From(prFiles, c, base, p), c.tracking[p])
  <2> DEFINE was == check.tracking[p]
  <2>1. /\ c.tracking[p] = azure[p] /\ From(prFiles, c, base, p) = base[p]
        /\ From(prFiles, check, base, p) = base[p] /\ p \in Prs
    BY <1>1, <1>2, <1>15 DEF From
  <2>2. p \in known /\ \A n \in check.news : n.pr # p
    BY <1>4, <1>15
  <2>3. Fits(p, past, check.news, azure[p], base[p], was)
    BY <1>3, <2>1 DEF Asked
  <2>4. was \in PrStates /\ azure[p] \in PrStates /\ base[p] \in PrStates
    BY <1>1, <2>1
  <2>5. NewComments(was, azure[p]) \in Nat
    BY <2>4 DEF PrStates, NewComments
  <2>6. c.news = check.news \cup more
    BY <1>2, <1>15
  <2> HIDE DEF was, known
  <2>7. CommentsIn(c.news, p) = NewComments(was, azure[p])
    <3>1. CASE NewComments(was, azure[p]) > 0
      <4> DEFINE n == Notice(p, "comments", NewComments(was, azure[p]))
      <4>1. n \in c.news
        BY <1>6, <2>2, <2>6, <3>1 DEF was
      <4>2. n.pr = p /\ n.kind = "comments" /\ n.count = NewComments(was, azure[p])
        BY DEF Notice
      <4> HIDE DEF n
      <4> QED
        BY <1>1, <1>9, <4>1, <4>2, CommentsAre
    <3>2. CASE NewComments(was, azure[p]) = 0
      <4>1. \A n \in c.news : ~(n.pr = p /\ n.kind = "comments")
        <5>1. \A n \in more : n.kind = "comments" => n.count > 0
          BY <1>1, ChangesAre DEF more, known
        <5> QED
          BY <1>6, <2>2, <2>6, <3>2, <5>1 DEF was
      <4> QED
        BY <1>1, <1>9, <3>2, <4>1, CommentsAre
    <3> QED
      BY <2>5, <3>1, <3>2
  <2>8. Notice(p, "merged", 0) \in c.news <=> IsMerged(was, azure[p])
    <3>1. Notice(p, "merged", 0) \notin check.news
      BY <2>2 DEF Notice
    <3> QED
      BY <1>6, <2>2, <2>6, <3>1 DEF was
  <2>9. Fits(p, past, c.news, azure[p], base[p], azure[p])
    BY <1>1, <2>1, <2>2, <2>3, <2>4, <2>7, <2>8, FoundFits
  <2> QED
    BY <2>1, <2>9
<1>16. c.quiet = ~prFiles.baseline
  BY <1>3 DEF Asked
<1> QED
  BY <1>10, <1>11, <1>12, <1>13, <1>14, <1>15, <1>16 DEF Asked

LEMMA CheckTyped ==
  ASSUME CheckInv
  PROVE  /\ prFiles \in PrFileSets /\ check \in Checks /\ past \in Pasts
         /\ azure \in [Prs -> PrStates] /\ base \in [Prs -> PrStates]
         /\ files \in Good
BY DEF CheckInv, Counted, Inv

LEMMA PrStepsWhole ==
  ASSUME CheckInv, ToldInv, PrSteps
  PROVE  ToldInv'
<1> USE CheckTyped
<1>1. CASE PrsBegin
  <2> DEFINE keys == TrackedTickets(files, prFiles.tracking)
             c == [NoCheck EXCEPT !.at = "asking", !.tracking = prFiles.tracking,
                                  !.quiet = ~prFiles.baseline, !.keys = keys]
  <2>1. keys \subseteq Tickets
    BY GoodFiles, Ranged DEF TrackedTickets
  <2>2. prFiles.tracking \in [Prs -> PrStates] /\ prFiles.baseline \in BOOLEAN
    BY DEF PrFileSets
  <2> HIDE DEF keys
  <2>3. /\ c \in Checks /\ c.at = "asking" /\ c.tracking = prFiles.tracking
        /\ c.quiet = ~prFiles.baseline /\ c.news = {}
    BY <2>1, <2>2, PrTyped DEF NoCheck, Checks
  <2>4. PassGoesOn(c, 0) /\ azure' = azure
    BY <1>1 DEF PrsBegin, keys
  <2>5. Recorded(prFiles, past, base)
        /\ \A p \in Prs : Fits(p, past, {}, azure[p], base[p], prFiles.tracking[p])
    <3>1. Telling(check) = {}
      BY <1>1 DEF PrsBegin, Telling
    <3> QED
      BY <3>1 DEF ToldInv, Whole
  <2> HIDE DEF c
  <2>6. \A p \in Prs : From(prFiles, c, base, p) = base[p]
    BY <2>2, <2>3, <2>5 DEF From, Recorded
  <2>7. Asked(prFiles, c, past, base, azure)
    BY <2>3, <2>5, <2>6 DEF Asked
  <2>8. NewsFit(prFiles, c)
    BY <2>3 DEF NewsFit
  <2>9. Whole(prFiles', check', past', base', azure)
    BY <2>3, <2>4, <2>5, <2>7, <2>8, PassFits
  <2> QED
    BY <2>4, <2>9 DEF ToldInv
<1>2. ASSUME NEW t \in Tickets, PrsLookedUp(t)
      PROVE  ToldInv'
  <2>1. PICK found \in SUBSET {p \in OfTicket(t) : azure[p] # Untracked}, ok \in BOOLEAN, down \in BOOLEAN :
          PassGoesOn([DetectChanges(check, found) EXCEPT
                        !.keys = IF down THEN {} ELSE @ \ {t}, !.complete = @ /\ ok],
                     IF ok THEN 0 ELSE 1)
    BY <1>2 DEF PrsLookedUp
  <2> DEFINE d == DetectChanges(check, found)
             keys == IF down THEN {} ELSE d.keys \ {t}
             complete == d.complete /\ ok
             c == [d EXCEPT !.keys = keys, !.complete = complete]
             n == IF ok THEN 0 ELSE 1
  <2>2. found \in SUBSET Prs /\ found \in SUBSET OfTicket(t) /\ \A p \in found : azure[p] # Untracked
    BY <2>1 DEF OfTicket
  <2>3. /\ d \in Checks /\ d.at = check.at /\ d.keys = check.keys
        /\ d.quiet = check.quiet
    <3>1. d.quiet = check.quiet
      BY DEF DetectChanges, Checks
    <3> QED
      BY <2>2, <3>1, DetectChangesTyped
  <2>4. check.at = "asking" /\ t \in check.keys /\ azure' = azure
    BY <1>2 DEF PrsLookedUp
  <2> HIDE DEF d
  <2>5. keys \subseteq check.keys \ {t} /\ keys \subseteq Tickets /\ complete \in BOOLEAN
    BY <2>3 DEF Checks
  <2>6. PassGoesOn(c, n)
    BY <2>1, <2>3 DEF d, Checks
  <2> HIDE DEF keys, complete, n
  <2>7. /\ c \in Checks /\ c.at = "asking" /\ c.keys = keys /\ c.quiet = check.quiet
        /\ c.tracking = d.tracking /\ c.news = d.news
    BY <2>3, <2>4, <2>5 DEF Checks
  <2> HIDE DEF c
  <2>8. Whole(prFiles, check, past, base, azure)
    BY DEF ToldInv
  <2>9. NewsFit(prFiles, c) /\ Asked(prFiles, c, past, base, azure)
    BY <2>2, <2>4, <2>5, <2>7, <2>8, DetectFits DEF d
  <2>10. /\ Recorded(prFiles, past, base)
         /\ \A p \in Prs : Fits(p, past, {}, azure[p], base[p], prFiles.tracking[p])
    BY <2>4, <2>8 DEF Whole, Telling
  <2>11. Whole(prFiles', check', past', base', azure)
    BY <2>6, <2>7, <2>9, <2>10, PassFits
  <2> QED
    BY <2>4, <2>11 DEF ToldInv
<1>3. CASE TeamsAnswers
  <2>1. /\ check.at = "telling" /\ GoesOn(check, prFiles, 0)
        /\ base' = base /\ azure' = azure
    BY <1>3 DEF TeamsAnswers
  <2>2. /\ NewsFit(prFiles, check) /\ Recorded(prFiles, past, base)
        /\ \A p \in Prs : Fits(p, past, check.news, azure[p], base[p], prFiles.tracking[p])
    BY <2>1 DEF ToldInv, Whole, Telling
  <2>3. Whole(prFiles', check', past', base, azure)
    BY <2>1, <2>2, GoesOnFits
  <2> QED
    BY <2>1, <2>3 DEF ToldInv
<1> QED
  BY <1>1, <1>2, <1>3 DEF PrSteps

(* An account is as good where the same was told of the same comments. *)
LEMMA SameWhole ==
  ASSUME NEW f, NEW c, NEW h, NEW b, NEW a, NEW f2, NEW c2, NEW h2,
         Whole(f, c, h, b, a),
         f2.tracking = f.tracking, f2.baseline = f.baseline,
         h2.told = h.told, h2.merged = h.merged, h2.written = h.written, h2.cut = h.cut,
         \/ c2 = c
         \/ c2.at \notin {"asking", "telling"} /\ c2.news = c.news /\ c.at # "telling"
  PROVE  Whole(f2, c2, h2, b, a)
<1>1. \A p, news, is, from, was : Fits(p, h, news, is, from, was) => Fits(p, h2, news, is, from, was)
  BY SameFits
<1>2. NewsFit(f2, c2) /\ Recorded(f2, h2, b)
  BY DEF Whole, NewsFit, Recorded
<1>3. Telling(c2) = Telling(c)
  BY DEF Telling
<1>4. ASSUME c2.at = "asking"
      PROVE  Asked(f2, c2, h2, b, a)
  <2>1. c2 = c /\ Asked(f, c, h, b, a)
    BY <1>4 DEF Whole
  <2>2. \A p : From(f2, c, b, p) = From(f, c, b, p)
    BY DEF From
  <2> QED
    BY <1>1, <2>1, <2>2 DEF Asked
<1> QED
  BY <1>1, <1>2, <1>3, <1>4 DEF Whole

LEMMA EditsWhole ==
  ASSUME CheckInv, ToldInv, Edits
  PROVE  ToldInv'
<1> USE CheckTyped
<1>1. PICK p \in Prs : Edit(p)
  BY DEF Edits
<1>2. prFiles' = prFiles /\ check' = check /\ base' = base
  BY DEF Edits
<1>3. /\ azure' \in [Prs -> PrStates] /\ past.written[p] \in Nat
      /\ azure[p].comments \in Nat /\ azure'[p].comments \in Nat
      /\ azure[p].status = "completed" => azure'[p].status = "completed"
      /\ \A q \in Prs \ {p} : azure'[q] = azure[q]
  <2>1. azure' \in [Prs -> PrStates]
    BY EditsCounted
  <2>2. azure[p].status = "completed" => azure'[p].status = "completed"
    BY <1>1 DEF Edit, Becomes, Pr
  <2>3. \A q \in Prs \ {p} : azure'[q] = azure[q]
    BY <1>1 DEF Edit, Becomes
  <2> QED
    BY <2>1, <2>2, <2>3 DEF PrStates, Pasts
<1>4. /\ past'.told = past.told /\ past'.merged = past.merged /\ past'.cut = past.cut
      /\ \A q \in Prs \ {p} : past'.written[q] = past.written[q]
      /\ \/ past'.written[p] = past.written[p] /\ azure'[p].comments <= azure[p].comments
         \/ /\ past'.written[p] = past.written[p] + 1
            /\ azure'[p].comments = azure[p].comments + 1
  <2>1. CASE /\ azure[p].status # "none" /\ Becomes(p, Pr(azure[p].status, azure[p].comments + 1))
             /\ past' = [past EXCEPT !.written[p] = @ + 1]
    BY <2>1 DEF Pasts, Becomes, Pr
  <2>2. CASE /\ \/ azure[p].status = "none" /\ Becomes(p, Pr("active", 0))
                \/ azure[p].status = "active" /\ \E status \in Closed : Becomes(p, Pr(status, azure[p].comments))
                \/ azure[p].status = "abandoned" /\ Becomes(p, Pr("active", azure[p].comments))
                \/ azure[p].comments > 0 /\ Becomes(p, Pr(azure[p].status, azure[p].comments - 1))
             /\ UNCHANGED past
    <3>1. azure'[p].comments <= azure[p].comments
      BY <1>3, <2>2 DEF Becomes, Pr
    <3> QED
      BY <2>2, <3>1
  <2> QED
    BY <1>1, <2>1, <2>2 DEF Edit
<1>5. ASSUME NEW q \in Prs, NEW news \in SUBSET Notices, NEW from \in PrStates, NEW was \in PrStates,
             \A n, m \in news : n.pr = m.pr /\ n.kind = m.kind => n = m,
             Fits(q, past, news, azure[q], from, was)
      PROVE  Fits(q, past', news, azure'[q], from, was)
  <2>1. /\ Told(past', news, q) = Told(past, news, q) /\ Merges(past', news, q) = Merges(past, news, q)
        /\ Told(past, news, q) \in Nat /\ from.comments \in Nat /\ was.comments \in Nat
    BY <1>4, <1>5, Sums DEF Told, Merges, PrStates
  <2>2. CASE q = p
    <3>1. NoMore(Told(past', news, q), Merges(past', news, q), past'.written[q], azure'[q], from, was)
      BY <1>3, <1>4, <1>5, <2>1, <2>2 DEF Fits, NoMore, NewComments
    <3> QED
      BY <1>4, <1>5, <2>1, <3>1 DEF Fits
  <2>3. CASE q # p
    BY <1>3, <1>4, <1>5, <2>1, <2>3 DEF Fits
  <2> QED
    BY <2>2, <2>3
<1>6. /\ prFiles.tracking \in [Prs -> PrStates] /\ check.tracking \in [Prs -> PrStates]
      /\ check.news \in SUBSET Notices
      /\ \A n, m \in check.news : n.pr = m.pr /\ n.kind = m.kind => n = m
      /\ \A q \in Prs : From(prFiles, check, base, q) \in PrStates
  BY DEF PrFileSets, Checks, ToldInv, Whole, NewsFit, From
<1>7. NewsFit(prFiles, check) /\ Recorded(prFiles, past', base)
  BY <1>4 DEF ToldInv, Whole, Recorded
<1>8. \A q \in Prs : Fits(q, past', Telling(check), azure'[q], base[q], prFiles.tracking[q])
  BY <1>5, <1>6 DEF ToldInv, Whole, Telling
<1>9. ASSUME check.at = "asking"
      PROVE  Asked(prFiles, check, past', base, azure')
  <2>1. Asked(prFiles, check, past, base, azure)
    BY <1>9 DEF ToldInv, Whole
  <2>2. \A q \in Prs : Fits(q, past', check.news, azure'[q], From(prFiles, check, base, q), check.tracking[q])
    BY <1>5, <1>6, <2>1 DEF Asked
  <2> QED
    BY <2>1, <2>2 DEF Asked
<1> QED
  BY <1>2, <1>7, <1>8, <1>9 DEF ToldInv, Whole

LEMMA KillWhole ==
  ASSUME CheckInv, ToldInv, Kill
  PROVE  ToldInv'
<1> USE CheckTyped
<1>1. /\ prFiles' = prFiles /\ base' = base /\ azure' = azure
      /\ check'.at = "idle" /\ check'.news = {}
  BY DEF Kill, NoCheck
<1>2. /\ past'.told = past.told /\ past'.merged = past.merged /\ past'.written = past.written
      /\ past.cut \subseteq past'.cut
      /\ \A n \in Telling(check) : TicketOf[n.pr] \in past'.cut
  BY DEF Kill, Pasts, Telling
<1>3. past' \in Pasts
  BY KillCounted DEF Counted
<1>4. /\ Telling(check) \in SUBSET Notices
      /\ \A n, m \in Telling(check) : n.pr = m.pr /\ n.kind = m.kind => n = m
  BY DEF Checks, Telling, ToldInv, Whole, NewsFit
<1>5. ASSUME NEW p \in Prs
      PROVE  Fits(p, past', {}, azure[p], base[p], prFiles.tracking[p])
  <2>1. Fits(p, past, Telling(check), azure[p], base[p], prFiles.tracking[p])
    BY DEF ToldInv, Whole
  <2>2. azure[p] \in PrStates /\ base[p] \in PrStates /\ prFiles.tracking[p] \in PrStates
    BY DEF PrFileSets
  <2>3. TicketOf[p] \in past'.cut \/ \A n \in Telling(check) : n.pr # p
    BY <1>2
  <2> HIDE DEF Telling
  <2> QED
    BY <1>2, <1>3, <1>4, <2>1, <2>2, <2>3, LostFits
<1>6. NewsFit(prFiles', check') /\ Recorded(prFiles', past', base)
  BY <1>1, <1>2 DEF NewsFit, ToldInv, Whole, Recorded
<1> QED
  BY <1>1, <1>5, <1>6 DEF ToldInv, Whole, Telling

LEMMA InitWhole ==
  CheckInit => ToldInv
<1> SUFFICES ASSUME CheckInit PROVE ToldInv
  OBVIOUS
<1>1. check.news = {} /\ check.at = "idle"
  BY DEF CheckInit, NoCheck
<1>2. NewsFit(prFiles, check) /\ Recorded(prFiles, past, base)
  BY <1>1 DEF NewsFit, Recorded, CheckInit
<1>3. ASSUME NEW p \in Prs
      PROVE  Fits(p, past, {}, azure[p], base[p], prFiles.tracking[p])
  <2>1. /\ azure[p] = Untracked /\ base[p] = Untracked /\ prFiles.tracking[p] = Untracked
        /\ Untracked \in PrStates /\ Untracked.comments = 0
    BY PrTyped DEF CheckInit, NoTracking, Untracked, Pr
  <2>2. past.told[p] = 0 /\ past.merged[p] = 0 /\ past.written[p] = 0
    BY DEF CheckInit
  <2>3. Told(past, {}, p) = 0 /\ Merges(past, {}, p) = 0
    BY <2>2, CommentsNone DEF Told, Merges
  <2> QED
    BY <2>1, <2>2, <2>3, FirstFits
<1> QED
  BY <1>1, <1>2, <1>3 DEF ToldInv, Whole, Telling

LEMMA NextWhole ==
  ASSUME CheckInv, ToldInv, [CheckNext]_allVars
  PROVE  ToldInv'
<1> USE CheckTyped
<1>1. CASE UNCHANGED prVars
  BY <1>1 DEF prVars, ToldInv
<1>2. CASE CheckBegins
  <2>1. /\ check'.at \notin {"asking", "telling"} /\ check'.news = check.news
        /\ check.at # "telling"
        /\ prFiles' = prFiles /\ past' = past /\ base' = base /\ azure' = azure
    BY <1>2 DEF CheckBegins, Checks
  <2> QED
    BY <2>1, SameWhole DEF ToldInv
<1>3. CASE PrSteps
  BY <1>3, PrStepsWhole
<1>4. ASSUME NEW t \in Tickets, Clear(t)
      PROVE  ToldInv'
  <2>1. /\ check' = check /\ base' = base /\ azure' = azure
        /\ prFiles'.tracking = prFiles.tracking /\ prFiles'.baseline = prFiles.baseline
        /\ past'.told = past.told /\ past'.merged = past.merged
        /\ past'.written = past.written /\ past'.cut = past.cut
    BY <1>4 DEF Clear, PrFileSets, Pasts
  <2> QED
    BY <2>1, SameWhole DEF ToldInv
<1>5. CASE Edits
  BY <1>5, EditsWhole
<1>6. CASE Kill
  BY <1>6, KillWhole
<1> QED
  BY <1>1, <1>2, <1>3, <1>4, <1>5, <1>6
  DEF CheckNext, PollBegins, QueryFails, allVars, prVars

(* Every comment and every merge is told once, for any tickets and pull    *)
(* requests: no more than was written, whatever lookups and saves fail and *)
(* whatever is deleted meanwhile; and no less than the file knows, unless  *)
(* the app died in the midst of telling, or the count could not be saved.  *)
THEOREM ToldOnce == CheckSpec => []ToldExactlyOnce
<1>1. CheckInv /\ ToldInv => ToldExactlyOnce
  <2> SUFFICES ASSUME CheckInv, ToldInv, NEW p \in Prs
               PROVE  /\ past.told[p] <= past.written[p] - base[p].comments
                      /\ past.merged[p] <= 1
                      /\ TicketOf[p] \notin past.cut =>
                           /\ prFiles.tracking[p].comments
                                <= base[p].comments + past.told[p] + PendingComments(p)
                           /\ prFiles.tracking[p].status = "completed" /\ base[p].status # "completed"
                                => past.merged[p] = 1 \/ PendingMerge(p)
    BY DEF ToldExactlyOnce
  <2> DEFINE news == Telling(check)
  <2>1. /\ news \in SUBSET Notices
        /\ \A n, m \in news : n.pr = m.pr /\ n.kind = m.kind => n = m
    BY CheckTyped DEF Checks, Telling, ToldInv, Whole, NewsFit
  <2>2. PendingComments(p) = CommentsIn(news, p)
    BY DEF PendingComments, CommentsIn, Telling
  <2>3. PendingMerge(p) <=> Notice(p, "merged", 0) \in news
    BY DEF PendingMerge, Telling
  <2>4. Fits(p, past, news, azure[p], base[p], prFiles.tracking[p])
    BY DEF ToldInv, Whole
  <2> HIDE DEF news
  <2>5. /\ past.told[p] \in Nat /\ past.merged[p] \in Nat /\ past.written[p] \in Nat
        /\ Told(past, news, p) \in Nat /\ Merges(past, news, p) \in Nat
        /\ past.told[p] <= Told(past, news, p) /\ past.merged[p] <= Merges(past, news, p)
    BY <2>1, CheckTyped, Sums
  <2>6. base[p].comments \in Nat /\ NewComments(prFiles.tracking[p], azure[p]) \in Nat
    BY CheckTyped DEF PrStates, PrFileSets, NewComments
  <2>7. past.told[p] <= past.written[p] - base[p].comments /\ past.merged[p] <= 1
    BY <2>4, <2>5, <2>6 DEF Fits, NoMore
  <2>8. ASSUME TicketOf[p] \notin past.cut
        PROVE  /\ prFiles.tracking[p].comments
                    <= base[p].comments + past.told[p] + PendingComments(p)
               /\ prFiles.tracking[p].status = "completed" /\ base[p].status # "completed"
                    => past.merged[p] = 1 \/ PendingMerge(p)
    <3>1. CommentsIn(news, p) \in Nat /\ prFiles.tracking[p].comments \in Nat
      BY <2>1, CommentsAre, CheckTyped DEF PrFileSets, PrStates
    <3>2. NoLess(Told(past, news, p), Merges(past, news, p), base[p], prFiles.tracking[p])
      BY <2>4, <2>8 DEF Fits
    <3> QED
      BY <2>2, <2>3, <2>5, <2>6, <3>1, <3>2 DEF NoLess, Told, Merges
  <2> QED
    BY <2>7, <2>8
<1> QED
  BY <1>1, CheckInitGood, CheckNextGood, InitWhole, NextWhole, PTL DEF CheckSpec
=============================================================================
