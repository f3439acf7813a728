---------------------------- MODULE WorkLog_proofs ----------------------------
(***************************************************************************)
(* The safety of WorkLog for any tickets, clock times, page jobs and       *)
(* bounds, and that it implements Outbox.                                  *)
(*                                                                         *)
(* The inductive invariant Inv has a part for each thing a late step has   *)
(* to rely on: what a job holds at each station (Phases), that the day is  *)
(* recorded before a cell is (Recorded), which column the drain is ahead   *)
(* in (Mirrored), that every slot is of a list that was sent, and none of  *)
(* the drain's got lost (Accounted), what Start has read (StartSafe), and  *)
(* that what leaves the queue was delivered (Due).                         *)
(***************************************************************************)
EXTENDS WorkLog, TimeSlots_proofs, FiniteSetTheorems

(* A booking HRM may be sent. *)
Booking == {s \in [ticket : Tickets, start : Int, end : Int] : s.start <= s.end}

-----------------------------------------------------------------------------
(* The lists. *)

Distinct(s) == \A i, j \in 1 .. Len(s) : s[i] = s[j] => i = j

LEMMA ListsAre ==
  ASSUME NEW s
  PROVE  s \in Lists <=> s \in Seq(Tickets) /\ Distinct(s)
<1>0. IsFiniteSet(Tickets)
  BY WorkLogAssumption
<1>1. Cardinality(Tickets) \in Nat
  BY <1>0, FS_CardinalityType
<1>2. ASSUME s \in Lists PROVE s \in Seq(Tickets) /\ Distinct(s)
  <2>1. s \in SeqOf(Tickets, Cardinality(Tickets)) /\ IsInjective(s)
    BY <1>2 DEF Lists
  <2>2. s \in Seq(Tickets)
    BY <1>1, <2>1 DEF SeqOf
  <2> QED
    BY <2>1, <2>2 DEF IsInjective, Distinct
<1>3. ASSUME s \in Seq(Tickets), Distinct(s) PROVE s \in Lists
  <2>1. Len(s) \in Nat /\ s \in [1 .. Len(s) -> Tickets] /\ DOMAIN s = 1 .. Len(s)
    BY <1>3
  <2>2. s \in Injection(1 .. Len(s), Tickets)
    BY <1>3, <2>1 DEF Injection, IsInjective, Distinct
  <2>3. Cardinality(1 .. Len(s)) <= Cardinality(Tickets)
    BY <1>0, <2>2, FS_Injection
  <2>4. Cardinality(1 .. Len(s)) = Len(s)
    BY SMTT(40), <2>1, FS_Interval
  <2>5. s \in SeqOf(Tickets, Cardinality(Tickets))
    BY <1>1, <2>1, <2>3, <2>4 DEF SeqOf
  <2>6. IsInjective(s)
    BY <1>3, <2>1 DEF IsInjective, Distinct
  <2> QED
    BY <2>5, <2>6 DEF Lists
<1> QED
  BY <1>2, <1>3

LEMMA ListMembers ==
  ASSUME NEW s \in Lists
  PROVE  /\ ToSet(s) \subseteq Tickets
         /\ \A t : t \in ToSet(s) <=> \E i \in 1 .. Len(s) : s[i] = t
         /\ Len(s) \in Nat /\ (s # <<>> => Len(s) \in Nat \ {0})
<1>1. s \in Seq(Tickets)
  BY ListsAre
<1> QED
  BY <1>1 DEF ToSet

LEMMA LessOfList ==
  ASSUME NEW s \in Lists, NEW drop
  PROVE  Less(s, drop) \in Lists /\ ToSet(Less(s, drop)) = ToSet(s) \ drop
<1>1. s \in Seq(Tickets) /\ Distinct(s)
  BY ListsAre
<1> DEFINE l == Less(s, drop)
<1>2. /\ l \in Seq(Tickets) /\ Distinct(l)
      /\ \A k \in 1 .. Len(l) : \E i \in 1 .. Len(s) : l[k] = s[i] /\ s[i] \notin drop
      /\ \A i \in 1 .. Len(s) : s[i] \notin drop => \E k \in 1 .. Len(l) : l[k] = s[i]
  BY <1>1, LessIs DEF Distinct
<1> HIDE DEF l
<1>3. l \in Lists
  BY <1>2, ListsAre
<1>4. ASSUME NEW t PROVE t \in ToSet(l) <=> t \in ToSet(s) \ drop
  <2>1. ASSUME t \in ToSet(l) PROVE t \in ToSet(s) \ drop
    <3>1. PICK k \in 1 .. Len(l) : l[k] = t
      BY <1>3, <2>1, ListMembers
    <3>2. PICK i \in 1 .. Len(s) : l[k] = s[i] /\ s[i] \notin drop
      BY <1>2
    <3> QED
      BY <3>1, <3>2, ListMembers
  <2>2. ASSUME t \in ToSet(s) \ drop PROVE t \in ToSet(l)
    <3>1. PICK i \in 1 .. Len(s) : s[i] = t
      BY <2>2, ListMembers
    <3>2. PICK k \in 1 .. Len(l) : l[k] = s[i]
      BY <1>2, <2>2, <3>1
    <3> QED
      BY <1>3, <3>1, <3>2, ListMembers
  <2> QED
    BY <2>1, <2>2
<1> QED
  BY <1>3, <1>4 DEF l

LEMMA JoinedList ==
  ASSUME NEW s \in Lists, NEW u \in Lists, ToSet(u) \cap ToSet(s) = {}
  PROVE  s \o u \in Lists /\ ToSet(s \o u) = ToSet(s) \cup ToSet(u)
<1>1. s \in Seq(Tickets) /\ Distinct(s) /\ u \in Seq(Tickets) /\ Distinct(u)
  BY ListsAre
<1> DEFINE w == s \o u
<1>2. /\ w \in Seq(Tickets) /\ Len(w) = Len(s) + Len(u) /\ Len(s) \in Nat /\ Len(u) \in Nat
      /\ \A k \in 1 .. Len(s) : w[k] = s[k]
      /\ \A k \in Len(s) + 1 .. Len(w) : w[k] = u[k - Len(s)]
  BY <1>1
<1> HIDE DEF w
<1>3. ASSUME NEW i \in 1 .. Len(w), NEW j \in 1 .. Len(w), w[i] = w[j] PROVE i = j
  <2>1. \A m \in 1 .. Len(w) : m \notin 1 .. Len(s) =>
          m \in Len(s) + 1 .. Len(w) /\ m - Len(s) \in 1 .. Len(u) /\ w[m] = u[m - Len(s)]
    BY <1>2
  <2>2. CASE i \in 1 .. Len(s) /\ j \in 1 .. Len(s)
    BY <1>1, <1>2, <1>3, <2>2 DEF Distinct
  <2>3. CASE i \notin 1 .. Len(s) /\ j \notin 1 .. Len(s)
    <3>1. u[i - Len(s)] = u[j - Len(s)] /\ i - Len(s) \in 1 .. Len(u) /\ j - Len(s) \in 1 .. Len(u)
      BY <1>3, <2>1, <2>3
    <3>2. i - Len(s) = j - Len(s)
      BY <1>1, <3>1 DEF Distinct
    <3> QED
      BY <1>2, <3>2
  <2>4. CASE i \in 1 .. Len(s) /\ j \notin 1 .. Len(s)
    <3>1. w[i] \in ToSet(s) /\ w[j] \in ToSet(u)
      BY <1>2, <2>1, <2>4, ListMembers
    <3> QED
      BY <1>3, <3>1
  <2>5. CASE i \notin 1 .. Len(s) /\ j \in 1 .. Len(s)
    <3>1. w[j] \in ToSet(s) /\ w[i] \in ToSet(u)
      BY <1>2, <2>1, <2>5, ListMembers
    <3> QED
      BY <1>3, <3>1
  <2> QED
    BY <2>2, <2>3, <2>4, <2>5
<1>4. w \in Lists
  BY <1>2, <1>3, ListsAre DEF Distinct
<1>5. ASSUME NEW t PROVE t \in ToSet(w) <=> t \in ToSet(s) \cup ToSet(u)
  <2>1. ASSUME t \in ToSet(w) PROVE t \in ToSet(s) \cup ToSet(u)
    <3>1. PICK k \in 1 .. Len(w) : w[k] = t
      BY <1>4, <2>1, ListMembers
    <3>2. CASE k \in 1 .. Len(s)
      BY <1>2, <3>1, <3>2, ListMembers
    <3>3. CASE k \notin 1 .. Len(s)
      <4>1. k \in Len(s) + 1 .. Len(w) /\ k - Len(s) \in 1 .. Len(u)
        BY <1>2, <3>3
      <4>2. u[k - Len(s)] = t
        BY <1>2, <3>1, <4>1
      <4> QED
        BY <4>1, <4>2, ListMembers
    <3> QED
      BY <3>2, <3>3
  <2>2. ASSUME t \in ToSet(s) PROVE t \in ToSet(w)
    <3>1. PICK k \in 1 .. Len(s) : s[k] = t
      BY <2>2, ListMembers
    <3>2. k \in 1 .. Len(w) /\ w[k] = t
      BY <1>2, <3>1
    <3> QED
      BY <1>4, <3>2, ListMembers
  <2>3. ASSUME t \in ToSet(u) PROVE t \in ToSet(w)
    <3>1. PICK k \in 1 .. Len(u) : u[k] = t
      BY <2>3, ListMembers
    <3>2. k + Len(s) \in Len(s) + 1 .. Len(w) /\ k + Len(s) \in 1 .. Len(w)
          /\ (k + Len(s)) - Len(s) = k
      BY <1>2, <3>1
    <3>3. w[k + Len(s)] = t
      BY <1>2, <3>1, <3>2
    <3> QED
      BY <1>4, <3>2, <3>3, ListMembers
  <2> QED
    BY <2>1, <2>2, <2>3
<1> QED
  BY <1>4, <1>5 DEF w

LEMMA AppendedList ==
  ASSUME NEW s \in Lists, NEW t \in Tickets, t \notin ToSet(s)
  PROVE  /\ Append(s, t) \in Lists /\ ToSet(Append(s, t)) = ToSet(s) \cup {t}
         /\ Append(s, t) = <<t>> => s = <<>>
<1>1. s \in Seq(Tickets)
  BY ListsAre
<1>2. Append(s, t) = s \o <<t>>
  BY <1>1
<1>3. <<t>> \in Lists /\ ToSet(<<t>>) = {t}
  <2>1. <<t>> \in Seq(Tickets) /\ Distinct(<<t>>)
    BY DEF Distinct
  <2>2. <<t>> \in Lists
    BY <2>1, ListsAre
  <2>3. ASSUME NEW u PROVE u \in ToSet(<<t>>) <=> u = t
    <3>1. Len(<<t>>) = 1 /\ <<t>>[1] = t
      OBVIOUS
    <3> QED
      BY <2>2, <3>1, ListMembers
  <2> QED
    BY <2>2, <2>3
<1>4. Append(s, t) = <<t>> => s = <<>>
  <2>1. Len(Append(s, t)) = Len(s) + 1 /\ Len(<<t>>) = 1 /\ Len(s) \in Nat
    BY <1>1
  <2>2. Append(s, t) = <<t>> => Len(s) = 0
    BY <2>1
  <2> QED
    BY <1>1, <2>2
<1> QED
  BY <1>2, <1>3, <1>4, JoinedList

-----------------------------------------------------------------------------
(* The day's bookings. *)

(* The window of the i-th of n tickets. *)
From(n, i) == Offset(EvenSplit(n), i - 1)
Until(n, i) == Offset(EvenSplit(n), i)

LEMMA Windows ==
  ASSUME NEW n \in Nat \ {0}, NEW i \in 1 .. n
  PROVE  /\ From(n, i) \in Window /\ Until(n, i) \in From(n, i) .. TotalWorkMinutes
         /\ \A j \in 1 .. n : i < j => Until(n, i) <= From(n, j)
         /\ Until(n, n) = TotalWorkMinutes
<1> DEFINE m == EvenSplit(n)
<1>1. m \in Seq(Nat) /\ Len(m) = n /\ Offset(m, n) = TotalWorkMinutes
  BY EvenSplitIs, EvenOffset
<1> HIDE DEF m
<1>2. /\ Offset(m, i - 1) \in Window /\ Offset(m, i) \in Offset(m, i - 1) .. TotalWorkMinutes
      /\ \A j \in 1 .. n : i < j => Offset(m, i) <= Offset(m, j - 1)
  <2>1. i \in 1 .. Len(m) /\ Offset(m, Len(m)) <= TotalWorkMinutes /\ m \in Seq(Nat)
    BY <1>1, FullDay
  <2>2. /\ Offset(m, i - 1) \in Window /\ Offset(m, i) \in Offset(m, i - 1) .. TotalWorkMinutes
        /\ \A j \in 1 .. Len(m) : i < j => Offset(m, i) <= Offset(m, j - 1)
    BY <2>1, WindowsOf
  <2> QED
    BY <1>1, <2>2
<1> QED
  BY <1>1, <1>2 DEF From, Until, m

LEMMA BookingsAre ==
  ASSUME NEW s \in Lists \ {<<>>}, NEW x
  PROVE  x \in Bookings(s) <=>
           \E i \in 1 .. Len(s) :
             \E k \in DOMAIN SegmentsFor(From(Len(s), i), Until(Len(s), i)) :
               LET g == SegmentsFor(From(Len(s), i), Until(Len(s), i))[k]
               IN  x = [ticket |-> s[i], start |-> g.start, end |-> g.end]
<1> DEFINE W(i) == SegmentsFor(From(Len(s), i), Until(Len(s), i))
           Record(i, g) == [ticket |-> s[i], start |-> g.start, end |-> g.end]
<1>1. DOMAIN s = 1 .. Len(s)
  BY ListsAre
<1>2. Bookings(s) = UNION {{Record(i, g) : g \in {W(i)[k] : k \in DOMAIN W(i)}} : i \in 1 .. Len(s)}
  BY <1>1 DEF Bookings, Get, From, Until, ToSet
<1> HIDE DEF W
<1>3. x \in Bookings(s) <=> \E i \in 1 .. Len(s) : \E k \in DOMAIN W(i) : x = Record(i, W(i)[k])
  BY <1>2
<1> QED
  BY <1>3 DEF W

LEMMA BookingsTyped ==
  ASSUME NEW s \in Lists \ {<<>>}
  PROVE  Bookings(s) \subseteq Booking
<1> SUFFICES ASSUME NEW x \in Bookings(s) PROVE x \in Booking
  OBVIOUS
<1> DEFINE n == Len(s)
<1>1. PICK i \in 1 .. n : \E k \in DOMAIN SegmentsFor(From(n, i), Until(n, i)) :
        x = [ticket |-> s[i], start |-> SegmentsFor(From(n, i), Until(n, i))[k].start,
             end |-> SegmentsFor(From(n, i), Until(n, i))[k].end]
  BY BookingsAre
<1>0. PICK k \in DOMAIN SegmentsFor(From(n, i), Until(n, i)) :
        x = [ticket |-> s[i], start |-> SegmentsFor(From(n, i), Until(n, i))[k].start,
             end |-> SegmentsFor(From(n, i), Until(n, i))[k].end]
  BY <1>1
<1>2. n \in Nat \ {0} /\ s[i] \in Tickets
  BY ListMembers, ListsAre
<1> HIDE DEF n
<1>3. From(n, i) \in Window /\ Until(n, i) \in From(n, i) .. TotalWorkMinutes
  BY <1>2, Windows
<1>4. InWorkday(SegmentsFor(From(n, i), Until(n, i))[k])
  BY <1>3, SlotsKeepToWorkingHours
<1>5. /\ SegmentsFor(From(n, i), Until(n, i))[k].start \in Int
      /\ SegmentsFor(From(n, i), Until(n, i))[k].end \in Int
  BY <1>3, OneWindow
<1> QED
  BY <1>0, <1>2, <1>4, <1>5 DEF InWorkday, Booking

(* No two bookings of a day overlap. *)
LEMMA BookingsApart ==
  ASSUME NEW s \in Lists \ {<<>>}, NEW x \in Bookings(s), NEW y \in Bookings(s), x # y
  PROVE  ~Overlaps(x, y)
<1> DEFINE n == Len(s)
           g(i) == SegmentsFor(From(n, i), Until(n, i))
<1>a. PICK i \in 1 .. n : \E k \in DOMAIN g(i) :
        x = [ticket |-> s[i], start |-> g(i)[k].start, end |-> g(i)[k].end]
  BY BookingsAre
<1>1. PICK k \in DOMAIN g(i) :
        x = [ticket |-> s[i], start |-> g(i)[k].start, end |-> g(i)[k].end]
  BY <1>a
<1>b. PICK j \in 1 .. n : \E l \in DOMAIN g(j) :
        y = [ticket |-> s[j], start |-> g(j)[l].start, end |-> g(j)[l].end]
  BY BookingsAre
<1>2. PICK l \in DOMAIN g(j) :
        y = [ticket |-> s[j], start |-> g(j)[l].start, end |-> g(j)[l].end]
  BY <1>b
<1>3. n \in Nat \ {0}
  BY ListMembers
<1>4. \A h \in 1 .. n : From(n, h) \in Window /\ Until(n, h) \in From(n, h) .. TotalWorkMinutes
  BY <1>3, Windows
<1>5. \A h \in 1 .. n : \A m \in DOMAIN g(h) : g(h)[m].start \in Int /\ g(h)[m].end \in Int
  BY <1>4, OneWindow
<1>6. ASSUME NEW h \in 1 .. n, NEW e \in 1 .. n, h < e,
             NEW p \in DOMAIN g(h), NEW q \in DOMAIN g(e)
      PROVE  g(h)[p].end <= g(e)[q].start
  <2>1. Until(n, h) <= From(n, e)
    BY <1>3, <1>6, Windows
  <2>2. /\ From(n, h) \in Window /\ Until(n, h) \in From(n, h) .. TotalWorkMinutes
        /\ From(n, e) \in Window /\ Until(n, e) \in From(n, e) .. TotalWorkMinutes
    BY <1>4
  <2>3. From(n, e) \in Until(n, h) .. TotalWorkMinutes
    <3> DEFINE f == From(n, e)
               u == Until(n, h)
    <3>1. f \in Window /\ u \in From(n, h) .. TotalWorkMinutes /\ u <= f
      BY <2>1, <2>2
    <3> HIDE DEF f, u
    <3>2. f \in 0 .. 480 /\ u \in Int
      BY <3>1, FullDay DEF Window
    <3>3. f \in u .. 480
      BY <3>1, <3>2
    <3> QED
      BY <3>3, FullDay DEF f, u
  <2> QED
    BY <2>2, <2>3, LaterSlotsFollow
<1>7. CASE i < j
  BY <1>1, <1>2, <1>5, <1>6, <1>7 DEF Overlaps
<1>8. CASE j < i
  BY <1>1, <1>2, <1>5, <1>6, <1>8 DEF Overlaps
<1>9. CASE i = j
  <2>1. k # l
    BY <1>1, <1>2, <1>9
  <2>2. g(i)[k].end <= g(i)[l].start \/ g(i)[l].end <= g(i)[k].start
    <3>1. k \in Nat /\ l \in Nat /\ From(n, i) \in Window
          /\ Until(n, i) \in From(n, i) .. TotalWorkMinutes
      BY <1>4, <1>9, SegmentsTwo
    <3>2. CASE k < l
      BY <1>9, <3>1, <3>2, OneWindow
    <3>3. CASE l < k
      BY <1>9, <3>1, <3>3, OneWindow
    <3> QED
      BY <2>1, <3>1, <3>2, <3>3
  <2> QED
    BY <1>1, <1>2, <1>5, <1>9, <2>2 DEF Overlaps
<1> QED
  BY <1>7, <1>8, <1>9

(* The day's last booking ends at six o'clock. *)
LEMMA LastBooking ==
  ASSUME NEW s \in Lists \ {<<>>}
  PROVE  \E x \in Bookings(s) : x.end = HrmTodayOpensAt
<1> DEFINE n == Len(s)
           g == SegmentsFor(From(n, n), Until(n, n))
<1>1. n \in Nat \ {0}
  BY ListMembers
<1>2. From(n, n) \in Window /\ Until(n, n) = 480 /\ Until(n, n) \in From(n, n) .. TotalWorkMinutes
  BY <1>1, Windows, FullDay DEF Window
<1>4. Len(g) \in DOMAIN g /\ g[Len(g)].end = HrmTodayOpensAt
  BY <1>2, FullDay, EndsTheDay DEF HrmTodayOpensAt, AfternoonEnd
<1>5. PICK k \in DOMAIN g : g[k].end = HrmTodayOpensAt
  BY <1>4
<1> DEFINE x == [ticket |-> s[n], start |-> g[k].start, end |-> g[k].end]
<1>6. x \in Bookings(s)
  <2>1. n \in 1 .. n
    BY <1>1
  <2> QED
    BY <2>1, BookingsAre
<1> QED
  BY <1>5, <1>6 DEF HrmTodayOpensAt

-----------------------------------------------------------------------------
(* The state. *)

Drain == job["drain"]
JobState ==
  [at : {"idle", "token", "log", "remove"}, value : Lists \cup {Off},
   columns : {Columns, <<"J">>, <<>>}, slots : SUBSET Booking, ok : BOOLEAN]
StartState == {NoStart} \cup [at : {"checked", "added"}, ticket : Tickets, written : BOOLEAN]

(* TypeOK with every field typed. *)
Typed ==
  /\ clock \in Times /\ queue \in Lists
  /\ cell \in [{"M", "J"} -> Lists \cup {Off}]
  /\ hrm \subseteq Booking
  /\ written \in BOOLEAN
  /\ job \in [Jobs -> JobState] /\ Drain.value \in Lists
  /\ start \in StartState
  /\ asks \in 0 .. MaxAsks /\ faults \in 0 .. MaxFaults
  /\ owed \subseteq Tickets /\ delivered \subseteq Tickets /\ sent \subseteq Lists
  /\ torn \in BOOLEAN /\ off \in BOOLEAN /\ paged \in BOOLEAN

(* What a job holds at each of its stations. *)
Phases ==
  /\ \A p \in Jobs : job[p].columns # <<>> => job[p].at = "log"
  /\ job["page"].at # "remove"
  /\ Drain.at # "idle" => Drain.value # <<>>
  /\ Drain.at = "token" => Drain.slots = {}
  /\ paged = FALSE => job["page"].at = "idle"

(* Whoever is about to write has recorded the day. *)
Recorded ==
  /\ \A c \in {"M", "J"} : cell[c] # <<>> => written = TRUE
  /\ \A p \in Jobs : job[p].columns # <<>> => written = TRUE

(* Between its two writes the drain's list is in the first column for     *)
(* sure; then both columns say the same, but for a write that failed.     *)
Mirrored ==
  paged = FALSE =>
    IF Drain.columns = <<"J">> THEN cell["M"] = Drain.value
    ELSE torn = FALSE => cell["M"] = cell["J"]

(* What HRM holds, and what is about to be sent, is of a list sent; and    *)
(* the drain's list, if it is the only one, is there or about to be sent.  *)
Accounted ==
  /\ \A b \in hrm : \E s \in sent : s # <<>> /\ b \in Bookings(s)
  /\ \A p \in Jobs : job[p].slots # {} =>
       /\ job[p].value \in sent /\ job[p].value # <<>>
       /\ job[p].slots \subseteq Bookings(job[p].value)
  /\ Drain.at = "log" /\ Drain.ok = TRUE =>
       /\ Drain.value \in sent
       /\ sent = {Drain.value} => Bookings(Drain.value) \subseteq hrm \cup Drain.slots

(* No drain succeeds while Start is at work: it is not yet six, and the    *)
(* day's last slot would end in the future.  So the queue only grows, and  *)
(* what Start has found is still true when it has added its ticket.        *)
StartSafe ==
  /\ start.at # "idle" =>
       /\ clock < HrmTodayOpensAt /\ Drain.at # "remove"
       /\ Drain.at = "log" /\ Drain.ok = TRUE =>
            \E s \in Drain.slots : s.end = HrmTodayOpensAt
  /\ start.at = "checked" /\ start.written = FALSE /\ queue = <<>> /\ paged = FALSE =>
       Drain.at = "idle" /\ \A c \in {"M", "J"} : cell[c] = <<>>
  /\ start.at = "added" /\ queue = <<start.ticket>> /\ paged = FALSE =>
       /\ Drain.at # "idle" => Drain.value = queue
       /\ \A c \in {"M", "J"} : cell[c] \in {<<>>, queue}

(* What the drain is about to take out has been delivered. *)
Due == Drain.at = "remove" => ToSet(Drain.value) \subseteq delivered

Inv == Typed /\ Phases /\ Recorded /\ Mirrored /\ Accounted /\ StartSafe /\ Due

-----------------------------------------------------------------------------
(* What each step does to the jobs. *)

Becomes(p, r) ==
  /\ job' \in [Jobs -> JobState]
  /\ \A q \in Jobs : q # p => job'[q] = job[q]
  /\ job'[p].at = r.at /\ job'[p].value = r.value /\ job'[p].columns = r.columns
  /\ job'[p].slots = r.slots /\ job'[p].ok = r.ok

State(at, value, columns, slots, ok) ==
  [at |-> at, value |-> value, columns |-> columns, slots |-> slots, ok |-> ok]

LEMMA JobChanges ==
  ASSUME Typed, NEW p \in Jobs, NEW r \in JobState, job' = [job EXCEPT ![p] = r]
  PROVE  Becomes(p, r)
BY DEF Typed, Becomes

LEMMA ListBookingsTyped ==
  ASSUME NEW s \in Lists
  PROVE  Bookings(s) \in SUBSET Booking
<1>1. CASE s = <<>>
  BY <1>1 DEF Bookings
<1> QED
  BY <1>1, BookingsTyped

LEMMA EmptyList == <<>> \in Lists /\ ToSet(<<>>) = {}
<1>1. <<>> \in Seq(Tickets) /\ Len(<<>>) = 0 /\ 1 .. 0 = {}
  OBVIOUS
<1>2. <<>> \in Lists
  BY <1>1, ListsAre DEF Distinct
<1>3. \A t : t \notin ToSet(<<>>)
  BY <1>1, <1>2, ListMembers
<1> QED
  BY <1>2, <1>3

LEMMA NoJobTyped == NoJob \in JobState
  BY EmptyList DEF NoJob, JobState

LEMMA DrainBeginsDoes ==
  ASSUME Typed, DrainBegins
  PROVE  Becomes("drain", State("token", queue, <<>>, {}, TRUE))
<1> DEFINE n == [NoJob EXCEPT !.at = "token", !.value = queue]
<1>1. /\ n.at = "token" /\ n.value = queue /\ n.columns = <<>> /\ n.slots = {} /\ n.ok = TRUE
      /\ n \in JobState
  <2>1. queue \in Lists
    BY DEF Typed
  <2> QED
    BY <2>1, NoJobTyped DEF NoJob, JobState
<1>2. job' = [job EXCEPT !["drain"] = n]
  BY DEF DrainBegins
<1> HIDE DEF n
<1>3. Becomes("drain", n)
  BY <1>1, <1>2, JobChanges DEF Jobs
<1> QED
  BY <1>1, <1>3 DEF Becomes, State

LEMMA PageBeginsDoes ==
  ASSUME Typed, NEW kind \in PageKinds, NEW tickets \in PageLists, PageBegins(kind, tickets)
  PROVE  /\ tickets \in Lists \ {<<>>}
         /\ Becomes("page", State(IF kind = "hrm" THEN "log" ELSE "token",
                                  IF kind = "off" THEN Off ELSE tickets, <<>>,
                                  IF kind \in {"both", "hrm"} THEN Bookings(tickets) ELSE {}, TRUE))
<1> DEFINE r == State(IF kind = "hrm" THEN "log" ELSE "token",
                      IF kind = "off" THEN Off ELSE tickets, <<>>,
                      IF kind \in {"both", "hrm"} THEN Bookings(tickets) ELSE {}, TRUE)
<1>1. tickets \in Lists \ {<<>>}
  BY WorkLogAssumption
<1>2. r \in JobState
  BY <1>1, ListBookingsTyped DEF JobState, State
<1>3. job' = [job EXCEPT !["page"] = r]
  BY DEF PageBegins, State
<1> QED
  BY <1>1, <1>2, <1>3, JobChanges DEF Jobs

(* The slots a job goes to the log with. *)
SlotsOf(p) == IF p = "drain" THEN Bookings(job[p].value) ELSE job[p].slots

LEMMA SlotsOfTyped ==
  ASSUME Typed, NEW p \in Jobs
  PROVE  SlotsOf(p) \in SUBSET Booking
<1>1. CASE p = "drain"
  BY <1>1, ListBookingsTyped DEF Typed, SlotsOf, Drain
<1>2. CASE p # "drain"
  BY <1>2 DEF Typed, JobState, SlotsOf
<1> QED
  BY <1>1, <1>2

LEMMA TokenDoes ==
  ASSUME Typed, NEW p \in Jobs, TokenArrives(p)
  PROVE  Becomes(p, State("log", job[p].value, Columns, SlotsOf(p), job[p].ok))
<1> DEFINE S == SlotsOf(p)
<1>1. S \in SUBSET Booking
  BY SlotsOfTyped
<1>2. job' = [job EXCEPT ![p].at = "log", ![p].columns = Columns, ![p].slots = S]
  BY DEF TokenArrives, SlotsOf, Typed, JobState
<1> HIDE DEF S
<1>3. Becomes(p, State("log", job[p].value, Columns, S, job[p].ok))
  BY ZenonT(60), <1>1, <1>2 DEF Typed, JobState, Becomes, State
<1> QED
  BY <1>3 DEF S

LEMMA NoTokenDoes ==
  ASSUME Typed, NEW p \in Jobs, NoToken(p)
  PROVE  Becomes(p, State("log", job[p].value, job[p].columns, SlotsOf(p), FALSE))
<1> DEFINE S == SlotsOf(p)
<1>1. S \in SUBSET Booking
  BY SlotsOfTyped
<1>2. job' = [job EXCEPT ![p].at = "log", ![p].slots = S, ![p].ok = FALSE]
  BY DEF NoToken, SlotsOf, Typed, JobState
<1> HIDE DEF S
<1>3. Becomes(p, State("log", job[p].value, job[p].columns, S, FALSE))
  BY ZenonT(60), <1>1, <1>2 DEF Typed, JobState, Becomes, State
<1> QED
  BY <1>3 DEF S

LEMMA RecordFailsDoes ==
  ASSUME Typed, NEW p \in Jobs, RecordFails(p)
  PROVE  Becomes(p, State("log", job[p].value, job[p].columns, {}, FALSE))
  BY ZenonT(60) DEF RecordFails, Typed, JobState, Becomes, State

LEMMA WriteCellDoes ==
  ASSUME Typed, NEW p \in Jobs, WriteCell(p)
  PROVE  /\ Becomes(p, State(job[p].at, job[p].value, Tail(job[p].columns), job[p].slots, job[p].ok))
         /\ \/ job[p].columns = Columns /\ Tail(job[p].columns) = <<"J">>
               /\ cell' = [cell EXCEPT !["M"] = job[p].value]
            \/ job[p].columns = <<"J">> /\ Tail(job[p].columns) = <<>>
               /\ cell' = [cell EXCEPT !["J"] = job[p].value]
<1>1. job[p].columns \in {Columns, <<"J">>}
  BY DEF WriteCell, Typed, JobState
<1>2. Head(Columns) = "M" /\ Tail(Columns) = <<"J">> /\ Head(<<"J">>) = "J" /\ Tail(<<"J">>) = <<>>
  BY DEF Columns
<1>3. Tail(job[p].columns) \in {Columns, <<"J">>, <<>>}
  BY <1>1, <1>2
<1>4. Becomes(p, State(job[p].at, job[p].value, Tail(job[p].columns), job[p].slots, job[p].ok))
  <2> DEFINE t == Tail(job[p].columns)
  <2>1. job' = [job EXCEPT ![p].columns = t]
    BY DEF WriteCell, Typed, JobState
  <2>2. t \in {Columns, <<"J">>, <<>>}
    BY <1>3
  <2> HIDE DEF t
  <2>3. Becomes(p, State(job[p].at, job[p].value, t, job[p].slots, job[p].ok))
    BY <2>1, <2>2 DEF Typed, JobState, Becomes, State
  <2> QED
    BY <2>3 DEF t
<1> QED
  BY <1>1, <1>2, <1>4 DEF WriteCell

LEMMA CellFailsDoes ==
  ASSUME Typed, NEW p \in Jobs, CellFails(p)
  PROVE  /\ Becomes(p, State(job[p].at, job[p].value, <<>>, job[p].slots, FALSE))
         /\ cell' \in {cell, [cell EXCEPT !["M"] = job[p].value], [cell EXCEPT !["J"] = job[p].value]}
<1> DEFINE r == [job[p] EXCEPT !.columns = <<>>, !.ok = FALSE]
<1>1. /\ r.at = job[p].at /\ r.value = job[p].value /\ r.columns = <<>>
      /\ r.slots = job[p].slots /\ r.ok = FALSE /\ r \in JobState
  BY DEF Typed, JobState
<1>2. job' = [job EXCEPT ![p] = r]
  BY DEF CellFails, Typed
<1> HIDE DEF r
<1>3. job[p].columns \in {Columns, <<"J">>}
  BY DEF CellFails, Typed, JobState
<1>4. Head(Columns) = "M" /\ Head(<<"J">>) = "J"
  BY DEF Columns
<1>5. cell' \in {cell, [cell EXCEPT !["M"] = job[p].value], [cell EXCEPT !["J"] = job[p].value]}
  BY <1>3, <1>4 DEF CellFails
<1> QED
  BY <1>1, <1>2, <1>5, JobChanges DEF Becomes, State

LEMMA SlotsFail ==
  ASSUME Typed, NEW p \in Jobs, NEW left \in SUBSET job[p].slots,
         job' = [job EXCEPT ![p].slots = left, ![p].ok = FALSE]
  PROVE  Becomes(p, State(job[p].at, job[p].value, job[p].columns, left, FALSE))
<1> DEFINE r == [job[p] EXCEPT !.slots = left, !.ok = FALSE]
<1>1. /\ r.at = job[p].at /\ r.value = job[p].value /\ r.columns = job[p].columns
      /\ r.slots = left /\ r.ok = FALSE /\ r \in JobState
  BY DEF Typed, JobState
<1>2. job' = [job EXCEPT ![p] = r]
  BY DEF Typed
<1> HIDE DEF r
<1> QED
  BY <1>1, <1>2, JobChanges DEF Becomes, State

(* A slot was sent, or not: fewer are left, and none is lost silently. *)
LEMMA SlotDoes ==
  ASSUME Typed, NEW p \in Jobs, SendSlot(p) \/ SlotFails(p) \/ SlotRejected(p)
  PROVE  \E slot \in job[p].slots, left \in SUBSET job[p].slots, ok \in BOOLEAN :
           /\ job[p].at = "log"
           /\ Becomes(p, State(job[p].at, job[p].value, job[p].columns, left, ok))
           /\ hrm' \in {hrm, hrm \cup {slot}}
           /\ ok = FALSE \/
                /\ ok = job[p].ok /\ left = job[p].slots \ {slot} /\ ~Future(slot)
                /\ slot \in hrm' \/ (\E b \in hrm : Overlaps(slot, b))
<1>1. CASE SendSlot(p)
  <2>1. PICK slot \in Earliest(job[p].slots) :
          /\ job[p].at = "log"
          /\ hrm' = IF Bookable(slot) THEN hrm \cup {slot} ELSE hrm
          /\ job' = IF Future(slot)
                      THEN [job EXCEPT ![p].slots = OthersSlots(@, slot.ticket), ![p].ok = FALSE]
                      ELSE [job EXCEPT ![p].slots = @ \ {slot}]
    BY <1>1 DEF SendSlot
  <2>2. slot \in job[p].slots
    BY DEF Earliest
  <2>3. CASE Future(slot)
    <3> DEFINE left == OthersSlots(job[p].slots, slot.ticket)
    <3>1. left \in SUBSET job[p].slots
      BY DEF OthersSlots
    <3>2. job' = [job EXCEPT ![p].slots = left, ![p].ok = FALSE]
      BY <2>1, <2>3 DEF Typed, JobState
    <3> HIDE DEF left
    <3>3. Becomes(p, State(job[p].at, job[p].value, job[p].columns, left, FALSE))
      BY <3>1, <3>2, SlotsFail
    <3> QED
      BY <2>1, <2>2, <3>1, <3>3
  <2>4. CASE ~Future(slot)
    <3> DEFINE left == job[p].slots \ {slot}
    <3>1. left \in SUBSET job[p].slots
      OBVIOUS
    <3>2. job' = [job EXCEPT ![p].slots = left]
      BY <2>1, <2>4 DEF Typed, JobState
    <3> HIDE DEF left
    <3>3. Becomes(p, State(job[p].at, job[p].value, job[p].columns, left, job[p].ok))
      BY <3>1, <3>2 DEF Typed, JobState, Becomes, State
    <3>4. slot \in hrm' \/ (\E b \in hrm : Overlaps(slot, b))
      BY <2>1, <2>4 DEF Bookable, Taken
    <3>5. job[p].ok \in BOOLEAN
      BY DEF Typed, JobState
    <3> QED
      BY <2>1, <2>2, <2>4, <3>1, <3>3, <3>4, <3>5 DEF left
  <2> QED
    BY <2>3, <2>4
<1>2. CASE SlotFails(p)
  <2>1. PICK slot \in Earliest(job[p].slots) :
          /\ job[p].at = "log"
          /\ hrm' \in IF Bookable(slot) THEN {hrm, hrm \cup {slot}} ELSE {hrm}
          /\ job' = [job EXCEPT ![p].slots = {}, ![p].ok = FALSE]
    BY <1>2 DEF SlotFails
  <2>2. slot \in job[p].slots /\ hrm' \in {hrm, hrm \cup {slot}}
    BY <2>1 DEF Earliest
  <2>3. Becomes(p, State(job[p].at, job[p].value, job[p].columns, {}, FALSE))
    BY <2>1, SlotsFail
  <2> QED
    BY <2>1, <2>2, <2>3
<1>3. CASE SlotRejected(p)
  <2>1. PICK slot \in Earliest(job[p].slots) :
          /\ job[p].at = "log" /\ hrm' = hrm
          /\ job' = [job EXCEPT ![p].slots = OthersSlots(@, slot.ticket), ![p].ok = FALSE]
    BY <1>3 DEF SlotRejected
  <2>2. slot \in job[p].slots
    BY DEF Earliest
  <2> DEFINE left == OthersSlots(job[p].slots, slot.ticket)
  <2>3. left \in SUBSET job[p].slots
    BY DEF OthersSlots
  <2>4. job' = [job EXCEPT ![p].slots = left, ![p].ok = FALSE]
    BY <2>1 DEF Typed, JobState
  <2> HIDE DEF left
  <2>5. Becomes(p, State(job[p].at, job[p].value, job[p].columns, left, FALSE))
    BY <2>3, <2>4, SlotsFail
  <2> QED
    BY <2>1, <2>2, <2>3, <2>5
<1> QED
  BY <1>1, <1>2, <1>3

LEMMA DrainLoggedDoes ==
  ASSUME Typed, DrainLogged
  PROVE  \/ /\ Drain.ok = TRUE
            /\ Becomes("drain", State("remove", Drain.value, Drain.columns, Drain.slots, Drain.ok))
            /\ delivered' = delivered \cup ToSet(Drain.value)
         \/ Drain.ok = FALSE /\ Becomes("drain", NoJob) /\ delivered' = delivered
<1>0. "drain" \in Jobs /\ Drain.ok \in BOOLEAN
  BY DEF Jobs, Typed, JobState, Drain
<1>1. CASE Drain.ok = TRUE
  BY <1>0, <1>1 DEF DrainLogged, Drain, Typed, JobState, Becomes, State
<1>2. CASE Drain.ok = FALSE
  <2>1. job' = [job EXCEPT !["drain"] = NoJob] /\ delivered' = delivered
    BY <1>2 DEF DrainLogged, Drain
  <2> QED
    BY <1>0, <1>2, <2>1, NoJobTyped, JobChanges
<1> QED
  BY <1>0, <1>1, <1>2

LEMMA EndsDoes ==
  ASSUME Typed
  PROVE  /\ RemoveLogged \/ RemoveFails => Becomes("drain", NoJob)
         /\ PageEnds => Becomes("page", NoJob)
<1>1. "drain" \in Jobs /\ "page" \in Jobs
  BY DEF Jobs
<1>2. RemoveLogged \/ RemoveFails => Becomes("drain", NoJob)
  BY <1>1, NoJobTyped, JobChanges DEF RemoveLogged, RemoveFails
<1>3. PageEnds => Becomes("page", NoJob)
  BY <1>1, NoJobTyped, JobChanges DEF PageEnds
<1> QED
  BY <1>2, <1>3

-----------------------------------------------------------------------------
(* Every step keeps the types. *)

LEMMA Counted ==
  ASSUME Typed
  PROVE  /\ faults < MaxFaults /\ faults' = faults + 1 => faults' \in 0 .. MaxFaults
         /\ asks < MaxAsks /\ asks' = asks + 1 => asks' \in 0 .. MaxAsks
         /\ faults' = faults => faults' \in 0 .. MaxFaults
  BY WorkLogAssumption DEF Typed

LEMMA QueuedTyped ==
  ASSUME Typed, NEW tickets \in Lists
  PROVE  LET joined == queue \o Less(tickets, ToSet(queue))
         IN  /\ joined \in Lists /\ ToSet(joined) = ToSet(queue) \cup ToSet(tickets)
             /\ ToSet(tickets) \subseteq Tickets
<1> DEFINE fresh == Less(tickets, ToSet(queue))
<1>1. queue \in Lists /\ fresh \in Lists /\ ToSet(fresh) = ToSet(tickets) \ ToSet(queue)
  BY LessOfList DEF Typed
<1> HIDE DEF fresh
<1>2. queue \o fresh \in Lists /\ ToSet(queue \o fresh) = ToSet(queue) \cup ToSet(fresh)
  BY <1>1, JoinedList
<1>3. ToSet(queue \o fresh) = ToSet(queue) \cup ToSet(tickets)
  BY <1>1, <1>2
<1> QED
  BY <1>2, <1>3, ListMembers DEF fresh

LEMMA TypedStep ==
  ASSUME Typed, [Next]_vars
  PROVE  Typed'
<1>1. CASE ClockMoves
  BY <1>1 DEF Typed, ClockMoves, Drain, history
<1>2. CASE DrainBegins
  BY <1>2, DrainBeginsDoes DEF Typed, DrainBegins, Becomes, State, Jobs, Drain, history
<1>3. ASSUME NEW p \in Jobs, TokenArrives(p)
      PROVE  Typed'
  BY ZenonT(60), <1>3, TokenDoes DEF Typed, TokenArrives, Becomes, State, Jobs, Drain
<1>4. ASSUME NEW p \in Jobs, WriteCell(p)
      PROVE  Typed'
  <2>1. cell' \in [{"M", "J"} -> Lists \cup {Off}]
    <3>1. job[p].value \in Lists \cup {Off} /\ cell \in [{"M", "J"} -> Lists \cup {Off}]
      BY DEF Typed, JobState
    <3>2. cell' = [cell EXCEPT !["M"] = job[p].value] \/ cell' = [cell EXCEPT !["J"] = job[p].value]
      BY <1>4, WriteCellDoes
    <3> QED
      BY <3>1, <3>2
  <2>2. job' \in [Jobs -> JobState] /\ job'["drain"].value = job["drain"].value
    BY <1>4, WriteCellDoes DEF Becomes, State, Jobs
  <2> QED
    BY <1>4, <2>1, <2>2 DEF Typed, WriteCell, Drain, history
<1>5. ASSUME NEW p \in Jobs, SendSlot(p) \/ SlotFails(p) \/ SlotRejected(p)
      PROVE  Typed'
  <2>1. PICK slot \in job[p].slots, left \in SUBSET job[p].slots, ok \in BOOLEAN :
          /\ Becomes(p, State(job[p].at, job[p].value, job[p].columns, left, ok))
          /\ hrm' \in {hrm, hrm \cup {slot}}
    BY <1>5, SlotDoes
  <2>2. hrm' \subseteq Booking
    BY <2>1 DEF Typed, JobState
  <2>3. faults' \in 0 .. MaxFaults
    BY <1>5, Counted DEF SendSlot, SlotFails, SlotRejected, Typed
  <2>4. UNCHANGED <<clock, queue, cell, written, start, asks, history>>
    BY <1>5 DEF SendSlot, SlotFails, SlotRejected
  <2>5. job' \in [Jobs -> JobState] /\ job'["drain"].value = job["drain"].value
    BY <2>1 DEF Becomes, State, Jobs
  <2> QED
    BY <2>2, <2>3, <2>4, <2>5 DEF Typed, Drain, history
<1>6. CASE DrainLogged
  BY <1>6, DrainLoggedDoes, ListMembers, EmptyList DEF Typed, DrainLogged, Becomes, State, NoJob, Jobs, Drain
<1>7. CASE RemoveLogged
  BY <1>7, EndsDoes, LessOfList, EmptyList DEF Typed, RemoveLogged, Becomes, NoJob, Jobs, Drain, history
<1>8. CASE PageEnds
  BY <1>8, EndsDoes, EmptyList DEF Typed, PageEnds, Becomes, NoJob, Jobs, Drain
<1>9. ASSUME NEW p \in Jobs, NoToken(p)
      PROVE  Typed'
  <2>1. faults' \in 0 .. MaxFaults
    BY <1>9, Counted DEF NoToken
  <2> QED
    BY ZenonT(60), <1>9, <2>1, NoTokenDoes DEF Typed, NoToken, Becomes, State, NoJob, Jobs, Drain
<1>10. ASSUME NEW p \in Jobs, RecordFails(p)
      PROVE  Typed'
  <2>1. faults' \in 0 .. MaxFaults
    BY <1>10, Counted DEF RecordFails
  <2> QED
    BY <1>10, <2>1, RecordFailsDoes DEF Typed, RecordFails, Becomes, State, NoJob, Jobs, Drain, history
<1>11. ASSUME NEW p \in Jobs, CellFails(p)
      PROVE  Typed'
  <2>1. faults' \in 0 .. MaxFaults
    BY <1>11, Counted DEF CellFails
  <2>2. cell' \in [{"M", "J"} -> Lists \cup {Off}]
    <3>1. job[p].value \in Lists \cup {Off} /\ cell \in [{"M", "J"} -> Lists \cup {Off}]
      BY DEF Typed, JobState
    <3> QED
      BY <1>11, <3>1, CellFailsDoes
  <2>3. job' \in [Jobs -> JobState] /\ job'["drain"].value = job["drain"].value
    BY <1>11, CellFailsDoes DEF Becomes, State, Jobs
  <2> QED
    BY <1>11, <2>1, <2>2, <2>3 DEF Typed, CellFails, Drain
<1>12. CASE RemoveFails
  <2>1. faults' \in 0 .. MaxFaults
    BY <1>12, Counted DEF RemoveFails
  <2> QED
    BY <1>12, <2>1, EndsDoes, EmptyList DEF Typed, RemoveFails, Becomes, State, NoJob, Jobs, Drain, history
<1>13. ASSUME NEW kind \in PageKinds, NEW tickets \in PageLists, PageBegins(kind, tickets)
      PROVE  Typed'
  <2>1. asks' \in 0 .. MaxAsks
    BY <1>13, Counted DEF PageBegins
  <2>2. sent' \subseteq Lists
    BY <1>13, PageBeginsDoes DEF Typed, PageBegins
  <2> QED
    BY <1>13, <2>1, <2>2, PageBeginsDoes DEF Typed, PageBegins, Becomes, State, Jobs, Drain
<1>14. ASSUME NEW tickets \in Lists, OnQueue(tickets)
      PROVE  Typed'
  <2>1. asks' \in 0 .. MaxAsks
    BY <1>14, Counted DEF OnQueue, Ask
  <2>2. queue' \in Lists /\ owed' \subseteq Tickets /\ delivered' \subseteq Tickets
    BY <1>14, QueuedTyped DEF Typed, OnQueue, Ask
  <2> QED
    BY <1>14, <2>1, <2>2 DEF Typed, OnQueue, Ask, Drain
<1>15. ASSUME NEW t \in Tickets, StartCheck(t)
      PROVE  Typed'
  BY <1>15 DEF Typed, StartCheck, StartState, Drain, history
<1>16. CASE StartAdd
  <2>1. asks' \in 0 .. MaxAsks
    BY <1>16, Counted DEF StartAdd, Ask
  <2>2. start \in [at : {"checked", "added"}, ticket : Tickets, written : BOOLEAN]
    BY <1>16 DEF Typed, StartState, StartAdd, NoStart
  <2>3. queue' \in Lists
    BY <1>16, <2>2, AppendedList DEF Typed, StartAdd
  <2>4. start' \in StartState
    BY <1>16, <2>2 DEF StartAdd, StartState
  <2>5. owed' \subseteq Tickets /\ delivered' \subseteq Tickets
    BY <1>16, <2>2 DEF Typed, StartAdd, Ask
  <2> QED
    BY <1>16, <2>1, <2>3, <2>4, <2>5 DEF Typed, StartAdd, Ask, Drain
<1>17. CASE StartRefused \/ StartKeep \/ StartTakeOutFails
  <2>1. faults' \in 0 .. MaxFaults
    BY <1>17, Counted DEF StartRefused, StartKeep, StartTakeOutFails, Typed
  <2> QED
    BY <1>17, <2>1 DEF Typed, StartRefused, StartKeep, StartTakeOutFails, StartState, Drain, history
<1>18. CASE StartTakeOut
  BY <1>18, LessOfList DEF Typed, StartTakeOut, StartState, Drain
<1>19. ASSUME NEW t \in Tickets, RemoveTicket(t)
      PROVE  Typed'
  BY <1>19, LessOfList DEF Typed, RemoveTicket, Drain
<1>20. CASE UNCHANGED vars
  BY <1>20 DEF Typed, vars, Drain, history
<1> QED
  BY <1>1, <1>2, <1>3, <1>4, <1>5, <1>6, <1>7, <1>8, <1>9, <1>10, <1>11, <1>12,
     <1>13, <1>14, <1>15, <1>16, <1>17, <1>18, <1>19, <1>20
     DEF Next, JobStep, Fault, UserStep, StartStep

-----------------------------------------------------------------------------
(* A job keeps to its stations. *)

LEMMA PhasesStep ==
  ASSUME Typed, Phases, [Next]_vars
  PROVE  Phases'
<1>1. CASE ClockMoves
  BY <1>1 DEF Phases, Drain, history, NoJob, ClockMoves
<1>2. CASE DrainBegins
  BY <1>2, DrainBeginsDoes DEF Phases, Drain, history, NoJob, DrainBegins, Becomes, State, Jobs
<1>3. ASSUME NEW p \in Jobs, TokenArrives(p)
      PROVE  Phases'
  <2>1. /\ job[p].at = "token" /\ written' = TRUE
        /\ UNCHANGED <<clock, queue, cell, hrm, start, owed, delivered, torn, paged>>
    BY <1>3 DEF TokenArrives
  <2>2. Becomes(p, State("log", job[p].value, Columns, SlotsOf(p), job[p].ok))
    BY <1>3, TokenDoes
  <2> QED
    BY <2>1, <2>2 DEF Phases, Drain, history, NoJob, Becomes, State, Jobs
<1>4. ASSUME NEW p \in Jobs, WriteCell(p)
      PROVE  Phases'
  BY <1>4, WriteCellDoes DEF Phases, Drain, history, NoJob, WriteCell, Becomes, State, Jobs
<1>5. ASSUME NEW p \in Jobs, SendSlot(p) \/ SlotFails(p) \/ SlotRejected(p)
      PROVE  Phases'
  <2>1. PICK slot \in job[p].slots, left \in SUBSET job[p].slots, ok \in BOOLEAN :
          job[p].at = "log" /\ Becomes(p, State(job[p].at, job[p].value, job[p].columns, left, ok))
    BY <1>5, SlotDoes
  <2>2. UNCHANGED <<clock, queue, cell, written, start, history>>
    BY <1>5 DEF SendSlot, SlotFails, SlotRejected
  <2> QED
    BY <2>1, <2>2 DEF Phases, Drain, history, NoJob, Becomes, State, Jobs
<1>6. CASE DrainLogged
  <2>1. /\ Drain.at = "log" /\ Drain.columns = <<>> /\ Drain.slots = {}
        /\ UNCHANGED <<clock, queue, cell, hrm, written, start, owed, sent, torn, paged>>
    BY <1>6 DEF DrainLogged, BothDone, Drain
  <2> QED
    BY <1>6, <2>1, DrainLoggedDoes DEF Phases, Drain, history, NoJob, Becomes, State, Jobs
<1>7. CASE RemoveLogged
  BY <1>7, EndsDoes DEF Phases, Drain, history, NoJob, RemoveLogged, Becomes, Jobs
<1>8. CASE PageEnds
  BY <1>8, EndsDoes DEF Phases, Drain, history, NoJob, PageEnds, BothDone, Becomes, Jobs
<1>9. ASSUME NEW p \in Jobs, NoToken(p)
      PROVE  Phases'
  <2>1. job[p].at = "token" /\ UNCHANGED <<clock, queue, cell, hrm, written, start, owed, delivered, torn, paged>>
    BY <1>9 DEF NoToken, history
  <2>2. Becomes(p, State("log", job[p].value, job[p].columns, SlotsOf(p), FALSE))
    BY <1>9, NoTokenDoes
  <2> QED
    BY <2>1, <2>2 DEF Phases, Drain, history, NoJob, Becomes, State, Jobs
<1>10. ASSUME NEW p \in Jobs, RecordFails(p)
      PROVE  Phases'
  <2>1. job[p].at = "token" /\ UNCHANGED <<clock, queue, cell, hrm, written, start, owed, delivered, torn, paged>>
    BY <1>10 DEF RecordFails, history
  <2>2. Becomes(p, State("log", job[p].value, job[p].columns, {}, FALSE))
    BY <1>10, RecordFailsDoes
  <2> QED
    BY <2>1, <2>2 DEF Phases, Drain, history, NoJob, Becomes, State, Jobs
<1>11. ASSUME NEW p \in Jobs, CellFails(p)
      PROVE  Phases'
  BY <1>11, CellFailsDoes DEF Phases, Drain, history, NoJob, CellFails, Becomes, State, Jobs
<1>12. CASE RemoveFails
  BY <1>12, EndsDoes DEF Phases, Drain, history, NoJob, RemoveFails, Becomes, Jobs
<1>13. ASSUME NEW kind \in PageKinds, NEW tickets \in PageLists, PageBegins(kind, tickets)
      PROVE  Phases'
  BY <1>13, PageBeginsDoes DEF Phases, Drain, history, NoJob, PageBegins, Becomes, State, Jobs
<1>14. ASSUME NEW tickets \in Lists, OnQueue(tickets)
      PROVE  Phases'
  BY <1>14 DEF Phases, Drain, history, NoJob, OnQueue, Ask
<1>15. ASSUME NEW t \in Tickets, StartCheck(t)
      PROVE  Phases'
  BY <1>15 DEF Phases, Drain, history, NoJob, StartCheck
<1>16. CASE StartAdd
  BY <1>16 DEF Phases, Drain, history, NoJob, StartAdd, Ask
<1>17. CASE StartRefused \/ StartKeep \/ StartTakeOutFails
  BY <1>17 DEF Phases, Drain, history, NoJob, StartRefused, StartKeep, StartTakeOutFails
<1>18. CASE StartTakeOut
  BY <1>18 DEF Phases, Drain, history, NoJob, StartTakeOut
<1>19. ASSUME NEW t \in Tickets, RemoveTicket(t)
      PROVE  Phases'
  BY <1>19 DEF Phases, Drain, history, NoJob, RemoveTicket
<1>20. CASE UNCHANGED vars
  BY <1>20 DEF Phases, Drain, history, NoJob, vars
<1> QED
  BY <1>1, <1>2, <1>3, <1>4, <1>5, <1>6, <1>7, <1>8, <1>9, <1>10, <1>11, <1>12,
     <1>13, <1>14, <1>15, <1>16, <1>17, <1>18, <1>19, <1>20
     DEF Next, JobStep, Fault, UserStep, StartStep

(* Nothing is written that has not been recorded. *)

LEMMA RecordedStep ==
  ASSUME Typed, Phases, Recorded, [Next]_vars
  PROVE  Recorded'
<1>1. CASE ClockMoves
  BY <1>1 DEF Recorded, Drain, history, NoJob, ClockMoves
<1>2. CASE DrainBegins
  BY <1>2, DrainBeginsDoes DEF Recorded, Drain, history, NoJob, DrainBegins, Becomes, State, Jobs
<1>3. ASSUME NEW p \in Jobs, TokenArrives(p)
      PROVE  Recorded'
  <2>1. /\ job[p].at = "token" /\ written' = TRUE
        /\ UNCHANGED <<clock, queue, cell, hrm, start, owed, delivered, torn, paged>>
    BY <1>3 DEF TokenArrives
  <2>2. Becomes(p, State("log", job[p].value, Columns, SlotsOf(p), job[p].ok))
    BY <1>3, TokenDoes
  <2> QED
    BY <2>1, <2>2 DEF Recorded, Drain, history, NoJob, Becomes, State, Jobs
<1>4. ASSUME NEW p \in Jobs, WriteCell(p)
      PROVE  Recorded'
  BY <1>4, WriteCellDoes DEF Recorded, Drain, history, NoJob, WriteCell, Becomes, State, Jobs
<1>5. ASSUME NEW p \in Jobs, SendSlot(p) \/ SlotFails(p) \/ SlotRejected(p)
      PROVE  Recorded'
  <2>1. PICK slot \in job[p].slots, left \in SUBSET job[p].slots, ok \in BOOLEAN :
          job[p].at = "log" /\ Becomes(p, State(job[p].at, job[p].value, job[p].columns, left, ok))
    BY <1>5, SlotDoes
  <2>2. UNCHANGED <<clock, queue, cell, written, start, history>>
    BY <1>5 DEF SendSlot, SlotFails, SlotRejected
  <2> QED
    BY <2>1, <2>2 DEF Recorded, Drain, history, NoJob, Becomes, State, Jobs
<1>6. CASE DrainLogged
  <2>1. /\ Drain.at = "log" /\ Drain.columns = <<>> /\ Drain.slots = {}
        /\ UNCHANGED <<clock, queue, cell, hrm, written, start, owed, sent, torn, paged>>
    BY <1>6 DEF DrainLogged, BothDone, Drain
  <2> QED
    BY <1>6, <2>1, DrainLoggedDoes DEF Recorded, Drain, history, NoJob, Becomes, State, Jobs
<1>7. CASE RemoveLogged
  BY <1>7, EndsDoes DEF Recorded, Drain, history, NoJob, RemoveLogged, Becomes, Jobs
<1>8. CASE PageEnds
  BY <1>8, EndsDoes DEF Recorded, Drain, history, NoJob, PageEnds, BothDone, Becomes, Jobs
<1>9. ASSUME NEW p \in Jobs, NoToken(p)
      PROVE  Recorded'
  <2>1. job[p].at = "token" /\ UNCHANGED <<clock, queue, cell, hrm, written, start, owed, delivered, torn, paged>>
    BY <1>9 DEF NoToken, history
  <2>2. Becomes(p, State("log", job[p].value, job[p].columns, SlotsOf(p), FALSE))
    BY <1>9, NoTokenDoes
  <2> QED
    BY <2>1, <2>2 DEF Recorded, Drain, history, NoJob, Becomes, State, Jobs
<1>10. ASSUME NEW p \in Jobs, RecordFails(p)
      PROVE  Recorded'
  <2>1. job[p].at = "token" /\ UNCHANGED <<clock, queue, cell, hrm, written, start, owed, delivered, torn, paged>>
    BY <1>10 DEF RecordFails, history
  <2>2. Becomes(p, State("log", job[p].value, job[p].columns, {}, FALSE))
    BY <1>10, RecordFailsDoes
  <2> QED
    BY <2>1, <2>2 DEF Recorded, Drain, history, NoJob, Becomes, State, Jobs
<1>11. ASSUME NEW p \in Jobs, CellFails(p)
      PROVE  Recorded'
  BY <1>11, CellFailsDoes DEF Recorded, Drain, history, NoJob, CellFails, Becomes, State, Jobs
<1>12. CASE RemoveFails
  BY <1>12, EndsDoes DEF Recorded, Drain, history, NoJob, RemoveFails, Becomes, Jobs
<1>13. ASSUME NEW kind \in PageKinds, NEW tickets \in PageLists, PageBegins(kind, tickets)
      PROVE  Recorded'
  BY <1>13, PageBeginsDoes DEF Recorded, Drain, history, NoJob, PageBegins, Becomes, State, Jobs
<1>14. ASSUME NEW tickets \in Lists, OnQueue(tickets)
      PROVE  Recorded'
  BY <1>14 DEF Recorded, Drain, history, NoJob, OnQueue, Ask
<1>15. ASSUME NEW t \in Tickets, StartCheck(t)
      PROVE  Recorded'
  BY <1>15 DEF Recorded, Drain, history, NoJob, StartCheck
<1>16. CASE StartAdd
  BY <1>16 DEF Recorded, Drain, history, NoJob, StartAdd, Ask
<1>17. CASE StartRefused \/ StartKeep \/ StartTakeOutFails
  BY <1>17 DEF Recorded, Drain, history, NoJob, StartRefused, StartKeep, StartTakeOutFails
<1>18. CASE StartTakeOut
  BY <1>18 DEF Recorded, Drain, history, NoJob, StartTakeOut
<1>19. ASSUME NEW t \in Tickets, RemoveTicket(t)
      PROVE  Recorded'
  BY <1>19 DEF Recorded, Drain, history, NoJob, RemoveTicket
<1>20. CASE UNCHANGED vars
  BY <1>20 DEF Recorded, Drain, history, NoJob, vars
<1> QED
  BY <1>1, <1>2, <1>3, <1>4, <1>5, <1>6, <1>7, <1>8, <1>9, <1>10, <1>11, <1>12,
     <1>13, <1>14, <1>15, <1>16, <1>17, <1>18, <1>19, <1>20
     DEF Next, JobStep, Fault, UserStep, StartStep

LEMMA OneColumn == <<>> # <<"J">> /\ Columns # <<"J">>
<1>1. Len(<<>>) = 0 /\ Len(<<"J">>) = 1 /\ Len(Columns) = 2
  BY DEF Columns
<1> QED
  BY <1>1

(* The columns differ between the drain's two writes only. *)

LEMMA MirroredStep ==
  ASSUME Typed, Phases, Mirrored, [Next]_vars
  PROVE  Mirrored'
<1>1. CASE ClockMoves
  BY <1>1 DEF Mirrored, Typed, Phases, Drain, history, NoJob, ClockMoves
<1>2. CASE DrainBegins
  BY <1>2, DrainBeginsDoes DEF Mirrored, Typed, Phases, Drain, history, NoJob, DrainBegins, Becomes, State, Jobs
<1>3. ASSUME NEW p \in Jobs, TokenArrives(p)
      PROVE  Mirrored'
  <2>1. torn' = torn /\ paged' = paged /\ cell' = cell /\ job[p].at = "token"
    BY <1>3 DEF TokenArrives
  <2>2. Becomes(p, State("log", job[p].value, Columns, SlotsOf(p), job[p].ok))
    BY <1>3, TokenDoes
  <2>3. CASE p = "drain"
    <3>1. Drain.columns # <<"J">> /\ Drain'.columns # <<"J">>
      BY <2>1, <2>2, <2>3, OneColumn DEF Phases, Drain, Becomes, State, Jobs
    <3> QED
      BY <2>1, <3>1 DEF Mirrored
  <2>4. CASE p # "drain"
    <3>1. Drain' = Drain
      BY <2>2, <2>4 DEF Drain, Becomes, Jobs
    <3> QED
      BY <2>1, <3>1 DEF Mirrored
  <2> QED
    BY <2>3, <2>4
<1>4. ASSUME NEW p \in Jobs, WriteCell(p)
      PROVE  Mirrored'
  BY ZenonT(60), <1>4, WriteCellDoes DEF Mirrored, Typed, Phases, Drain, history, NoJob, WriteCell, Becomes, State, Jobs
<1>5. ASSUME NEW p \in Jobs, SendSlot(p) \/ SlotFails(p) \/ SlotRejected(p)
      PROVE  Mirrored'
  <2>1. PICK slot \in job[p].slots, left \in SUBSET job[p].slots, ok \in BOOLEAN :
          job[p].at = "log" /\ Becomes(p, State(job[p].at, job[p].value, job[p].columns, left, ok))
    BY <1>5, SlotDoes
  <2>2. UNCHANGED <<clock, queue, cell, written, start, history>>
    BY <1>5 DEF SendSlot, SlotFails, SlotRejected
  <2> QED
    BY <2>1, <2>2 DEF Mirrored, Typed, Phases, Drain, history, NoJob, Becomes, State, Jobs
<1>6. CASE DrainLogged
  <2>1. torn' = torn /\ paged' = paged /\ cell' = cell /\ Drain.columns = <<>>
    BY <1>6 DEF DrainLogged, BothDone, Drain
  <2>2. Drain'.columns = <<>>
    BY <1>6, <2>1, DrainLoggedDoes DEF Drain, Becomes, State, NoJob
  <2> QED
    BY <2>1, <2>2, OneColumn DEF Mirrored
<1>7. CASE RemoveLogged
  BY <1>7, EndsDoes DEF Mirrored, Typed, Phases, Drain, history, NoJob, RemoveLogged, Becomes, Jobs
<1>8. CASE PageEnds
  BY <1>8, EndsDoes DEF Mirrored, Typed, Phases, Drain, history, NoJob, PageEnds, BothDone, Becomes, Jobs
<1>9. ASSUME NEW p \in Jobs, NoToken(p)
      PROVE  Mirrored'
  <2>1. job[p].at = "token" /\ UNCHANGED <<clock, queue, cell, hrm, written, start, owed, delivered, torn, paged>>
    BY <1>9 DEF NoToken, history
  <2>2. Becomes(p, State("log", job[p].value, job[p].columns, SlotsOf(p), FALSE))
    BY <1>9, NoTokenDoes
  <2> QED
    BY <2>1, <2>2 DEF Mirrored, Typed, Phases, Drain, history, NoJob, Becomes, State, Jobs
<1>10. ASSUME NEW p \in Jobs, RecordFails(p)
      PROVE  Mirrored'
  <2>1. job[p].at = "token" /\ UNCHANGED <<clock, queue, cell, hrm, written, start, owed, delivered, torn, paged>>
    BY <1>10 DEF RecordFails, history
  <2>2. Becomes(p, State("log", job[p].value, job[p].columns, {}, FALSE))
    BY <1>10, RecordFailsDoes
  <2> QED
    BY <2>1, <2>2 DEF Mirrored, Typed, Phases, Drain, history, NoJob, Becomes, State, Jobs
<1>11. ASSUME NEW p \in Jobs, CellFails(p)
      PROVE  Mirrored'
  BY <1>11, CellFailsDoes DEF Mirrored, Typed, Phases, Drain, history, NoJob, CellFails, Becomes, State, Jobs
<1>12. CASE RemoveFails
  BY <1>12, EndsDoes DEF Mirrored, Typed, Phases, Drain, history, NoJob, RemoveFails, Becomes, Jobs
<1>13. ASSUME NEW kind \in PageKinds, NEW tickets \in PageLists, PageBegins(kind, tickets)
      PROVE  Mirrored'
  BY <1>13, PageBeginsDoes DEF Mirrored, Typed, Phases, Drain, history, NoJob, PageBegins, Becomes, State, Jobs
<1>14. ASSUME NEW tickets \in Lists, OnQueue(tickets)
      PROVE  Mirrored'
  BY <1>14 DEF Mirrored, Typed, Phases, Drain, history, NoJob, OnQueue, Ask
<1>15. ASSUME NEW t \in Tickets, StartCheck(t)
      PROVE  Mirrored'
  BY <1>15 DEF Mirrored, Typed, Phases, Drain, history, NoJob, StartCheck
<1>16. CASE StartAdd
  BY <1>16 DEF Mirrored, Typed, Phases, Drain, history, NoJob, StartAdd, Ask
<1>17. CASE StartRefused \/ StartKeep \/ StartTakeOutFails
  BY <1>17 DEF Mirrored, Typed, Phases, Drain, history, NoJob, StartRefused, StartKeep, StartTakeOutFails
<1>18. CASE StartTakeOut
  BY <1>18 DEF Mirrored, Typed, Phases, Drain, history, NoJob, StartTakeOut
<1>19. ASSUME NEW t \in Tickets, RemoveTicket(t)
      PROVE  Mirrored'
  BY <1>19 DEF Mirrored, Typed, Phases, Drain, history, NoJob, RemoveTicket
<1>20. CASE UNCHANGED vars
  BY <1>20 DEF Mirrored, Typed, Phases, Drain, history, NoJob, vars
<1> QED
  BY <1>1, <1>2, <1>3, <1>4, <1>5, <1>6, <1>7, <1>8, <1>9, <1>10, <1>11, <1>12,
     <1>13, <1>14, <1>15, <1>16, <1>17, <1>18, <1>19, <1>20
     DEF Next, JobStep, Fault, UserStep, StartStep

(* Nobody takes back what the drain is about to settle. *)

LEMMA DueStep ==
  ASSUME Typed, Phases, Due, [Next]_vars
  PROVE  Due'
<1>1. CASE ClockMoves
  BY <1>1 DEF Due, JustDelivered, Drain, history, NoJob, ClockMoves
<1>2. CASE DrainBegins
  BY <1>2, DrainBeginsDoes DEF Due, JustDelivered, Drain, history, NoJob, DrainBegins, Becomes, State, Jobs
<1>3. ASSUME NEW p \in Jobs, TokenArrives(p)
      PROVE  Due'
  <2>1. /\ job[p].at = "token" /\ written' = TRUE
        /\ UNCHANGED <<clock, queue, cell, hrm, start, owed, delivered, torn, paged>>
    BY <1>3 DEF TokenArrives
  <2>2. Becomes(p, State("log", job[p].value, Columns, SlotsOf(p), job[p].ok))
    BY <1>3, TokenDoes
  <2> QED
    BY <2>1, <2>2 DEF Due, JustDelivered, Drain, history, NoJob, Becomes, State, Jobs
<1>4. ASSUME NEW p \in Jobs, WriteCell(p)
      PROVE  Due'
  BY <1>4, WriteCellDoes DEF Due, JustDelivered, Drain, history, NoJob, WriteCell, Becomes, State, Jobs
<1>5. ASSUME NEW p \in Jobs, SendSlot(p) \/ SlotFails(p) \/ SlotRejected(p)
      PROVE  Due'
  <2>1. PICK slot \in job[p].slots, left \in SUBSET job[p].slots, ok \in BOOLEAN :
          job[p].at = "log" /\ Becomes(p, State(job[p].at, job[p].value, job[p].columns, left, ok))
    BY <1>5, SlotDoes
  <2>2. UNCHANGED <<clock, queue, cell, written, start, history>>
    BY <1>5 DEF SendSlot, SlotFails, SlotRejected
  <2> QED
    BY <2>1, <2>2 DEF Due, JustDelivered, Drain, history, NoJob, Becomes, State, Jobs
<1>6. CASE DrainLogged
  <2>1. /\ Drain.at = "log" /\ Drain.columns = <<>> /\ Drain.slots = {}
        /\ UNCHANGED <<clock, queue, cell, hrm, written, start, owed, sent, torn, paged>>
    BY <1>6 DEF DrainLogged, BothDone, Drain
  <2> QED
    BY <1>6, <2>1, DrainLoggedDoes DEF Due, JustDelivered, Drain, history, NoJob, Becomes, State, Jobs
<1>7. CASE RemoveLogged
  BY <1>7, EndsDoes DEF Due, JustDelivered, Drain, history, NoJob, RemoveLogged, Becomes, Jobs
<1>8. CASE PageEnds
  BY <1>8, EndsDoes DEF Due, JustDelivered, Drain, history, NoJob, PageEnds, BothDone, Becomes, Jobs
<1>9. ASSUME NEW p \in Jobs, NoToken(p)
      PROVE  Due'
  <2>1. job[p].at = "token" /\ UNCHANGED <<clock, queue, cell, hrm, written, start, owed, delivered, torn, paged>>
    BY <1>9 DEF NoToken, history
  <2>2. Becomes(p, State("log", job[p].value, job[p].columns, SlotsOf(p), FALSE))
    BY <1>9, NoTokenDoes
  <2> QED
    BY <2>1, <2>2 DEF Due, JustDelivered, Drain, history, NoJob, Becomes, State, Jobs
<1>10. ASSUME NEW p \in Jobs, RecordFails(p)
      PROVE  Due'
  <2>1. job[p].at = "token" /\ UNCHANGED <<clock, queue, cell, hrm, written, start, owed, delivered, torn, paged>>
    BY <1>10 DEF RecordFails, history
  <2>2. Becomes(p, State("log", job[p].value, job[p].columns, {}, FALSE))
    BY <1>10, RecordFailsDoes
  <2> QED
    BY <2>1, <2>2 DEF Due, JustDelivered, Drain, history, NoJob, Becomes, State, Jobs
<1>11. ASSUME NEW p \in Jobs, CellFails(p)
      PROVE  Due'
  BY <1>11, CellFailsDoes DEF Due, JustDelivered, Drain, history, NoJob, CellFails, Becomes, State, Jobs
<1>12. CASE RemoveFails
  BY <1>12, EndsDoes DEF Due, JustDelivered, Drain, history, NoJob, RemoveFails, Becomes, Jobs
<1>13. ASSUME NEW kind \in PageKinds, NEW tickets \in PageLists, PageBegins(kind, tickets)
      PROVE  Due'
  BY <1>13, PageBeginsDoes DEF Due, JustDelivered, Drain, history, NoJob, PageBegins, Becomes, State, Jobs
<1>14. ASSUME NEW tickets \in Lists, OnQueue(tickets)
      PROVE  Due'
  BY <1>14 DEF Due, JustDelivered, Drain, history, NoJob, OnQueue, Ask
<1>15. ASSUME NEW t \in Tickets, StartCheck(t)
      PROVE  Due'
  BY <1>15 DEF Due, JustDelivered, Drain, history, NoJob, StartCheck
<1>16. CASE StartAdd
  BY <1>16 DEF Due, JustDelivered, Drain, history, NoJob, StartAdd, Ask
<1>17. CASE StartRefused \/ StartKeep \/ StartTakeOutFails
  BY <1>17 DEF Due, JustDelivered, Drain, history, NoJob, StartRefused, StartKeep, StartTakeOutFails
<1>18. CASE StartTakeOut
  BY <1>18 DEF Due, JustDelivered, Drain, history, NoJob, StartTakeOut
<1>19. ASSUME NEW t \in Tickets, RemoveTicket(t)
      PROVE  Due'
  BY <1>19 DEF Due, JustDelivered, Drain, history, NoJob, RemoveTicket
<1>20. CASE UNCHANGED vars
  BY <1>20 DEF Due, JustDelivered, Drain, history, NoJob, vars
<1> QED
  BY <1>1, <1>2, <1>3, <1>4, <1>5, <1>6, <1>7, <1>8, <1>9, <1>10, <1>11, <1>12,
     <1>13, <1>14, <1>15, <1>16, <1>17, <1>18, <1>19, <1>20
     DEF Next, JobStep, Fault, UserStep, StartStep

-----------------------------------------------------------------------------
(* A booking HRM holds already is the slot itself if only this list was    *)
(* ever sent, for no two slots of a list overlap: the answer "overlap"     *)
(* then means what the code takes it for.                                  *)

LEMMA AccountedStep ==
  ASSUME Typed, Phases, Accounted, [Next]_vars
  PROVE  Accounted'
<1>1. CASE ClockMoves
  <2>1. hrm' = hrm /\ job' = job /\ sent' = sent
    BY <1>1 DEF ClockMoves, history
  <2> QED
    BY <2>1 DEF Accounted, Drain
<1>2. CASE DrainBegins
  <2>1. hrm' = hrm /\ sent' = sent /\ Becomes("drain", State("token", queue, <<>>, {}, TRUE))
    BY <1>2, DrainBeginsDoes DEF DrainBegins, history
  <2> QED
    BY <2>1 DEF Accounted, Becomes, State, NoJob, Drain, Jobs
<1>3. ASSUME NEW p \in Jobs, TokenArrives(p)
      PROVE  Accounted'
  <2>1. /\ hrm' = hrm /\ job[p].at = "token"
        /\ sent' = IF p = "drain" THEN sent \cup {job[p].value} ELSE sent
    BY <1>3 DEF TokenArrives
  <2>2. Becomes(p, State("log", job[p].value, Columns, SlotsOf(p), job[p].ok))
    BY <1>3, TokenDoes
  <2>3. CASE p = "drain"
    <3>1. Drain.value # <<>> /\ SlotsOf(p) = Bookings(Drain.value)
      BY <2>1, <2>3 DEF Phases, SlotsOf, Drain
    <3> QED
      BY <2>1, <2>2, <2>3, <3>1 DEF Accounted, Becomes, State, Drain, Jobs
  <2>4. CASE p # "drain"
    <3>1. SlotsOf(p) = job[p].slots
      BY <2>4 DEF SlotsOf
    <3> QED
      BY <2>1, <2>2, <2>4, <3>1 DEF Accounted, Becomes, State, Drain, Jobs
  <2> QED
    BY <2>3, <2>4
<1>4. ASSUME NEW p \in Jobs, WriteCell(p)
      PROVE  Accounted'
  <2>1. hrm' = hrm /\ sent' = sent /\ Becomes(p, State(job[p].at, job[p].value, Tail(job[p].columns), job[p].slots, job[p].ok))
    BY <1>4, WriteCellDoes DEF WriteCell, history
  <2> QED
    BY <2>1 DEF Accounted, Becomes, State, NoJob, Drain, Jobs
<1>5. ASSUME NEW p \in Jobs, SendSlot(p) \/ SlotFails(p) \/ SlotRejected(p)
      PROVE  Accounted'
  <2>1. PICK slot \in job[p].slots, left \in SUBSET job[p].slots, ok \in BOOLEAN :
          /\ job[p].at = "log"
          /\ Becomes(p, State(job[p].at, job[p].value, job[p].columns, left, ok))
          /\ hrm' \in {hrm, hrm \cup {slot}}
          /\ ok = FALSE \/
               /\ ok = job[p].ok /\ left = job[p].slots \ {slot} /\ ~Future(slot)
               /\ slot \in hrm' \/ (\E b \in hrm : Overlaps(slot, b))
    BY <1>5, SlotDoes
  <2>2. sent' = sent
    BY <1>5 DEF SendSlot, SlotFails, SlotRejected, history
  <2>3. slot \in Bookings(job[p].value) /\ job[p].value \in sent /\ job[p].value # <<>>
    BY DEF Accounted
  <2>4. \A b \in hrm' : \E s \in sent' : s # <<>> /\ b \in Bookings(s)
    BY <2>1, <2>2, <2>3 DEF Accounted
  <2>5. \A q \in Jobs : job'[q].slots # {} =>
          /\ job'[q].value \in sent' /\ job'[q].value # <<>>
          /\ job'[q].slots \subseteq Bookings(job'[q].value)
    BY <2>1, <2>2 DEF Accounted, Becomes, State
  <2>6. ASSUME Drain'.at = "log", Drain'.ok = TRUE
        PROVE  /\ Drain'.value \in sent'
               /\ sent' = {Drain'.value} => Bookings(Drain'.value) \subseteq hrm' \cup Drain'.slots
    <3>1. CASE p # "drain"
      <4>1. Drain' = Drain
        BY <2>1, <3>1 DEF Becomes, Jobs, Drain
      <4> QED
        BY <2>1, <2>2, <2>6, <4>1 DEF Accounted
    <3>2. CASE p = "drain"
      <4>1. /\ Drain.at = "log" /\ Drain.ok = TRUE /\ Drain'.value = Drain.value
            /\ Drain'.slots = Drain.slots \ {slot} /\ Drain.value = job[p].value
            /\ slot \in hrm' \/ (\E b \in hrm : Overlaps(slot, b))
        BY <2>1, <2>6, <3>2 DEF Becomes, State, Drain
      <4>2. SUFFICES ASSUME sent = {Drain.value} PROVE slot \in hrm'
        BY <2>1, <2>2, <4>1 DEF Accounted
      <4>3. CASE \E b \in hrm : Overlaps(slot, b)
        <5>1. PICK b \in hrm : Overlaps(slot, b)
          BY <4>3
        <5>2. b \in Bookings(Drain.value)
          BY <4>2 DEF Accounted
        <5>3. Drain.value \in Lists \ {<<>>}
          BY <2>3, <4>1 DEF Typed
        <5>4. slot = b
          BY <2>3, <4>1, <5>1, <5>2, <5>3, BookingsApart
        <5> QED
          BY <2>1, <5>4
      <4> QED
        BY <4>1, <4>3
    <3> QED
      BY <3>1, <3>2
  <2> QED
    BY <2>4, <2>5, <2>6 DEF Accounted
<1>6. CASE DrainLogged
  <2>1. hrm' = hrm /\ sent' = sent /\ Drain.slots = {}
    BY <1>6 DEF DrainLogged, BothDone, Drain
  <2>2. \/ Becomes("drain", State("remove", Drain.value, Drain.columns, {}, Drain.ok))
        \/ Becomes("drain", NoJob)
    BY <1>6, <2>1, DrainLoggedDoes
  <2> QED
    BY <2>1, <2>2 DEF Accounted, Becomes, State, NoJob, Drain, Jobs
<1>7. CASE RemoveLogged
  <2>1. hrm' = hrm /\ sent' = sent /\ Becomes("drain", NoJob)
    BY <1>7, EndsDoes DEF RemoveLogged, history
  <2> QED
    BY <2>1 DEF Accounted, Becomes, State, NoJob, Drain, Jobs
<1>8. CASE PageEnds
  <2>1. hrm' = hrm /\ sent' = sent /\ Becomes("page", NoJob)
    BY <1>8, EndsDoes DEF PageEnds, history
  <2> QED
    BY <2>1 DEF Accounted, Becomes, State, NoJob, Drain, Jobs
<1>9. ASSUME NEW p \in Jobs, NoToken(p)
      PROVE  Accounted'
  <2>1. /\ hrm' = hrm /\ job[p].at = "token"
        /\ sent' = IF p = "drain" THEN sent \cup {job[p].value} ELSE sent
    BY <1>9 DEF NoToken
  <2>2. Becomes(p, State("log", job[p].value, job[p].columns, SlotsOf(p), FALSE))
    BY <1>9, NoTokenDoes
  <2>3. CASE p = "drain"
    <3>1. Drain.value # <<>> /\ SlotsOf(p) = Bookings(Drain.value)
      BY <2>1, <2>3 DEF Phases, SlotsOf, Drain
    <3> QED
      BY <2>1, <2>2, <2>3, <3>1 DEF Accounted, Becomes, State, Drain, Jobs
  <2>4. CASE p # "drain"
    <3>1. SlotsOf(p) = job[p].slots
      BY <2>4 DEF SlotsOf
    <3> QED
      BY <2>1, <2>2, <2>4, <3>1 DEF Accounted, Becomes, State, Drain, Jobs
  <2> QED
    BY <2>3, <2>4
<1>10. ASSUME NEW p \in Jobs, RecordFails(p)
      PROVE  Accounted'
  <2>1. hrm' = hrm /\ sent' = sent /\ Becomes(p, State("log", job[p].value, job[p].columns, {}, FALSE))
    BY <1>10, RecordFailsDoes DEF RecordFails, history
  <2> QED
    BY <2>1 DEF Accounted, Becomes, State, NoJob, Drain, Jobs
<1>11. ASSUME NEW p \in Jobs, CellFails(p)
      PROVE  Accounted'
  <2>1. hrm' = hrm /\ sent' = sent /\ Becomes(p, State(job[p].at, job[p].value, <<>>, job[p].slots, FALSE))
    BY <1>11, CellFailsDoes DEF CellFails, history
  <2> QED
    BY <2>1 DEF Accounted, Becomes, State, NoJob, Drain, Jobs
<1>12. CASE RemoveFails
  <2>1. hrm' = hrm /\ sent' = sent /\ Becomes("drain", NoJob)
    BY <1>12, EndsDoes DEF RemoveFails, history
  <2> QED
    BY <2>1 DEF Accounted, Becomes, State, NoJob, Drain, Jobs
<1>13. ASSUME NEW kind \in PageKinds, NEW tickets \in PageLists, PageBegins(kind, tickets)
      PROVE  Accounted'
  <2> DEFINE b == IF kind \in {"both", "hrm"} THEN Bookings(tickets) ELSE {}
             v == IF kind = "off" THEN Off ELSE tickets
             at == IF kind = "hrm" THEN "log" ELSE "token"
  <2>1. /\ hrm' = hrm
        /\ sent' = IF kind \in {"both", "hrm"} THEN sent \cup {tickets} ELSE sent
    BY <1>13 DEF PageBegins
  <2>2. Becomes("page", State(at, v, <<>>, b, TRUE)) /\ tickets # <<>>
    BY <1>13, PageBeginsDoes
  <2>3. b # {} => b = Bookings(tickets) /\ v = tickets /\ tickets \in sent'
    BY <2>1
  <2>4. Drain' = Drain
    BY <2>2 DEF Becomes, Jobs, Drain
  <2> HIDE DEF b, v, at
  <2>5. \A x \in hrm' : \E s \in sent' : s # <<>> /\ x \in Bookings(s)
    BY <2>1 DEF Accounted
  <2>6. \A p \in Jobs : job'[p].slots # {} =>
          /\ job'[p].value \in sent' /\ job'[p].value # <<>>
          /\ job'[p].slots \subseteq Bookings(job'[p].value)
    BY <2>1, <2>2, <2>3 DEF Accounted, Becomes, State, Jobs
  <2>7. Drain'.at = "log" /\ Drain'.ok = TRUE =>
          /\ Drain'.value \in sent'
          /\ sent' = {Drain'.value} => Bookings(Drain'.value) \subseteq hrm' \cup Drain'.slots
    BY <2>1, <2>4 DEF Accounted
  <2> QED
    BY <2>5, <2>6, <2>7 DEF Accounted
<1>14. ASSUME NEW tickets \in Lists, OnQueue(tickets)
      PROVE  Accounted'
  <2>1. hrm' = hrm /\ job' = job /\ sent' = sent
    BY <1>14 DEF OnQueue, Ask, history
  <2> QED
    BY <2>1 DEF Accounted, Drain
<1>15. ASSUME NEW t \in Tickets, StartCheck(t)
      PROVE  Accounted'
  <2>1. hrm' = hrm /\ job' = job /\ sent' = sent
    BY <1>15 DEF StartCheck, history
  <2> QED
    BY <2>1 DEF Accounted, Drain
<1>16. CASE StartAdd
  <2>1. hrm' = hrm /\ job' = job /\ sent' = sent
    BY <1>16 DEF StartAdd, Ask, history
  <2> QED
    BY <2>1 DEF Accounted, Drain
<1>17. CASE StartRefused \/ StartKeep \/ StartTakeOutFails
  <2>1. hrm' = hrm /\ job' = job /\ sent' = sent
    BY <1>17 DEF StartRefused, StartKeep, StartTakeOutFails, history
  <2> QED
    BY <2>1 DEF Accounted, Drain
<1>18. CASE StartTakeOut
  <2>1. hrm' = hrm /\ job' = job /\ sent' = sent
    BY <1>18 DEF StartTakeOut, history
  <2> QED
    BY <2>1 DEF Accounted, Drain
<1>19. ASSUME NEW t \in Tickets, RemoveTicket(t)
      PROVE  Accounted'
  <2>1. hrm' = hrm /\ job' = job /\ sent' = sent
    BY <1>19 DEF RemoveTicket, history
  <2> QED
    BY <2>1 DEF Accounted, Drain
<1>20. CASE UNCHANGED vars
  <2>1. hrm' = hrm /\ job' = job /\ sent' = sent
    BY <1>20 DEF vars, history
  <2> QED
    BY <2>1 DEF Accounted, Drain
<1> QED
  BY <1>1, <1>2, <1>3, <1>4, <1>5, <1>6, <1>7, <1>8, <1>9, <1>10, <1>11, <1>12,
     <1>13, <1>14, <1>15, <1>16, <1>17, <1>18, <1>19, <1>20
     DEF Next, JobStep, Fault, UserStep, StartStep

-----------------------------------------------------------------------------
(* While Start is at work no drain takes anything out. *)

LEMMA StartSafeStep ==
  ASSUME Typed, Phases, Recorded, StartSafe, [Next]_vars
  PROVE  StartSafe'
<1>1. CASE ClockMoves
  <2>1. start'.at = "idle"
    BY <1>1 DEF ClockMoves, NoStart, history
  <2> QED
    BY <2>1 DEF StartSafe
<1>2. CASE DrainBegins
  <2>1. UNCHANGED <<clock, queue, start, paged, cell>> /\ queue # <<>>
    BY <1>2 DEF DrainBegins, history, Drain
  <2>2. Becomes("drain", State("token", queue, <<>>, {}, TRUE))
    BY <1>2, DrainBeginsDoes
  <2> QED
    BY <2>1, <2>2 DEF StartSafe, Becomes, State, Drain
<1>3. ASSUME NEW p \in Jobs, TokenArrives(p)
      PROVE  StartSafe'
  <2>1. UNCHANGED <<clock, queue, start, paged, cell>> /\ job[p].at = "token"
    BY <1>3 DEF TokenArrives, history, Drain
  <2>2. Becomes(p, State("log", job[p].value, Columns, SlotsOf(p), job[p].ok))
    BY <1>3, TokenDoes
  <2>3. CASE p = "drain"
    <3>1. \E s \in SlotsOf(p) : s.end = HrmTodayOpensAt
      BY <2>1, <2>3, LastBooking DEF SlotsOf, Typed, Phases, Drain
    <3>2. Drain.at = "token" /\ Drain'.at = "log" /\ Drain'.value = Drain.value
          /\ Drain'.slots = SlotsOf(p)
      BY <2>1, <2>2, <2>3 DEF Becomes, State, Drain
    <3> QED
      BY <2>1, <3>1, <3>2 DEF StartSafe
  <2>4. CASE p # "drain"
    <3>1. Drain' = Drain
      BY <2>2, <2>4 DEF Becomes, Jobs, Drain
    <3> QED
      BY <2>1, <3>1 DEF StartSafe
  <2> QED
    BY <2>3, <2>4
<1>4. ASSUME NEW p \in Jobs, WriteCell(p)
      PROVE  StartSafe'
  <2>1. UNCHANGED <<clock, queue, start, paged>> /\ job[p].columns # <<>>
    BY <1>4 DEF WriteCell, history
  <2>2. /\ Becomes(p, State(job[p].at, job[p].value, Tail(job[p].columns), job[p].slots, job[p].ok))
        /\ \/ cell' = [cell EXCEPT !["M"] = job[p].value]
           \/ cell' = [cell EXCEPT !["J"] = job[p].value]
    BY <1>4, WriteCellDoes
  <2>3. Drain'.at = Drain.at /\ Drain'.value = Drain.value /\ Drain'.slots = Drain.slots
        /\ Drain'.ok = Drain.ok
    BY <2>2 DEF Becomes, State, Drain, Jobs
  <2>4. ~ (start.at = "checked" /\ start.written = FALSE /\ queue = <<>> /\ paged = FALSE)
    BY <2>1 DEF StartSafe, Phases, Jobs, Drain
  <2>5. ASSUME start.at = "added", queue = <<start.ticket>>, paged = FALSE
        PROVE  \A c \in {"M", "J"} : cell'[c] \in {<<>>, queue}
    <3>1. p = "drain" /\ Drain.at # "idle"
      BY <2>1, <2>5 DEF Phases, Jobs, Drain
    <3>2. job[p].value = queue /\ \A c \in {"M", "J"} : cell[c] \in {<<>>, queue}
      BY <2>5, <3>1 DEF StartSafe, Drain
    <3> QED
      BY <2>2, <3>2 DEF Typed
  <2> QED
    BY <2>1, <2>3, <2>4, <2>5 DEF StartSafe
<1>5. ASSUME NEW p \in Jobs, SendSlot(p) \/ SlotFails(p) \/ SlotRejected(p)
      PROVE  StartSafe'
  <2>1. PICK slot \in job[p].slots, left \in SUBSET job[p].slots, ok \in BOOLEAN :
          /\ job[p].at = "log"
          /\ Becomes(p, State(job[p].at, job[p].value, job[p].columns, left, ok))
          /\ ok = FALSE \/ (ok = job[p].ok /\ left = job[p].slots \ {slot} /\ ~Future(slot))
    BY <1>5, SlotDoes
  <2>2. UNCHANGED <<clock, queue, start, paged, cell>>
    BY <1>5 DEF SendSlot, SlotFails, SlotRejected, history
  <2>3. CASE p = "drain"
    <3>1. Drain'.at = Drain.at /\ Drain'.value = Drain.value /\ Drain.at = "log"
      BY <2>1, <2>3 DEF Becomes, State, Drain
    <3>2. ASSUME start.at # "idle", Drain'.ok = TRUE
          PROVE  \E s \in Drain'.slots : s.end = HrmTodayOpensAt
      <4>1. /\ Drain.ok = TRUE /\ Drain'.slots = Drain.slots \ {slot} /\ ~(slot.end > clock)
            /\ slot \in Booking
        BY <2>1, <2>3, <3>2 DEF Becomes, State, Drain, Future, Typed, JobState
      <4>2. PICK s \in Drain.slots : s.end = HrmTodayOpensAt
        BY <3>1, <3>2, <4>1 DEF StartSafe
      <4>3. clock < HrmTodayOpensAt /\ clock \in Nat /\ slot.end \in Int
        BY <3>2, <4>1, WorkLogAssumption DEF StartSafe, Typed, Booking
      <4>4. slot.end # HrmTodayOpensAt
        BY <4>1, <4>3 DEF HrmTodayOpensAt
      <4> QED
        BY <4>1, <4>2, <4>4
    <3> QED
      BY <2>2, <3>1, <3>2 DEF StartSafe
  <2>4. CASE p # "drain"
    <3>1. Drain' = Drain
      BY <2>1, <2>4 DEF Becomes, Jobs, Drain
    <3> QED
      BY <2>2, <3>1 DEF StartSafe
  <2> QED
    BY <2>3, <2>4
<1>6. CASE DrainLogged
  <2>1. /\ UNCHANGED <<clock, queue, start, paged, cell>>
        /\ Drain.at = "log" /\ Drain.slots = {}
    BY <1>6 DEF DrainLogged, BothDone, Drain
  <2>2. start.at # "idle" => Drain.ok # TRUE
    BY <2>1 DEF StartSafe
  <2>3. start.at # "idle" => Drain'.at = "idle"
    BY <1>6, <2>2, DrainLoggedDoes DEF Becomes, NoJob, Drain
  <2> QED
    BY <2>1, <2>3 DEF StartSafe
<1>7. CASE RemoveLogged
  <2>1. start'.at = "idle"
    BY <1>7 DEF StartSafe, Drain, RemoveLogged, NoStart, history
  <2> QED
    BY <2>1 DEF StartSafe
<1>8. CASE PageEnds
  <2>1. start'.at = "idle"
    BY <1>8 DEF PageEnds, NoStart, history
  <2> QED
    BY <2>1 DEF StartSafe
<1>9. ASSUME NEW p \in Jobs, NoToken(p)
      PROVE  StartSafe'
  <2>1. UNCHANGED <<clock, queue, start, paged, cell>> /\ job[p].at = "token"
    BY <1>9 DEF NoToken, history, Drain
  <2>2. Becomes(p, State("log", job[p].value, job[p].columns, SlotsOf(p), FALSE))
    BY <1>9, NoTokenDoes
  <2>3. CASE p = "drain"
    <3>1. \E s \in SlotsOf(p) : s.end = HrmTodayOpensAt
      BY <2>1, <2>3, LastBooking DEF SlotsOf, Typed, Phases, Drain
    <3>2. Drain.at = "token" /\ Drain'.at = "log" /\ Drain'.value = Drain.value
          /\ Drain'.slots = SlotsOf(p)
      BY <2>1, <2>2, <2>3 DEF Becomes, State, Drain
    <3> QED
      BY <2>1, <3>1, <3>2 DEF StartSafe
  <2>4. CASE p # "drain"
    <3>1. Drain' = Drain
      BY <2>2, <2>4 DEF Becomes, Jobs, Drain
    <3> QED
      BY <2>1, <3>1 DEF StartSafe
  <2> QED
    BY <2>3, <2>4
<1>10. ASSUME NEW p \in Jobs, RecordFails(p)
      PROVE  StartSafe'
  <2>1. UNCHANGED <<clock, queue, start, paged, cell>> /\ job[p].at = "token"
    BY <1>10 DEF RecordFails, history, Drain
  <2>2. Becomes(p, State("log", job[p].value, job[p].columns, {}, FALSE))
    BY <1>10, RecordFailsDoes
  <2>3. CASE p = "drain"
    <3>1. Drain.at \in {"token", "log"} /\ Drain'.at = "log" /\ Drain'.value = Drain.value
          /\ Drain'.ok = FALSE
      BY <2>1, <2>2, <2>3 DEF Phases, Becomes, State, Drain
    <3> QED
      BY <2>1, <3>1 DEF StartSafe
  <2>4. CASE p # "drain"
    <3>1. Drain' = Drain
      BY <2>2, <2>4 DEF Becomes, Jobs, Drain
    <3> QED
      BY <2>1, <3>1 DEF StartSafe
  <2> QED
    BY <2>3, <2>4
<1>11. ASSUME NEW p \in Jobs, CellFails(p)
      PROVE  StartSafe'
  <2>1. UNCHANGED <<clock, queue, start, paged>> /\ job[p].columns # <<>> /\ job[p].at = "log"
    BY <1>11 DEF CellFails, Phases
  <2>2. /\ Becomes(p, State(job[p].at, job[p].value, <<>>, job[p].slots, FALSE))
        /\ cell' \in {cell, [cell EXCEPT !["M"] = job[p].value], [cell EXCEPT !["J"] = job[p].value]}
    BY <1>11, CellFailsDoes
  <2>3. Drain'.at = Drain.at /\ Drain'.value = Drain.value /\ Drain'.slots = Drain.slots
        /\ Drain'.ok \in {Drain.ok, FALSE}
    BY <2>2 DEF Becomes, State, Drain, Jobs
  <2>4. ~ (start.at = "checked" /\ start.written = FALSE /\ queue = <<>> /\ paged = FALSE)
    BY <2>1 DEF StartSafe, Phases, Jobs, Drain
  <2>5. ASSUME start.at = "added", queue = <<start.ticket>>, paged = FALSE
        PROVE  \A c \in {"M", "J"} : cell'[c] \in {<<>>, queue}
    <3>1. p = "drain" /\ Drain.at # "idle"
      BY <2>1, <2>5 DEF Phases, Jobs, Drain
    <3>2. job[p].value = queue /\ \A c \in {"M", "J"} : cell[c] \in {<<>>, queue}
      BY <2>5, <3>1 DEF StartSafe, Drain
    <3> QED
      BY <2>2, <3>2 DEF Typed
  <2> QED
    BY <2>1, <2>3, <2>4, <2>5 DEF StartSafe
<1>12. CASE RemoveFails
  <2>1. start'.at = "idle"
    BY <1>12 DEF StartSafe, Drain, RemoveFails, NoStart, history
  <2> QED
    BY <2>1 DEF StartSafe
<1>13. ASSUME NEW kind \in PageKinds, NEW tickets \in PageLists, PageBegins(kind, tickets)
      PROVE  StartSafe'
  <2>1. start'.at = "idle"
    BY <1>13 DEF PageBegins, NoStart, history
  <2> QED
    BY <2>1 DEF StartSafe
<1>14. ASSUME NEW tickets \in Lists, OnQueue(tickets)
      PROVE  StartSafe'
  <2>1. start'.at = "idle"
    BY <1>14 DEF OnQueue, NoStart, history
  <2> QED
    BY <2>1 DEF StartSafe
<1>15. ASSUME NEW t \in Tickets, StartCheck(t)
      PROVE  StartSafe'
  <2>1. /\ start' = [at |-> "checked", ticket |-> t, written |-> written]
        /\ Drain.at = "idle" /\ clock < HrmTodayOpensAt
        /\ UNCHANGED <<clock, queue, cell, job, paged>>
    BY <1>15 DEF StartCheck, Drain, history
  <2>2. start'.at = "checked" /\ start'.written = written
    BY <2>1
  <2>3. written = FALSE => \A c \in {"M", "J"} : cell[c] = <<>>
    BY DEF Recorded
  <2> QED
    BY <2>1, <2>2, <2>3 DEF StartSafe, Drain
<1>16. CASE StartAdd
  <2>1. /\ start.at = "checked" /\ start.ticket \notin ToSet(queue)
        /\ queue # <<>> \/ ~start.written
        /\ queue' = Append(queue, start.ticket)
        /\ start' = [start EXCEPT !.at = "added"]
        /\ UNCHANGED <<clock, cell, job, paged>>
    BY <1>16 DEF StartAdd
  <2>2. start \in [at : {"checked", "added"}, ticket : Tickets, written : BOOLEAN]
    BY <2>1 DEF Typed, StartState, NoStart
  <2>3. start'.at = "added" /\ start'.ticket = start.ticket
    BY <2>1, <2>2
  <2>4. ASSUME queue' = <<start.ticket>>, paged = FALSE
        PROVE  Drain.at = "idle" /\ \A c \in {"M", "J"} : cell[c] = <<>>
    <3>1. queue = <<>>
      BY <2>1, <2>2, <2>4, AppendedList DEF Typed
    <3>2. start.written = FALSE
      BY <2>1, <2>2, <3>1
    <3> QED
      BY <2>1, <2>4, <3>1, <3>2 DEF StartSafe
  <2> QED
    BY <2>1, <2>3, <2>4 DEF StartSafe, Drain
<1>17. CASE StartRefused \/ StartKeep \/ StartTakeOutFails
  <2>1. start'.at = "idle"
    BY <1>17 DEF StartRefused, StartKeep, StartTakeOutFails, NoStart, history
  <2> QED
    BY <2>1 DEF StartSafe
<1>18. CASE StartTakeOut
  <2>1. start'.at = "idle"
    BY <1>18 DEF StartTakeOut, NoStart, history
  <2> QED
    BY <2>1 DEF StartSafe
<1>19. ASSUME NEW t \in Tickets, RemoveTicket(t)
      PROVE  StartSafe'
  <2>1. start'.at = "idle"
    BY <1>19 DEF RemoveTicket, NoStart, history
  <2> QED
    BY <2>1 DEF StartSafe
<1>20. CASE UNCHANGED vars
  <2>1. UNCHANGED <<clock, queue, start, paged, cell, job>>
    BY <1>20 DEF vars, history
  <2> QED
    BY <2>1 DEF StartSafe, Drain
<1> QED
  BY <1>1, <1>2, <1>3, <1>4, <1>5, <1>6, <1>7, <1>8, <1>9, <1>10, <1>11, <1>12,
     <1>13, <1>14, <1>15, <1>16, <1>17, <1>18, <1>19, <1>20
     DEF Next, JobStep, Fault, UserStep, StartStep


-----------------------------------------------------------------------------
(* The invariant. *)

LEMMA InitInv == Init => Inv
<1> SUFFICES ASSUME Init PROVE Inv
  OBVIOUS
<1>1. /\ job = [p \in Jobs |-> NoJob] /\ NoJob \in JobState
      /\ \A p \in Jobs : job[p] = NoJob
      /\ Drain = NoJob /\ job["page"] = NoJob
  BY NoJobTyped DEF Init, Drain, Jobs
<1>2. ToSet(Columns) = {"M", "J"}
  BY DEF Columns, ToSet
<1>3. cell \in [{"M", "J"} -> Lists \cup {Off}] /\ \A c \in {"M", "J"} : cell[c] = <<>>
  BY <1>2, EmptyList DEF Init
<1>4. asks \in 0 .. MaxAsks /\ faults \in 0 .. MaxFaults
  BY WorkLogAssumption DEF Init
<1>5. Typed
  <2>1. job \in [Jobs -> JobState] /\ Drain.value \in Lists
    BY <1>1, EmptyList DEF NoJob
  <2>2. queue \in Lists /\ clock \in Times /\ start \in StartState
    BY EmptyList DEF Init, StartState
  <2> QED
    BY <1>3, <1>4, <2>1, <2>2 DEF Init, Typed
<1>6. Phases
  BY <1>1 DEF Phases, NoJob
<1>7. Recorded
  BY <1>1, <1>3 DEF Recorded, NoJob
<1>8. Mirrored
  BY <1>1, <1>3, OneColumn DEF Mirrored, NoJob
<1>9. Accounted
  BY <1>1 DEF Init, Accounted, NoJob
<1>10. StartSafe
  BY DEF Init, StartSafe, NoStart
<1>11. Due
  BY <1>1 DEF Due, NoJob
<1> QED
  BY <1>5, <1>6, <1>7, <1>8, <1>9, <1>10, <1>11 DEF Inv

LEMMA InvStep == Inv /\ [Next]_vars => Inv'
<1> SUFFICES ASSUME Typed, Phases, Recorded, Mirrored, Accounted, StartSafe, Due, [Next]_vars
             PROVE  Inv'
  BY DEF Inv
<1>1. Typed' /\ Phases' /\ Recorded'
  BY TypedStep, PhasesStep, RecordedStep
<1>2. Mirrored' /\ Accounted' /\ StartSafe' /\ Due'
  BY MirroredStep, AccountedStep, StartSafeStep, DueStep
<1> QED
  BY <1>1, <1>2 DEF Inv

LEMMA InvHolds == Spec => []Inv
  BY InitInv, InvStep, PTL DEF Spec

-----------------------------------------------------------------------------
(* What the project promises of a day's log. *)

LEMMA TwoColumns == ToSet(Columns) = {"M", "J"}
  BY DEF Columns, ToSet

(* Every variable keeps its type: queue and jobs hold lists without a      *)
(* repeated ticket, and no booking ends before it starts.                  *)
THEOREM TypeCorrect == Spec => []TypeOK
<1>1. Inv => TypeOK
  <2> SUFFICES ASSUME Typed PROVE TypeOK
    BY DEF Inv
  <2>1. cell \in [ToSet(Columns) -> Lists \cup {Off}]
    BY TwoColumns DEF Typed
  <2>2. \A b \in hrm : b.ticket \in Tickets /\ b.start <= b.end
    BY DEF Typed, Booking
  <2>3. \A p \in Jobs :
          /\ job[p].at \in {"idle", "token", "log", "remove"}
          /\ job[p].value \in Lists \cup {Off}
          /\ job[p].ok \in BOOLEAN
    BY DEF Typed, JobState
  <2>4. start.at \in {"idle", "checked", "added"}
    BY DEF Typed, StartState, NoStart
  <2> QED
    BY <2>1, <2>2, <2>3, <2>4 DEF Typed, TypeOK
<1> QED
  BY <1>1, InvHolds, PTL

(* TscWrittenDates knows of the day before any cell holds anything, for    *)
(* either job, and whatever fails.                                         *)
THEOREM DaysAreRecordedFirst == Spec => []RecordedFirst
<1>1. Inv => RecordedFirst
  BY DEF Inv, Typed, Recorded, RecordedFirst
<1> QED
  BY <1>1, InvHolds, PTL

(* The two columns say the same whenever the drain is at rest, unless a    *)
(* write failed and none has written both since, or the Work page wrote   *)
(* beside it.                                                              *)
THEOREM ColumnsAgree == Spec => []MirrorsAgree
<1>1. Inv => MirrorsAgree
  <2> SUFFICES ASSUME Inv, \A p \in Jobs : job[p].at = "idle", ~torn, ~paged
               PROVE  cell["M"] = cell["J"]
    BY DEF MirrorsAgree
  <2>1. torn = FALSE /\ paged = FALSE
    BY DEF Inv, Typed
  <2>2. "drain" \in Jobs
    BY DEF Jobs
  <2>3. Drain.columns = <<>>
    BY <2>2 DEF Inv, Phases, Drain
  <2> QED
    BY <2>1, <2>3, OneColumn DEF Inv, Mirrored
<1> QED
  BY <1>1, InvHolds, PTL

(* Start never begins an entry for a day whose cell holds a ticket that    *)
(* the entry would overwrite: what it read of the queue and of the written *)
(* days is stale by the time it adds its ticket, and still good enough.    *)
THEOREM StartNeverLosesTheCell == Spec => []StartKeepsTheCell
<1>1. Inv => StartKeepsTheCell
  <2> SUFFICES ASSUME Inv, start.at = "added", ~paged, queue = <<start.ticket>>,
                      NEW c \in DOMAIN cell
               PROVE  ToSet(cell[c]) \subseteq ToSet(queue)
    BY DEF StartKeepsTheCell
  <2>1. paged = FALSE /\ c \in {"M", "J"}
    BY DEF Inv, Typed
  <2>2. cell[c] \in {<<>>, queue}
    BY <2>1 DEF Inv, StartSafe
  <2> QED
    BY <2>2, EmptyList
<1> QED
  BY <1>1, InvHolds, PTL

(* Once a drain has succeeded with the one list that was ever sent, HRM    *)
(* holds exactly that list's slots, after any number of attempts, failed   *)
(* or half done, by either job.                                            *)
THEOREM RetriesAreSafe == Spec => []SafeToRetrySameList
<1>1. Inv => SafeToRetrySameList
  <2> SUFFICES ASSUME Inv, BothDone("drain"), Drain.ok, sent = {Drain.value}
               PROVE  hrm = Bookings(Drain.value)
    BY DEF SafeToRetrySameList, Drain
  <2>1. Drain.at = "log" /\ Drain.slots = {}
    BY DEF BothDone, Drain
  <2>2. Drain.ok = TRUE
    BY DEF Inv, Typed, JobState, Drain, Jobs
  <2>3. Bookings(Drain.value) \subseteq hrm
    BY <2>1, <2>2 DEF Inv, Accounted
  <2>4. hrm \subseteq Bookings(Drain.value)
    BY DEF Inv, Accounted
  <2> QED
    BY <2>3, <2>4
<1> QED
  BY <1>1, InvHolds, PTL

-----------------------------------------------------------------------------
(* The day's log as a queue that loses nothing it is owed. *)

LEMMA AsksAgain ==
  ASSUME Typed, NEW S \in SUBSET Tickets, Ask(S),
         ToSet(queue') = ToSet(queue) \cup S
  PROVE  Promise!Next
<1>1. \E again \in SUBSET S : delivered' = delivered \ again
  <2>1. S \ JustDelivered \in SUBSET S
    OBVIOUS
  <2> QED
    BY <2>1 DEF Ask
<1>2. Promise!Ask(S)
  BY <1>1 DEF Ask, Promise!Ask
<1> QED
  BY <1>2 DEF Promise!Next

LEMMA StepKeepsPromise == Inv /\ [Next]_vars => [Promise!Next]_(Promise!vars)
<1> SUFFICES ASSUME Typed, Due, [Next]_vars
             PROVE  Promise!Next \/ (owed' = owed /\ ToSet(queue') = ToSet(queue) /\ delivered' = delivered)
  BY DEF Inv, Promise!vars
<1> DEFINE Still == owed' = owed /\ queue' = queue /\ delivered' = delivered
<1>1. CASE ClockMoves \/ DrainBegins \/ RemoveFails
  BY <1>1 DEF ClockMoves, DrainBegins, RemoveFails, history
<1>2. ASSUME NEW p \in Jobs, TokenArrives(p) \/ WriteCell(p) \/ SendSlot(p)
      PROVE  Still
  BY <1>2 DEF TokenArrives, WriteCell, SendSlot, history
<1>3. ASSUME NEW p \in Jobs,
             NoToken(p) \/ RecordFails(p) \/ CellFails(p) \/ SlotFails(p) \/ SlotRejected(p)
      PROVE  Still
  BY <1>3 DEF NoToken, RecordFails, CellFails, SlotFails, SlotRejected, history
<1>4. CASE DrainLogged
  <2>1. owed' = owed /\ queue' = queue
    BY <1>4 DEF DrainLogged
  <2>2. CASE delivered' = delivered \cup ToSet(Drain.value)
    <3>1. Promise!Deliver(ToSet(Drain.value))
      BY <2>1, <2>2 DEF Promise!Deliver
    <3>2. ToSet(Drain.value) \in SUBSET Tickets
      BY ListMembers DEF Typed
    <3> QED
      BY <3>1, <3>2 DEF Promise!Next
  <2> QED
    BY <1>4, <2>1, <2>2, DrainLoggedDoes
<1>5. CASE RemoveLogged
  <2>1. queue' = Less(queue, ToSet(Drain.value)) /\ owed' = owed /\ delivered' = delivered
        /\ ToSet(Drain.value) \subseteq delivered
    BY <1>5 DEF RemoveLogged, Due, Drain, history
  <2>2. ToSet(queue') = ToSet(queue) \ ToSet(Drain.value)
    BY <2>1, LessOfList DEF Typed
  <2>3. Promise!Settle(ToSet(Drain.value))
    BY <2>1, <2>2 DEF Promise!Settle
  <2>4. ToSet(Drain.value) \in SUBSET Tickets
    BY ListMembers DEF Typed
  <2> QED
    BY <2>3, <2>4 DEF Promise!Next
<1>6. CASE PageEnds
  <2>1. CASE job["page"].value = Off /\ job["page"].ok
    <3>1. queue' = <<>> /\ owed' = {} /\ delivered' = delivered
      BY <1>6, <2>1 DEF PageEnds
    <3>2. Promise!TakeBack(Tickets)
      BY <3>1, EmptyList, ListMembers DEF Typed, Promise!TakeBack
    <3> QED
      BY <3>2 DEF Promise!Next
  <2>2. CASE ~(job["page"].value = Off /\ job["page"].ok)
    BY <1>6, <2>2 DEF PageEnds
  <2> QED
    BY <2>1, <2>2
<1>7. ASSUME NEW kind \in PageKinds, NEW tickets \in PageLists, PageBegins(kind, tickets)
      PROVE  Still
  BY <1>7 DEF PageBegins
<1>8. ASSUME NEW tickets \in Lists, OnQueue(tickets)
      PROVE  Promise!Next
  <2>1. Ask(ToSet(tickets)) /\ queue' = queue \o Less(tickets, ToSet(queue))
    BY <1>8 DEF OnQueue
  <2> QED
    BY <2>1, QueuedTyped, AsksAgain
<1>9. CASE StartAdd
  <2>1. /\ start.at = "checked" /\ start.ticket \notin ToSet(queue)
        /\ queue' = Append(queue, start.ticket) /\ Ask({start.ticket})
    BY <1>9 DEF StartAdd
  <2>2. start.ticket \in Tickets
    BY <2>1 DEF Typed, StartState, NoStart
  <2>3. ToSet(queue') = ToSet(queue) \cup {start.ticket}
    BY <2>1, <2>2, AppendedList DEF Typed
  <2> QED
    BY <2>1, <2>2, <2>3, AsksAgain
<1>10. CASE StartRefused \/ StartKeep \/ StartTakeOutFails \/ \E t \in Tickets : StartCheck(t)
  BY <1>10 DEF StartRefused, StartKeep, StartTakeOutFails, StartCheck, history
<1>11. ASSUME NEW t \in Tickets, queue' = Less(queue, {t}), owed' = owed \ {t}, delivered' = delivered
       PROVE  Promise!Next
  <2>1. ToSet(queue') = ToSet(queue) \ {t}
    BY <1>11, LessOfList DEF Typed
  <2>2. Promise!TakeBack({t})
    BY <1>11, <2>1 DEF Promise!TakeBack
  <2> QED
    BY <2>2 DEF Promise!Next
<1>12. CASE StartTakeOut
  <2>1. start.ticket \in Tickets
    BY <1>12 DEF StartTakeOut, Typed, StartState, NoStart
  <2> QED
    BY <1>11, <1>12, <2>1 DEF StartTakeOut
<1>13. ASSUME NEW t \in Tickets, RemoveTicket(t)
       PROVE  Promise!Next
  BY <1>11, <1>13 DEF RemoveTicket
<1>14. CASE UNCHANGED vars
  BY <1>14 DEF vars, history
<1> QED
  BY <1>1, <1>2, <1>3, <1>4, <1>5, <1>6, <1>7, <1>8, <1>9, <1>10, <1>12, <1>13, <1>14
     DEF Next, JobStep, Fault, UserStep, StartStep

(* The day's log implements the same promise the queue file makes: what    *)
(* the user is owed leaves the queue only when a drain has delivered it or *)
(* the user takes it back, with a Work page job running beside the drain.  *)
THEOREM ImplementsPromise == Spec => KeepsPromise
<1>1. Init => Promise!Init
  BY EmptyList DEF Init, Promise!Init
<1> QED
  BY <1>1, StepKeepsPromise, InvHolds, PTL DEF Spec, KeepsPromise, Promise!Spec
=============================================================================
