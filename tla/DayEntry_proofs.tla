--------------------------- MODULE DayEntry_proofs ---------------------------
(***************************************************************************)
(* The safety of DayEntry for any tickets, hours and number of tickets     *)
(* typed at a time: what queue.json holds is sound whatever is typed,      *)
(* queued, started and logged, and so are the hours it comes to.           *)
(*                                                                         *)
(* Sound is inductive by itself.  What is read back, what the hours are    *)
(* and how long the slots are needs more: an even day of more tickets than *)
(* it has minutes gives some of them none, which the next read takes for   *)
(* nonsense.  Those theorems say so, and assume a day has no more tickets. *)
(***************************************************************************)
EXTENDS DayEntry, TimeSlots_proofs, FiniteSetTheorems

-----------------------------------------------------------------------------
(* Entries. *)

Sound(e) ==
  /\ e \in [tickets : Seq(Tickets), minutes : Seq(Nat)]
  /\ IsInjective(e.tickets)
  /\ e.minutes # Even =>
       Len(e.minutes) = Len(e.tickets) /\ Sum(e.minutes) <= TotalWorkMinutes

Few == IsFiniteSet(Tickets) /\ Cardinality(Tickets) <= TotalWorkMinutes

LEMMA EvenIs == Even \in Seq(Nat) /\ Len(Even) = 0 /\ DOMAIN Even = {} /\ AllPositive(Even)
<1>1. <<>> \in Seq(Nat) /\ Len(<<>>) = 0 /\ DOMAIN <<>> = {}
  OBVIOUS
<1> QED
  BY <1>1 DEF Even, AllPositive

LEMMA EmptyIsSound == Sound(NoEntry) /\ AllPositive(NoEntry.minutes)
<1>1. <<>> \in Seq(Tickets) /\ <<>> \in Seq(Nat) /\ DOMAIN <<>> = {}
  OBVIOUS
<1> QED
  BY <1>1 DEF Sound, NoEntry, Even, IsInjective, AllPositive

LEMMA SoundIs ==
  ASSUME NEW e, Sound(e)
  PROVE  /\ e = [tickets |-> e.tickets, minutes |-> e.minutes]
         /\ e.tickets \in Seq(Tickets) /\ e.minutes \in Seq(Nat)
         /\ Len(e.tickets) \in Nat /\ DOMAIN e.tickets = 1 .. Len(e.tickets)
         /\ Len(e.minutes) \in Nat /\ DOMAIN e.minutes = 1 .. Len(e.minutes)
         /\ e.tickets # <<>> => Len(e.tickets) \in Nat \ {0}
         /\ e.minutes # Even => Len(e.minutes) \in Nat \ {0}
<1>1. e.tickets \in Seq(Tickets) /\ e.minutes \in Seq(Nat)
  BY DEF Sound
<1>2. e = [tickets |-> e.tickets, minutes |-> e.minutes]
  BY DEF Sound
<1> QED
  BY <1>1, <1>2 DEF Even

(* A saved custom day is accepted by the next read, unless a ticket has no *)
(* minutes at all.                                                         *)
LEMMA ReadIs ==
  ASSUME NEW e, Sound(e)
  PROVE  /\ Sound(Read(e)) /\ Read(e).tickets = e.tickets
         /\ Read(e).minutes = Even \/ Read(e).minutes = e.minutes
         /\ AllPositive(Read(e).minutes)
         /\ AllPositive(e.minutes) => Read(e) = e
<1> DEFINE m == ReadMinutes(e.minutes, Len(e.tickets))
<1>1. m = Even \/ m = e.minutes
  BY DEF ReadMinutes
<1>2. m # Even => AllPositive(m)
  BY DEF ReadMinutes
<1>3. AllPositive(Even)
  BY EvenIs
<1>4. AllPositive(e.minutes) => m = e.minutes
  BY DEF ReadMinutes, Sound, Sum
<1>5. Read(e) = [e EXCEPT !.minutes = m]
  BY DEF Read
<1> HIDE DEF m
<1>6. /\ Read(e).tickets = e.tickets /\ Read(e).minutes = m
      /\ Read(e) \in [tickets : Seq(Tickets), minutes : Seq(Nat)]
      /\ m = e.minutes => Read(e) = e
  <2>1. m \in Seq(Nat)
    BY <1>1, SoundIs, EvenIs
  <2> QED
    BY <1>5, <2>1 DEF Sound
<1>7. Sound(Read(e))
  BY <1>1, <1>6 DEF Sound
<1> QED
  BY <1>1, <1>2, <1>3, <1>4, <1>6, <1>7

(* The minutes an entry comes to: one number per ticket, no more than a    *)
(* day in all.                                                             *)
LEMMA MinutesAre ==
  ASSUME NEW e, Sound(e), e.tickets # <<>>
  PROVE  /\ Minutes(e) \in Seq(Nat) /\ Len(Minutes(e)) = Len(e.tickets)
         /\ Offset(Minutes(e), Len(e.tickets)) <= TotalWorkMinutes
         /\ e.minutes = Even => Offset(Minutes(e), Len(e.tickets)) = TotalWorkMinutes
<1>1. Len(e.tickets) \in Nat \ {0} /\ e.minutes \in Seq(Nat)
  BY SoundIs
<1>2. CASE e.minutes = Even
  <2>1. Minutes(e) = EvenSplit(Len(e.tickets))
    BY <1>2 DEF Minutes
  <2>2. EvenSplit(Len(e.tickets)) \in Seq(Nat) /\ Len(EvenSplit(Len(e.tickets))) = Len(e.tickets)
    BY <1>1, EvenSplitIs
  <2>3. Offset(EvenSplit(Len(e.tickets)), Len(e.tickets)) = TotalWorkMinutes
    BY <1>1, EvenOffset
  <2> QED
    BY <2>1, <2>2, <2>3, FullDay
<1>3. CASE e.minutes # Even
  <2>1. Minutes(e) = e.minutes /\ Len(e.minutes) = Len(e.tickets) /\ Sum(e.minutes) <= TotalWorkMinutes
    BY <1>3 DEF Minutes, Sound
  <2> QED
    BY <1>1, <1>3, <2>1 DEF Sum
<1> QED
  BY <1>2, <1>3

LEMMA FewEnough ==
  ASSUME Few, NEW s \in Seq(Tickets), IsInjective(s)
  PROVE  Len(s) <= TotalWorkMinutes
<1>1. Len(s) \in Nat /\ s \in [1 .. Len(s) -> Tickets] /\ DOMAIN s = 1 .. Len(s)
  OBVIOUS
<1>2. s \in Injection(1 .. Len(s), Tickets)
  BY <1>1 DEF Injection, IsInjective
<1>3. Cardinality(1 .. Len(s)) <= Cardinality(Tickets)
  BY <1>2, FS_Injection DEF Few
<1>4. Cardinality(1 .. Len(s)) = Len(s)
  BY <1>1, FS_Interval
<1>5. Cardinality(Tickets) \in Nat
  BY FS_CardinalityType DEF Few
<1> QED
  BY <1>1, <1>3, <1>4, <1>5, FullDay DEF Few

LEMMA MinutesArePositive ==
  ASSUME Few, NEW e, Sound(e), e.tickets # <<>>, AllPositive(e.minutes)
  PROVE  AllPositive(Minutes(e))
<1>1. Len(e.tickets) \in Nat \ {0} /\ Len(e.tickets) <= TotalWorkMinutes
  BY SoundIs, FewEnough DEF Sound
<1>2. CASE e.minutes = Even
  <2>1. Minutes(e) = EvenSplit(Len(e.tickets))
    BY <1>2 DEF Minutes
  <2>2. DOMAIN EvenSplit(Len(e.tickets)) = 1 .. Len(e.tickets)
    BY DEF EvenSplit
  <2> QED
    BY <1>1, <2>1, <2>2, EvenSplitIs DEF AllPositive
<1>3. CASE e.minutes # Even
  BY <1>3 DEF Minutes
<1> QED
  BY <1>2, <1>3

-----------------------------------------------------------------------------
(* What a merge and a removal make of an entry. *)

(* The first n members of w are those of s, and the rest those of u. *)
Joins(w, s, u, n) ==
  /\ Len(w) = n + Len(u) /\ DOMAIN w = 1 .. Len(w)
  /\ \A k \in 1 .. n : w[k] = s[k]
  /\ \A k \in 1 .. Len(w) : k \notin 1 .. n => k - n \in 1 .. Len(u) /\ w[k] = u[k - n]

LEMMA JoinIs ==
  ASSUME NEW T, NEW s \in Seq(T), NEW u \in Seq(T)
  PROVE  s \o u \in Seq(T) /\ Joins(s \o u, s, u, Len(s))
<1> DEFINE w == s \o u
<1>1. /\ w \in Seq(T) /\ Len(w) = Len(s) + Len(u) /\ DOMAIN w = 1 .. Len(w)
      /\ \A k \in 1 .. Len(s) : w[k] = s[k]
      /\ \A k \in Len(s) + 1 .. Len(w) : w[k] = u[k - Len(s)]
      /\ Len(s) \in Nat /\ Len(u) \in Nat
  OBVIOUS
<1> HIDE DEF w
<1>2. \A k \in 1 .. Len(w) : k \notin 1 .. Len(s) =>
        k \in Len(s) + 1 .. Len(w) /\ k - Len(s) \in 1 .. Len(u)
  BY <1>1
<1>3. w \in Seq(T) /\ Joins(w, s, u, Len(s))
  BY <1>1, <1>2 DEF Joins
<1> QED
  BY <1>3 DEF w

(* The positions that are kept: ascending, and exactly those of S. *)
LEMMA SomeOf ==
  ASSUME NEW T, NEW s \in Seq(T), NEW S, NEW p, p = Positions(Len(s), S)
  PROVE  /\ At(s, p) \in Seq(T) /\ Len(At(s, p)) = Len(p) /\ Len(p) \in Nat /\ p \in Seq(1 .. Len(s))
         /\ \A k \in 1 .. Len(p) : At(s, p)[k] = s[p[k]] /\ p[k] \in S /\ p[k] \in 1 .. Len(s)
         /\ \A j, k \in 1 .. Len(p) : p[j] = p[k] => j = k
<1>1. Len(s) \in Nat /\ Len(s) \in 0 .. Len(s)
  OBVIOUS
<1>2. Ascending(p, Len(s), S)
  BY <1>1, PositionsAre
<1>3. /\ p \in Seq(1 .. Len(s)) /\ At(s, p) \in Seq(T) /\ Len(At(s, p)) = Len(p)
      /\ \A k \in 1 .. Len(p) : At(s, p)[k] = s[p[k]]
  BY <1>1, AtIs
<1>4. Len(p) \in Nat
  BY <1>3
<1>5. \A k \in 1 .. Len(p) : p[k] \in Int
  BY <1>2 DEF Ascending
<1>6. \A j, k \in 1 .. Len(p) : p[j] = p[k] => j = k
  <2> TAKE j, k \in 1 .. Len(p)
  <2>1. j < k => p[j] < p[k]
    BY <1>2 DEF Ascending
  <2>2. k < j => p[k] < p[j]
    BY <1>2 DEF Ascending
  <2>3. j \in Int /\ k \in Int /\ p[j] \in Int /\ p[k] \in Int
    BY <1>4, <1>5
  <2> QED
    BY <2>1, <2>2, <2>3
<1> QED
  BY <1>2, <1>3, <1>4, <1>6 DEF Ascending

LEMMA Merged ==
  ASSUME NEW e, Sound(e), e.tickets # <<>>,
         NEW new \in Seq(Tickets), IsInjective(new), new # <<>>,
         NEW newMinutes \in Seq(Nat), newMinutes = Even \/ Len(newMinutes) = Len(new),
         NEW mins, mins = IF newMinutes = Even THEN EvenSplit(Len(new)) ELSE newMinutes,
         NEW m, m = MergeInto(e, new, newMinutes),
         m.minutes # Even => Sum(m.minutes) <= TotalWorkMinutes
  PROVE  /\ Sound(m)
         /\ Len(e.tickets) <= Len(m.tickets)
         /\ \A k \in 1 .. Len(e.tickets) : m.tickets[k] = e.tickets[k]
         /\ m.minutes # Even => \A k \in 1 .. Len(e.tickets) : m.minutes[k] = Minutes(e)[k]
         /\ AllPositive(Minutes(e))
              /\ AllPositive(mins)
              => AllPositive(m.minutes)
         /\ e.minutes = Even /\ newMinutes = Even => m.minutes = Even
<1> DEFINE S == {i \in DOMAIN new : new[i] \notin Range(e.tickets)}
           fresh == Positions(Len(new), S)
           tail == At(new, fresh)
           more == At(mins, fresh)
           held == Minutes(e)
           tickets == e.tickets \o tail
           minutes == held \o more
           n == Len(e.tickets)
<1>1. m = [tickets |-> tickets,
           minutes |-> IF e.minutes = Even /\ newMinutes = Even THEN Even ELSE minutes]
  BY DEF MergeInto
<1>2. mins \in Seq(Nat) /\ Len(mins) = Len(new)
  <2>1. Len(new) \in Nat \ {0}
    OBVIOUS
  <2>2. EvenSplit(Len(new)) \in Seq(Nat) /\ Len(EvenSplit(Len(new))) = Len(new)
    BY <2>1, EvenSplitIs
  <2> QED
    BY <2>2
<1>3. fresh = Positions(Len(new), S)
  OBVIOUS
<1>4. held \in Seq(Nat) /\ Len(held) = n
  BY MinutesAre
<1>5. e.tickets \in Seq(Tickets) /\ n \in Nat /\ DOMAIN e.tickets = 1 .. n /\ IsInjective(e.tickets)
  BY SoundIs DEF Sound
<1>6. \A i : i \in S => i \in 1 .. Len(new) /\ new[i] \notin Range(e.tickets)
  OBVIOUS
<1> HIDE DEF S, fresh, held
<1>7. /\ tail \in Seq(Tickets) /\ Len(tail) = Len(fresh) /\ Len(fresh) \in Nat
      /\ \A k \in 1 .. Len(fresh) : tail[k] = new[fresh[k]] /\ fresh[k] \in S
      /\ \A j, k \in 1 .. Len(fresh) : fresh[j] = fresh[k] => j = k
  BY <1>3, SomeOf
<1>8. /\ more \in Seq(Nat) /\ Len(more) = Len(fresh)
      /\ \A k \in 1 .. Len(fresh) : more[k] = mins[fresh[k]]
  <2>1. fresh = Positions(Len(mins), S)
    BY <1>2, <1>3
  <2> QED
    BY SMTT(40), <1>2, <2>1, SomeOf
<1> HIDE DEF tail, more
<1>9. tickets = e.tickets \o tail /\ minutes = held \o more
  OBVIOUS
<1> HIDE DEF tickets, minutes
<1>10. /\ tickets \in Seq(Tickets) /\ Joins(tickets, e.tickets, tail, n)
       /\ Len(tickets) = n + Len(fresh) /\ DOMAIN tickets = 1 .. Len(tickets)
       /\ \A k \in 1 .. n : tickets[k] = e.tickets[k]
       /\ \A k \in 1 .. Len(tickets) : k \notin 1 .. n =>
            k - n \in 1 .. Len(fresh) /\ tickets[k] = tail[k - n]
  <2>1. tickets \in Seq(Tickets) /\ Joins(tickets, e.tickets, tail, n)
    BY <1>5, <1>7, <1>9, JoinIs
  <2> QED
    BY <1>7, <2>1 DEF Joins
<1>11. /\ minutes \in Seq(Nat) /\ Len(minutes) = n + Len(fresh) /\ DOMAIN minutes = 1 .. Len(minutes)
       /\ \A k \in 1 .. n : minutes[k] = held[k]
       /\ \A k \in 1 .. Len(minutes) : k \notin 1 .. n =>
            k - n \in 1 .. Len(fresh) /\ minutes[k] = more[k - n]
  <2>1. minutes \in Seq(Nat) /\ Joins(minutes, held, more, Len(held))
    BY <1>4, <1>8, <1>9, JoinIs
  <2> QED
    BY <1>4, <1>8, <2>1 DEF Joins
<1> HIDE DEF n
<1>12. IsInjective(tickets)
  <2> SUFFICES ASSUME NEW i \in 1 .. Len(tickets), NEW j \in 1 .. Len(tickets),
                      tickets[i] = tickets[j]
               PROVE  i = j
    BY <1>10 DEF IsInjective
  <2>1. \A k \in 1 .. n : tickets[k] \in Range(e.tickets)
    BY <1>5, <1>10 DEF Range
  <2>2. \A k \in 1 .. Len(tickets) : k \notin 1 .. n =>
          /\ k - n \in 1 .. Len(fresh) /\ tickets[k] = new[fresh[k - n]] /\ fresh[k - n] \in 1 .. Len(new)
          /\ tickets[k] \notin Range(e.tickets)
    BY SMTT(40), <1>6, <1>7, <1>10
  <2>3. CASE i \in 1 .. n /\ j \in 1 .. n
    BY <1>5, <1>10, <2>3 DEF IsInjective
  <2>4. CASE i \notin 1 .. n /\ j \notin 1 .. n
    <3>1. /\ new[fresh[i - n]] = new[fresh[j - n]] /\ i - n \in 1 .. Len(fresh) /\ j - n \in 1 .. Len(fresh)
          /\ fresh[i - n] \in 1 .. Len(new) /\ fresh[j - n] \in 1 .. Len(new)
      BY <2>2, <2>4
    <3>2. fresh[i - n] = fresh[j - n]
      BY <3>1 DEF IsInjective
    <3>3. i - n = j - n
      BY <1>7, <3>1, <3>2
    <3> QED
      BY <1>5, <1>10, <3>3
  <2> QED
    BY <2>1, <2>2, <2>3, <2>4
<1>13. /\ m.tickets = tickets
       /\ m.minutes = Even \/ m.minutes = minutes
       /\ e.minutes = Even /\ newMinutes = Even => m.minutes = Even
       /\ m \in [tickets : Seq(Tickets), minutes : Seq(Nat)]
  BY <1>1, <1>10, <1>11, EvenIs
<1>14. Sound(m)
  BY <1>10, <1>11, <1>12, <1>13 DEF Sound
<1>15. ASSUME AllPositive(held), AllPositive(mins) PROVE AllPositive(minutes)
  <2> SUFFICES ASSUME NEW k \in 1 .. Len(minutes) PROVE minutes[k] > 0
    BY <1>11 DEF AllPositive
  <2>1. CASE k \in 1 .. n
    <3>1. DOMAIN held = 1 .. n
      BY <1>4
    <3> QED
      BY <1>11, <1>15, <2>1, <3>1 DEF AllPositive
  <2>2. CASE k \notin 1 .. n
    <3>1. k - n \in 1 .. Len(fresh) /\ minutes[k] = mins[fresh[k - n]] /\ fresh[k - n] \in 1 .. Len(new)
      BY <1>6, <1>7, <1>8, <1>11, <2>2
    <3>2. DOMAIN mins = 1 .. Len(new)
      BY <1>2
    <3> QED
      BY <1>15, <3>1, <3>2 DEF AllPositive
  <2> QED
    BY <2>1, <2>2
<1>16. AllPositive(held) /\ AllPositive(mins) => AllPositive(m.minutes)
  BY <1>13, <1>15, EvenIs
<1>17. n <= Len(m.tickets) /\ \A k \in 1 .. n : m.tickets[k] = e.tickets[k]
  BY <1>5, <1>7, <1>10, <1>13
<1>18. m.minutes # Even => \A k \in 1 .. n : m.minutes[k] = held[k]
  BY <1>11, <1>13
<1> QED
  BY <1>13, <1>14, <1>16, <1>17, <1>18 DEF held, n

LEMMA CutDown ==
  ASSUME NEW e, Sound(e), NEW drop, NEW w, w = Without(e, drop)
  PROVE  /\ Sound(w)
         /\ AllPositive(e.minutes) => AllPositive(w.minutes)
         /\ \A j \in 1 .. Len(w.tickets) : \E i \in 1 .. Len(e.tickets) :
              /\ w.tickets[j] = e.tickets[i]
              /\ w.minutes # Even => e.minutes # Even /\ w.minutes[j] = e.minutes[i]
<1> DEFINE S == {i \in DOMAIN e.tickets : e.tickets[i] \notin drop}
           keep == Positions(Len(e.tickets), S)
           tickets == At(e.tickets, keep)
           minutes == At(e.minutes, keep)
<1>1. w = [tickets |-> tickets, minutes |-> IF e.minutes = Even THEN Even ELSE minutes]
  BY DEF Without
<1>2. /\ e.tickets \in Seq(Tickets) /\ e.minutes \in Seq(Nat) /\ IsInjective(e.tickets)
      /\ DOMAIN e.tickets = 1 .. Len(e.tickets) /\ Len(e.tickets) \in Nat
      /\ e.minutes # Even => Len(e.minutes) = Len(e.tickets)
  BY SoundIs DEF Sound
<1>3. keep = Positions(Len(e.tickets), S)
  OBVIOUS
<1> HIDE DEF S, keep
<1>4. /\ tickets \in Seq(Tickets) /\ Len(tickets) = Len(keep) /\ Len(keep) \in Nat
      /\ \A k \in 1 .. Len(keep) : tickets[k] = e.tickets[keep[k]] /\ keep[k] \in 1 .. Len(e.tickets)
      /\ \A j, k \in 1 .. Len(keep) : keep[j] = keep[k] => j = k
  BY <1>2, <1>3, SomeOf
<1>5. e.minutes # Even =>
        /\ minutes \in Seq(Nat) /\ Len(minutes) = Len(keep)
        /\ \A k \in 1 .. Len(keep) : minutes[k] = e.minutes[keep[k]]
        /\ Sum(minutes) <= TotalWorkMinutes
  <2> SUFFICES ASSUME e.minutes # Even
               PROVE  /\ minutes \in Seq(Nat) /\ Len(minutes) = Len(keep)
                      /\ \A k \in 1 .. Len(keep) : minutes[k] = e.minutes[keep[k]]
                      /\ Sum(minutes) <= TotalWorkMinutes
    OBVIOUS
  <2>1. keep = Positions(Len(e.minutes), S) /\ Len(e.minutes) \in 0 .. Len(e.minutes)
    BY <1>2, <1>3
  <2>2. /\ minutes \in Seq(Nat) /\ Len(minutes) = Len(keep)
        /\ \A k \in 1 .. Len(keep) : minutes[k] = e.minutes[keep[k]]
    BY SMTT(40), <1>2, <2>1, SomeOf
  <2>3. Offset(minutes, Len(keep)) <= Offset(e.minutes, Len(e.minutes))
    BY <1>2, <2>1, SumOfSome
  <2>4. Offset(e.minutes, Len(e.minutes)) <= TotalWorkMinutes
    BY DEF Sound, Sum
  <2>5. Offset(minutes, Len(keep)) \in Nat /\ Offset(e.minutes, Len(e.minutes)) \in Nat
    BY <1>2, <1>4, <2>1, <2>2, OffsetIsNat
  <2>6. Offset(minutes, Len(keep)) <= TotalWorkMinutes
    <3> DEFINE a == Offset(minutes, Len(keep))
               b == Offset(e.minutes, Len(e.minutes))
    <3>1. a <= b /\ b <= 480 /\ a \in Nat /\ b \in Nat
      BY <2>3, <2>4, <2>5, FullDay
    <3> HIDE DEF a, b
    <3>2. a <= 480
      BY <3>1
    <3> QED
      BY <3>2, FullDay DEF a
  <2>7. Sum(minutes) <= TotalWorkMinutes
    BY <2>2, <2>6 DEF Sum
  <2> QED
    BY <2>2, <2>7
<1> HIDE DEF tickets, minutes
<1>6. /\ w.tickets = tickets /\ w \in [tickets : Seq(Tickets), minutes : Seq(Nat)]
      /\ w.minutes # Even => e.minutes # Even /\ w.minutes = minutes
      /\ w.minutes = Even \/ e.minutes # Even
  BY <1>1, <1>4, <1>5, EvenIs
<1>7. IsInjective(tickets)
  <2> SUFFICES ASSUME NEW i \in 1 .. Len(keep), NEW j \in 1 .. Len(keep), tickets[i] = tickets[j]
               PROVE  i = j
    BY <1>4 DEF IsInjective
  <2>1. e.tickets[keep[i]] = e.tickets[keep[j]] /\ keep[i] \in 1 .. Len(e.tickets) /\ keep[j] \in 1 .. Len(e.tickets)
    BY <1>4
  <2>2. keep[i] = keep[j]
    BY <1>2, <2>1 DEF IsInjective
  <2> QED
    BY <1>4, <2>2
<1>8. Sound(w)
  BY <1>4, <1>5, <1>6, <1>7 DEF Sound
<1>9. ASSUME AllPositive(e.minutes) PROVE AllPositive(w.minutes)
  <2>1. CASE w.minutes = Even
    BY <2>1, EvenIs
  <2>2. CASE w.minutes # Even
    <3>1. DOMAIN minutes = 1 .. Len(keep) /\ DOMAIN e.minutes = 1 .. Len(e.tickets)
      BY <1>2, <1>5, <1>6, <2>2
    <3>2. \A k \in 1 .. Len(keep) : minutes[k] = e.minutes[keep[k]] /\ keep[k] \in 1 .. Len(e.tickets)
      BY <1>4, <1>5, <1>6, <2>2
    <3>3. \A k \in DOMAIN minutes : minutes[k] > 0
      BY <1>9, <3>1, <3>2 DEF AllPositive
    <3> QED
      BY <1>6, <2>2, <3>3 DEF AllPositive
  <2> QED
    BY <2>1, <2>2
<1>10. ASSUME NEW j \in 1 .. Len(w.tickets)
       PROVE  \E i \in 1 .. Len(e.tickets) :
                /\ w.tickets[j] = e.tickets[i]
                /\ w.minutes # Even => e.minutes # Even /\ w.minutes[j] = e.minutes[i]
  <2>1. j \in 1 .. Len(keep) /\ keep[j] \in 1 .. Len(e.tickets) /\ tickets[j] = e.tickets[keep[j]]
    BY <1>4, <1>6
  <2>2. w.minutes # Even => e.minutes # Even /\ w.minutes[j] = e.minutes[keep[j]]
    BY <1>5, <1>6, <2>1
  <2> QED
    BY <1>6, <2>1, <2>2
<1> QED
  BY <1>8, <1>9, <1>10

-----------------------------------------------------------------------------
(* The composer. *)

BoxOk ==
  /\ box \in Seq(Tickets) /\ IsInjective(box)
  /\ typedMinutes \in Seq(Nat) /\ (typedMinutes = Even \/ Len(typedMinutes) = Len(box))

Inv == BoxOk /\ Sound(entry)

LEMMA TypedAre ==
  ASSUME BoxOk
  PROVE  /\ Len(box) \in Nat /\ DOMAIN box = 1 .. Len(box) /\ (box # <<>> => Len(box) \in Nat \ {0})
         /\ TypedMinutes \in Seq(Nat) /\ Len(TypedMinutes) = Len(box)
         /\ TypedMinutesFor \in Seq(Nat) /\ (TypedMinutesFor = Even \/ Len(TypedMinutesFor) = Len(box))
         /\ box # <<>> => TypedMinutes = IF TypedMinutesFor = Even THEN EvenSplit(Len(box)) ELSE TypedMinutesFor
<1>1. Len(box) \in Nat /\ DOMAIN box = 1 .. Len(box) /\ (box # <<>> => Len(box) \in Nat \ {0})
  BY DEF BoxOk
<1>2. CASE Len(typedMinutes) = Len(box)
  <2>1. TypedMinutes = typedMinutes /\ TypedMinutesFor = typedMinutes
    BY <1>2 DEF TypedMinutes, TypedMinutesFor
  <2>2. box # <<>> => typedMinutes # Even
    BY <1>1, <1>2, EvenIs
  <2> QED
    BY <1>1, <1>2, <2>1, <2>2 DEF BoxOk
<1>3. CASE Len(typedMinutes) # Len(box)
  <2>1. TypedMinutes = EvenSplit(Len(box)) /\ TypedMinutesFor = Even
    BY <1>3 DEF TypedMinutes, TypedMinutesFor
  <2>2. Len(box) \in Nat \ {0}
    BY <1>1, <1>3, EvenIs DEF BoxOk
  <2>3. EvenSplit(Len(box)) \in Seq(Nat) /\ Len(EvenSplit(Len(box))) = Len(box)
    BY <2>2, EvenSplitIs
  <2> QED
    BY <1>1, <2>1, <2>3, EvenIs
<1> QED
  BY <1>2, <1>3

(* What the queue button saves. *)
LEMMA QueuedIs ==
  ASSUME Inv, OnQueue
  PROVE  /\ Sound(entry')
         /\ \A k \in 1 .. Len(entry.tickets) :
              /\ k <= Len(entry'.tickets) /\ entry'.tickets[k] = entry.tickets[k]
              /\ Read(entry) = entry /\ entry'.minutes # Even => entry'.minutes[k] = Minutes(entry)[k]
         /\ Few => AllPositive(entry'.minutes)
<1> DEFINE current == Read(entry)
<1>1. /\ Sound(current) /\ current.tickets = entry.tickets /\ AllPositive(current.minutes)
  BY ReadIs DEF Inv
<1>2. /\ box # <<>> /\ HoursOk /\ DayMinutes(Projected) <= TotalWorkMinutes
      /\ entry' = Projected
  BY DEF OnQueue
<1>3. BoxOk /\ box \in Seq(Tickets) /\ IsInjective(box)
  BY DEF Inv, BoxOk
<1>4. /\ TypedMinutes \in Seq(Nat) /\ Len(TypedMinutes) = Len(box)
      /\ TypedMinutesFor \in Seq(Nat) /\ (TypedMinutesFor = Even \/ Len(TypedMinutesFor) = Len(box))
      /\ TypedMinutes = IF TypedMinutesFor = Even THEN EvenSplit(Len(box)) ELSE TypedMinutesFor
      /\ AllPositive(TypedMinutes)
  BY <1>2, <1>3, TypedAre DEF HoursOk
<1>5. entry'.minutes # Even => Sum(entry'.minutes) <= TotalWorkMinutes
  BY <1>2 DEF DayMinutes
<1>6. entry' = IF current.tickets = <<>>
                 THEN [tickets |-> box, minutes |-> TypedMinutesFor]
                 ELSE MergeInto(current, box, TypedMinutesFor)
  BY <1>2 DEF Projected
<1> HIDE DEF current
<1>7. CASE current.tickets = <<>>
  <2>1. entry' = [tickets |-> box, minutes |-> TypedMinutesFor]
    BY <1>6, <1>7
  <2>2. entry'.tickets = box /\ entry'.minutes = TypedMinutesFor
        /\ entry' \in [tickets : Seq(Tickets), minutes : Seq(Nat)]
    BY <1>3, <1>4, <2>1
  <2>3. AllPositive(TypedMinutesFor)
    BY <1>4, EvenIs
  <2>4. Len(entry.tickets) = 0 /\ 1 .. 0 = {}
    BY <1>1, <1>7
  <2>5. Sound(entry')
    BY <1>3, <1>4, <1>5, <2>2 DEF Sound
  <2> QED
    BY <2>2, <2>3, <2>4, <2>5
<1>8. CASE current.tickets # <<>>
  <2>1. entry' = MergeInto(current, box, TypedMinutesFor)
    BY <1>6, <1>8
  <2>2. /\ Sound(entry')
        /\ Len(current.tickets) <= Len(entry'.tickets)
        /\ \A k \in 1 .. Len(current.tickets) : entry'.tickets[k] = current.tickets[k]
        /\ entry'.minutes # Even => \A k \in 1 .. Len(current.tickets) : entry'.minutes[k] = Minutes(current)[k]
        /\ AllPositive(Minutes(current)) /\ AllPositive(TypedMinutes) => AllPositive(entry'.minutes)
    BY SMTT(40), <1>1, <1>2, <1>3, <1>4, <1>5, <1>8, <2>1, Merged
  <2>3. Few => AllPositive(entry'.minutes)
    BY <1>1, <1>4, <1>8, <2>2, MinutesArePositive
  <2>4. \A k \in 1 .. Len(entry.tickets) :
          k <= Len(entry'.tickets) /\ entry'.tickets[k] = entry.tickets[k]
    <3>1. Len(current.tickets) \in Nat /\ Len(entry'.tickets) \in Nat
      BY <1>1, <2>2, SoundIs
    <3> QED
      BY <1>1, <2>2, <3>1
  <2>5. ASSUME current = entry, entry'.minutes # Even, NEW k \in 1 .. Len(entry.tickets)
        PROVE  entry'.minutes[k] = Minutes(entry)[k]
    BY <2>2, <2>5
  <2> QED
    BY <2>2, <2>3, <2>4, <2>5 DEF current
<1> QED
  BY <1>7, <1>8

LEMMA StartedIs ==
  ASSUME Inv, NEW t \in Tickets, AddStartedTicket(t)
  PROVE  Sound(entry') /\ entry'.minutes = Even
<1> DEFINE current == Read(entry)
           new == <<t>>
<1>1. Sound(current) /\ current.minutes = Even
  BY ReadIs DEF Inv, AddStartedTicket
<1>2. entry' = IF current.tickets = <<>>
                 THEN [tickets |-> new, minutes |-> Even] ELSE MergeInto(current, new, Even)
  BY DEF AddStartedTicket
<1>3. new \in Seq(Tickets) /\ new # <<>> /\ IsInjective(new)
  BY DEF IsInjective
<1> HIDE DEF current, new
<1>4. CASE current.tickets = <<>>
  <2>1. entry' = [tickets |-> new, minutes |-> Even]
    BY <1>2, <1>4
  <2>2. entry'.tickets = new /\ entry'.minutes = Even
        /\ entry' \in [tickets : Seq(Tickets), minutes : Seq(Nat)]
    BY <1>3, <2>1, EvenIs
  <2> QED
    BY <1>3, <2>2 DEF Sound
<1>5. CASE current.tickets # <<>>
  <2>1. entry' = MergeInto(current, new, Even)
    BY <1>2, <1>5
  <2>2. entry'.minutes = Even
    BY <1>1, <2>1 DEF MergeInto
  <2> QED
    BY <1>1, <1>3, <1>5, <2>1, <2>2, EvenIs, Merged
<1> QED
  BY <1>4, <1>5

LEMMA InitInv == Init => Inv /\ AllPositive(entry.minutes)
<1>1. <<>> \in Seq(Tickets) /\ IsInjective(<<>>)
  BY DEF IsInjective
<1> QED
  BY <1>1, EmptyIsSound, EvenIs DEF Init, Inv, BoxOk

LEMMA BoxStep ==
  ASSUME Inv, [Next]_vars
  PROVE  BoxOk'
<1>1. ASSUME NEW s \in Typed, TypeTickets(s) PROVE BoxOk'
  <2>1. MaxTyped \in Nat /\ s \in SeqOf(Tickets, MaxTyped) /\ IsInjective(s)
    BY DayEntryAssumption DEF Typed
  <2>2. s \in Seq(Tickets)
    BY <2>1 DEF SeqOf
  <2> QED
    BY <1>1, <2>1, <2>2, EvenIs DEF TypeTickets, BoxOk
<1>2. ASSUME NEW i \in 1 .. MaxTyped, NEW m \in HoursChoices, OnHoursChanged(i, m) PROVE BoxOk'
  <2> DEFINE t == TypedMinutes
  <2>1. t \in Seq(Nat) /\ Len(t) = Len(box) /\ m \in Nat
    BY TypedAre, DayEntryAssumption DEF Inv
  <2>2. typedMinutes' = [t EXCEPT ![i] = m] /\ box' = box
    BY <1>2 DEF OnHoursChanged
  <2> HIDE DEF t
  <2>3. typedMinutes' \in Seq(Nat) /\ Len(typedMinutes') = Len(box)
    <3>1. Len(t) \in Nat /\ t \in [1 .. Len(t) -> Nat]
      BY <2>1
    <3>2. typedMinutes' \in [1 .. Len(t) -> Nat]
      BY <2>1, <2>2, <3>1
    <3> QED
      BY SMTT(40), <2>1, <3>1, <3>2
  <2> QED
    BY <2>2, <2>3 DEF Inv, BoxOk
<1>3. CASE OnQueue
  <2>1. <<>> \in Seq(Tickets) /\ IsInjective(<<>>)
    BY DEF IsInjective
  <2> QED
    BY <1>3, <2>1, EvenIs DEF OnQueue, BoxOk
<1>4. CASE UNCHANGED <<box, typedMinutes>>
  BY <1>4 DEF Inv, BoxOk
<1> QED
  BY <1>1, <1>2, <1>3, <1>4 DEF Next, AddStartedTicket, RemoveLogged, OnClearQueue, vars

(* One step of the entry: it stays sound, and so it stays readable.        *)
LEMMA EntryStep ==
  ASSUME Inv, [Next]_vars
  PROVE  Sound(entry') /\ (Few /\ AllPositive(entry.minutes) => AllPositive(entry'.minutes))
<1>1. CASE OnQueue
  BY <1>1, QueuedIs
<1>2. ASSUME NEW t \in Tickets, AddStartedTicket(t)
      PROVE  Sound(entry') /\ AllPositive(entry'.minutes)
  BY <1>2, StartedIs, EvenIs
<1>3. ASSUME NEW drop \in SUBSET Tickets, RemoveLogged(drop)
      PROVE  Sound(entry') /\ AllPositive(entry'.minutes)
  <2>1. Sound(Read(entry)) /\ AllPositive(Read(entry).minutes)
    BY ReadIs DEF Inv
  <2>2. entry' = Without(Read(entry), drop)
    BY <1>3 DEF RemoveLogged
  <2> QED
    BY <2>1, <2>2, CutDown
<1>4. CASE OnClearQueue
  BY <1>4, EmptyIsSound DEF OnClearQueue
<1>5. CASE UNCHANGED entry
  BY <1>5 DEF Inv
<1> QED
  BY <1>1, <1>2, <1>3, <1>4, <1>5 DEF Next, TypeTickets, OnHoursChanged, vars

LEMMA InvStep == Inv /\ [Next]_vars => Inv'
  BY BoxStep, EntryStep DEF Inv, Sound

LEMMA InvHolds == Spec => []Inv
  BY InitInv, InvStep, PTL DEF Spec

LEMMA Readable ==
  ASSUME Few
  PROVE  Spec => [](Inv /\ AllPositive(entry.minutes))
<1>1. Inv /\ AllPositive(entry.minutes) /\ [Next]_vars => (Inv /\ AllPositive(entry.minutes))'
  BY InvStep, EntryStep DEF AllPositive
<1> QED
  BY InitInv, <1>1, PTL DEF Spec

-----------------------------------------------------------------------------
(* What is saved is what the next read makes of it, for any tickets typed, *)
(* hours edited and tickets started, taken out or logged, as long as there *)
(* are no more tickets than minutes.                                       *)
THEOREM SavedIsRead ==
  ASSUME Few
  PROVE  Spec => []ReadsBack
<1>1. Inv /\ AllPositive(entry.minutes) => ReadsBack
  BY ReadIs DEF Inv, ReadsBack, Sound
<1> QED
  BY <1>1, Readable, PTL

(* A ticket keeps its minutes while others come and go, whatever turns an  *)
(* even day into a custom one.                                             *)
THEOREM HoursStay ==
  ASSUME Few
  PROVE  Spec => HoursStick
<1> DEFINE Kept == \A i \in DOMAIN entry.tickets, j \in DOMAIN entry'.tickets :
                     entry.tickets[i] = entry'.tickets[j] /\ entry'.minutes # Even
                       => Minutes(entry')[j] = Minutes(entry)[i]
<1>1. Inv /\ AllPositive(entry.minutes) /\ [Next]_vars => [Kept]_vars
  <2> SUFFICES ASSUME Inv, AllPositive(entry.minutes), Next,
                      NEW i \in DOMAIN entry.tickets, NEW j \in DOMAIN entry'.tickets,
                      entry.tickets[i] = entry'.tickets[j], entry'.minutes # Even
               PROVE  Minutes(entry')[j] = Minutes(entry)[i]
    OBVIOUS
  <2>1. Sound(entry) /\ Sound(entry') /\ Read(entry) = entry
    BY EntryStep, ReadIs DEF Inv
  <2>2. /\ DOMAIN entry.tickets = 1 .. Len(entry.tickets) /\ IsInjective(entry.tickets)
        /\ DOMAIN entry'.tickets = 1 .. Len(entry'.tickets) /\ IsInjective(entry'.tickets)
    BY <2>1, SoundIs DEF Sound
  <2>3. Minutes(entry') = entry'.minutes
    BY DEF Minutes
  <2>4. CASE UNCHANGED entry
    BY <2>2, <2>4 DEF IsInjective
  <2>5. CASE OnQueue
    <3>1. /\ i <= Len(entry'.tickets) /\ entry'.tickets[i] = entry.tickets[i]
          /\ entry'.minutes[i] = Minutes(entry)[i]
      BY <2>1, <2>2, <2>5, QueuedIs
    <3>2. i \in 1 .. Len(entry'.tickets)
      BY <2>1, <2>2, <3>1, SoundIs
    <3>3. i = j
      BY <2>2, <3>1, <3>2 DEF IsInjective
    <3> QED
      BY <2>3, <3>1, <3>3
  <2>6. ASSUME NEW t \in Tickets, AddStartedTicket(t) PROVE FALSE
    BY <2>6, StartedIs
  <2>7. ASSUME NEW drop \in SUBSET Tickets, RemoveLogged(drop)
        PROVE  Minutes(entry')[j] = Minutes(entry)[i]
    <3>1. entry' = Without(entry, drop)
      BY <2>1, <2>7 DEF RemoveLogged
    <3>2. PICK k \in 1 .. Len(entry.tickets) :
            entry'.tickets[j] = entry.tickets[k] /\ entry.minutes # Even /\ entry'.minutes[j] = entry.minutes[k]
      BY <2>1, <2>2, <3>1, CutDown
    <3>3. k = i
      BY <2>2, <3>2 DEF IsInjective
    <3> QED
      BY <2>3, <3>2, <3>3 DEF Minutes
  <2>8. CASE OnClearQueue
    BY <2>8 DEF OnClearQueue, NoEntry
  <2> QED
    BY <2>4, <2>5, <2>6, <2>7, <2>8 DEF Next, TypeTickets, OnHoursChanged
<1> QED
  BY <1>1, Readable, PTL DEF Spec, HoursStick

-----------------------------------------------------------------------------
(* The day's slots. *)

LEMMA DaySlots ==
  ASSUME NEW m \in Seq(Nat), Offset(m, Len(m)) <= TotalWorkMinutes,
         NEW i \in 1 .. Len(m), NEW k \in DOMAIN Get(m, i)
  PROVE  /\ InWorkday(Get(m, i)[k]) /\ ClearOfLunch(Get(m, i)[k])
         /\ \A j \in 1 .. Len(m) : \A l \in DOMAIN Get(m, j) :
              i < j \/ (i = j /\ k < l) => Get(m, i)[k].end <= Get(m, j)[l].start
<1> DEFINE a(x) == Offset(m, x - 1)
           b(x) == Offset(m, x)
<1>1. \A x \in 1 .. Len(m) :
        /\ a(x) \in Window /\ b(x) \in a(x) .. TotalWorkMinutes
        /\ \A y \in 1 .. Len(m) : x < y => b(x) <= a(y)
        /\ Get(m, x) = SegmentsFor(a(x), b(x))
  BY WindowsOf DEF Get
<1> HIDE DEF a, b
<1>2. InWorkday(Get(m, i)[k]) /\ ClearOfLunch(Get(m, i)[k])
  <2>1. k \in DOMAIN SegmentsFor(a(i), b(i))
    BY <1>1
  <2> QED
    BY <1>1, <2>1, SlotsKeepToWorkingHours
<1>3. ASSUME NEW j \in 1 .. Len(m), NEW l \in DOMAIN Get(m, j), i < j
      PROVE  Get(m, i)[k].end <= Get(m, j)[l].start
  <2>1. /\ a(i) \in Window /\ b(i) \in a(i) .. TotalWorkMinutes
        /\ a(j) \in Window /\ b(j) \in a(j) .. TotalWorkMinutes /\ b(i) <= a(j)
        /\ k \in DOMAIN SegmentsFor(a(i), b(i)) /\ l \in DOMAIN SegmentsFor(a(j), b(j))
    BY <1>1, <1>3
  <2>2. a(j) \in b(i) .. TotalWorkMinutes
    <3> DEFINE u == a(i)
               v == b(i)
               w == a(j)
    <3>1. u \in 0 .. 480 /\ v \in u .. 480 /\ w \in 0 .. 480 /\ v <= w
      BY <2>1, FullDay DEF Window
    <3> HIDE DEF u, v, w
    <3>2. w \in v .. 480
      BY <3>1
    <3> QED
      BY <3>2, FullDay DEF v, w
  <2>3. SegmentsFor(a(i), b(i))[k].end <= SegmentsFor(a(j), b(j))[l].start
    BY <2>1, <2>2, LaterSlotsFollow
  <2> QED
    BY <1>1, <2>3
<1>4. ASSUME NEW l \in DOMAIN Get(m, i), k < l
      PROVE  Get(m, i)[k].end <= Get(m, i)[l].start
  <2>1. /\ a(i) \in Window /\ b(i) \in a(i) .. TotalWorkMinutes
        /\ k \in DOMAIN SegmentsFor(a(i), b(i)) /\ l \in DOMAIN SegmentsFor(a(i), b(i))
    BY <1>1
  <2>2. SegmentsFor(a(i), b(i))[k].end <= SegmentsFor(a(i), b(i))[l].start
    BY <1>4, <2>1, OneWindow
  <2> QED
    BY <1>1, <2>2
<1> QED
  BY <1>2, <1>3, <1>4

(* The whole day's slots follow one another within the working hours, for  *)
(* any entry the composer, Start and the drain can make: no HRM call of    *)
(* the day overlaps another, and an even day ends at 18:00.                *)
THEOREM SlotsStayInOrder == Spec => []SlotsInOrder
<1>1. Inv => SlotsInOrder
  <2> SUFFICES ASSUME Sound(entry) PROVE SlotsInOrder
    BY DEF Inv
  <2> DEFINE m == Minutes(entry)
             n == Len(entry.tickets)
             slots == [i \in DOMAIN entry.tickets |-> Get(m, i)]
  <2>1. DOMAIN entry.tickets = 1 .. n /\ n \in Nat
    BY SoundIs
  <2>2. CASE entry.tickets = <<>>
    <3>1. slots = <<>> /\ DOMAIN slots = {}
      <4>1. DOMAIN entry.tickets = {} /\ <<>> = [i \in {} |-> Get(m, i)]
        BY <2>2
      <4> QED
        BY <4>1
    <3> HIDE DEF slots
    <3> QED
      BY <3>1 DEF SlotsInOrder, slots, m
  <2>3. CASE entry.tickets # <<>>
    <3>1. m \in Seq(Nat) /\ Len(m) = n /\ Offset(m, Len(m)) <= TotalWorkMinutes
          /\ (entry.minutes = Even => Offset(m, n) = TotalWorkMinutes) /\ n \in Nat \ {0}
      BY <2>3, MinutesAre, SoundIs
    <3> HIDE DEF m
    <3>2. /\ DOMAIN slots = 1 .. n
          /\ \A i \in 1 .. n : slots[i] = Get(m, i)
      BY <2>1
    <3>3. \A i \in DOMAIN slots : \A k \in DOMAIN slots[i] :
            /\ InWorkday(slots[i][k]) /\ ClearOfLunch(slots[i][k])
            /\ \A j \in DOMAIN slots : \A l \in DOMAIN slots[j] :
                 i < j \/ (i = j /\ k < l) => slots[i][k].end <= slots[j][l].start
      <4> HIDE DEF slots
      <4> SUFFICES ASSUME NEW i \in 1 .. n, NEW k \in DOMAIN Get(m, i)
                   PROVE  /\ InWorkday(Get(m, i)[k]) /\ ClearOfLunch(Get(m, i)[k])
                          /\ \A j \in 1 .. n : \A l \in DOMAIN Get(m, j) :
                               i < j \/ (i = j /\ k < l) => Get(m, i)[k].end <= Get(m, j)[l].start
        BY <3>2
      <4> QED
        BY <3>1, DaySlots
    <3>4. ASSUME entry.minutes = Even PROVE Last(Last(slots)).end = AfternoonEnd
      <4>1. Len(slots) = n
        BY <2>1
      <4>2. Last(slots) = Get(m, n)
        BY <3>1, <3>2, <4>1 DEF Last
      <4>3. Offset(m, n - 1) \in Window /\ n \in 1 .. Len(m)
        <5>1. n \in 1 .. Len(m)
          BY <3>1
        <5> QED
          BY <3>1, <5>1, WindowsOf
      <4>4. Get(m, n) = SegmentsFor(Offset(m, n - 1), TotalWorkMinutes)
        BY <3>1, <3>4 DEF Get
      <4> QED
        BY <4>2, <4>3, <4>4, EndsTheDay DEF Last
    <3> QED
      BY <3>3, <3>4 DEF SlotsInOrder, m
  <2> QED
    BY <2>2, <2>3
<1> QED
  BY <1>1, InvHolds, PTL

-----------------------------------------------------------------------------
(* How long the slots are. *)

LEMMA OnGrid ==
  ASSUME NEW m \in Seq(Nat), \A i \in 1 .. Len(m) : m[i] % 5 = 0
  PROVE  \A n \in 0 .. Len(m) : Offset(m, n) % 5 = 0
<1> DEFINE G == {n \in Nat : n <= Len(m) => Offset(m, n) % 5 = 0}
<1>1. 0 \in G
  <2>1. Offset(m, 0) = 0
    BY OffsetStep
  <2> QED
    BY <2>1
<1>2. ASSUME NEW n \in G PROVE n + 1 \in G
  <2> SUFFICES ASSUME n + 1 <= Len(m) PROVE Offset(m, n + 1) % 5 = 0
    OBVIOUS
  <2> DEFINE o == Offset(m, n)
             x == m[n + 1]
  <2>1. n \in Nat /\ n \in 0 .. Len(m) /\ n + 1 \in 1 .. Len(m) /\ o % 5 = 0
    OBVIOUS
  <2>2. o \in Nat /\ x \in Nat /\ x % 5 = 0
    BY <2>1, OffsetIsNat
  <2>3. Offset(m, n + 1) = o + x
    BY <2>1, OffsetStep
  <2> HIDE DEF o, x
  <2>4. (o + x) % 5 = 0
    BY <2>1, <2>2
  <2> QED
    BY <2>3, <2>4
<1> HIDE DEF G
<1>3. G = Nat
  <2>1. G \subseteq Nat
    BY DEF G
  <2> QED
    BY <1>1, <1>2, <2>1, UpFromZero
<1> QED
  BY <1>3 DEF G

LEMMA BookedSlots ==
  ASSUME NEW x, Length(x) \in Int, NEW y, Length(y) \in Int
  PROVE  Booked(<<x>>) = Length(x) /\ Booked(<<x, y>>) = Length(x) + Length(y)
<1>1. ASSUME NEW s, NEW f, f = [k \in DOMAIN s |-> Length(s[k])]
      PROVE  Booked(s) = Offset(f, Len(s))
  BY <1>1 DEF Booked
<1>2. Booked(<<x>>) = Length(x)
  <2> DEFINE f == [k \in DOMAIN <<x>> |-> Length(<<x>>[k])]
  <2>1. f[1] = Length(x) /\ Len(<<x>>) = 1 /\ Booked(<<x>>) = Offset(f, 1)
    BY DEF Booked
  <2> HIDE DEF f
  <2>2. Offset(f, 0) = 0 /\ Offset(f, 0 + 1) = Offset(f, 0) + f[0 + 1]
    BY OffsetStep
  <2> QED
    BY <2>1, <2>2
<1>3. Booked(<<x, y>>) = Length(x) + Length(y)
  <2> DEFINE f == [k \in DOMAIN <<x, y>> |-> Length(<<x, y>>[k])]
  <2>1. f[1] = Length(x) /\ f[2] = Length(y) /\ Booked(<<x, y>>) = Offset(f, 2)
    BY DEF Booked
  <2> HIDE DEF f
  <2>2. /\ Offset(f, 0) = 0 /\ Offset(f, 0 + 1) = Offset(f, 0) + f[0 + 1]
        /\ Offset(f, 1 + 1) = Offset(f, 1) + f[1 + 1]
    BY OffsetStep
  <2> QED
    BY <2>1, <2>2
<1> QED
  BY <1>2, <1>3

LEMMA BookedIs ==
  ASSUME NEW a \in Window, NEW b \in a .. TotalWorkMinutes
  PROVE  LET g == SegmentsFor(a, b)
         IN  /\ Booked(g) - (b - a) \in -4 .. 4
             /\ a % 5 = 0 /\ b % 5 = 0 => Booked(g) - (b - a) = 0
             /\ a % 5 = 0 /\ b % 5 = 0 /\ a < b => \A k \in DOMAIN g : Length(g[k]) > 0
<1> DEFINE g == SegmentsFor(a, b)
<1>1. a \in 0 .. 480 /\ b \in 0 .. 480 /\ a <= b
  BY FullDay DEF Window
<1>2. RoundTo5(720) = 720 /\ RoundTo5(780) = 780
  BY DEF RoundTo5
<1>3. ASSUME NEW c \in {540, 600}, NEW d \in {a, b}
      PROVE  /\ RoundTo5(c + d) \in Int /\ RoundTo5(c + d) - (c + d) \in -2 .. 2
             /\ d % 5 = 0 => RoundTo5(c + d) = c + d
  <2>1. c + d \in Nat /\ (d % 5 = 0 => (c + d) % 5 = 0)
    BY <1>1
  <2> QED
    BY <2>1, Rounding
<1>4. ASSUME NEW c \in {540, 600}, g = << Slot(c + a, c + b) >>
      PROVE  /\ Booked(g) - (b - a) \in -4 .. 4
             /\ a % 5 = 0 /\ b % 5 = 0 => Booked(g) - (b - a) = 0
             /\ a % 5 = 0 /\ b % 5 = 0 /\ a < b => \A k \in DOMAIN g : Length(g[k]) > 0
  <2> DEFINE x == Slot(c + a, c + b)
             s == RoundTo5(c + a)
             t == RoundTo5(c + b)
  <2>1. Length(x) = t - s
    BY DEF Slot, Length
  <2>2. /\ s \in Int /\ s - (c + a) \in -2 .. 2 /\ (a % 5 = 0 => s = c + a)
        /\ t \in Int /\ t - (c + b) \in -2 .. 2 /\ (b % 5 = 0 => t = c + b)
    BY <1>3
  <2> HIDE DEF x, s, t
  <2>3. Booked(g) = t - s
    <3>1. g = <<x>>
      BY <1>4 DEF x
    <3>2. Length(x) \in Int
      BY <2>1, <2>2
    <3>3. Booked(<<x>>) = Length(x)
      BY <3>2, BookedSlots
    <3> QED
      BY <2>1, <3>1, <3>3
  <2>4. \A k \in DOMAIN g : g[k] = x
    BY <1>4 DEF x
  <2> QED
    BY <1>1, <2>1, <2>2, <2>3, <2>4
<1>5. ASSUME a < 180, b > 180, g = << Slot(540 + a, 720), Slot(780, 600 + b) >>
      PROVE  /\ Booked(g) - (b - a) \in -4 .. 4
             /\ a % 5 = 0 /\ b % 5 = 0 => Booked(g) - (b - a) = 0
             /\ a % 5 = 0 /\ b % 5 = 0 /\ a < b => \A k \in DOMAIN g : Length(g[k]) > 0
  <2> DEFINE x == Slot(540 + a, 720)
             y == Slot(780, 600 + b)
             s == RoundTo5(540 + a)
             t == RoundTo5(600 + b)
  <2>1. Length(x) = 720 - s /\ Length(y) = t - 780
    BY <1>2 DEF Slot, Length
  <2>2. /\ s \in Int /\ s - (540 + a) \in -2 .. 2 /\ (a % 5 = 0 => s = 540 + a)
        /\ t \in Int /\ t - (600 + b) \in -2 .. 2 /\ (b % 5 = 0 => t = 600 + b)
    BY <1>3
  <2> HIDE DEF x, y, s, t
  <2>3. Booked(g) = (720 - s) + (t - 780)
    <3>1. g = <<x, y>>
      BY <1>5 DEF x, y
    <3>2. Length(x) \in Int /\ Length(y) \in Int
      BY <2>1, <2>2
    <3>3. Booked(<<x, y>>) = Length(x) + Length(y)
      BY <3>2, BookedSlots
    <3> QED
      BY <2>1, <3>1, <3>3
  <2>4. \A k \in DOMAIN g : g[k] = x \/ g[k] = y
    BY <1>5 DEF x, y
  <2>5. a % 5 = 0 /\ b % 5 = 0 => Length(x) > 0 /\ Length(y) > 0
    BY <1>1, <1>5, <2>1, <2>2
  <2> QED
    BY <1>1, <2>2, <2>3, <2>4, <2>5
<1> QED
  BY Shapes, <1>4, <1>5

(* A ticket is booked for its hours: to the minute on the five-minute      *)
(* grid, and with no empty slot there; within four minutes off the grid.   *)
THEOREM BookedForItsHours ==
  ASSUME Few
  PROVE  Spec => []BookedAsTyped
<1>1. Inv /\ AllPositive(entry.minutes) => BookedAsTyped
  <2> SUFFICES ASSUME Sound(entry), AllPositive(entry.minutes) PROVE BookedAsTyped
    BY DEF Inv
  <2> DEFINE m == Minutes(entry)
             grid == \A i \in DOMAIN entry.tickets : m[i] % 5 = 0
  <2> SUFFICES ASSUME NEW i \in DOMAIN entry.tickets
               PROVE  /\ Booked(Get(m, i)) - m[i] \in IF grid THEN {0} ELSE -4 .. 4
                      /\ grid => \A k \in DOMAIN Get(m, i) : Length(Get(m, i)[k]) > 0
    BY DEF BookedAsTyped
  <2>1. DOMAIN entry.tickets = 1 .. Len(entry.tickets) /\ entry.tickets # <<>>
    BY SoundIs
  <2>2. /\ m \in Seq(Nat) /\ Len(m) = Len(entry.tickets) /\ Offset(m, Len(m)) <= TotalWorkMinutes
        /\ AllPositive(m)
    BY <2>1, MinutesAre, MinutesArePositive
  <2> HIDE DEF m
  <2> DEFINE a == Offset(m, i - 1)
             b == Offset(m, i)
             x == m[i]
  <2>3. i \in 1 .. Len(m) /\ i - 1 \in 0 .. Len(m) /\ i \in 0 .. Len(m) /\ i - 1 \in Nat /\ (i - 1) + 1 = i
    BY <2>1, <2>2
  <2>4. a \in Window /\ b \in a .. TotalWorkMinutes /\ Get(m, i) = SegmentsFor(a, b)
    BY <2>2, <2>3, WindowsOf DEF Get
  <2>5. x \in Nat /\ x > 0
    BY <2>2, <2>3 DEF AllPositive
  <2>6. b = a + x
    BY <2>3, OffsetStep
  <2>7. grid => a % 5 = 0 /\ b % 5 = 0
    BY <2>1, <2>2, <2>3, OnGrid
  <2> HIDE DEF a, b, x, grid
  <2>8. a \in Int /\ b \in Int /\ b - a = x /\ a < b
    BY <2>4, <2>5, <2>6, FullDay DEF Window
  <2>9. LET g == Get(m, i)
        IN  /\ Booked(g) - x \in -4 .. 4
            /\ grid => Booked(g) - x = 0 /\ \A k \in DOMAIN g : Length(g[k]) > 0
    BY <2>4, <2>7, <2>8, BookedIs
  <2> QED
    BY <2>9 DEF x
<1> QED
  BY <1>1, Readable, PTL
=============================================================================
