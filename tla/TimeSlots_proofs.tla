--------------------------- MODULE TimeSlots_proofs ---------------------------
(***************************************************************************)
(* What SegmentsFor makes of any window of work minutes, and of any two    *)
(* windows one after the other; and what Positions and Offset come to,     *)
(* which are recursive functions.  That such a function exists, and what   *)
(* it is at each argument, is shown by induction over a set of numbers     *)
(* (UpFromZero), which follows from the naturals being well-founded.       *)
(* DayEntry_proofs and WorkLog_proofs build on these lemmas.               *)
(***************************************************************************)
EXTENDS TimeSlots, TicketLists, WellFoundedInduction, TLAPS

Window == 0 .. TotalWorkMinutes

(* Rounding keeps the order, moves a time by two minutes at most, and      *)
(* leaves a multiple of five alone.                                        *)
LEMMA Rounding ==
  ASSUME NEW x \in Nat, NEW y \in Nat
  PROVE  /\ RoundTo5(x) \in Int
         /\ RoundTo5(x) - x \in -2 .. 2
         /\ x % 5 = 0 => RoundTo5(x) = x
         /\ x <= y => RoundTo5(x) <= RoundTo5(y)
<1>1. ASSUME NEW z \in Nat
      PROVE  /\ (z + 2) \div 5 \in Int
             /\ 5 * ((z + 2) \div 5) <= z + 2
             /\ z + 2 < 5 * ((z + 2) \div 5) + 5
  OBVIOUS
<1>2. RoundTo5(x) \in Int /\ RoundTo5(x) - x \in -2 .. 2
  BY <1>1 DEF RoundTo5
<1>3. x % 5 = 0 => RoundTo5(x) = x
  BY <1>1 DEF RoundTo5
<1>4. x <= y => RoundTo5(x) <= RoundTo5(y)
  BY <1>1 DEF RoundTo5
<1> QED
  BY <1>2, <1>3, <1>4

(* The three shapes of a window, with the clock times left unrounded. *)
LEMMA Shapes ==
  ASSUME NEW a \in Window, NEW b \in a .. TotalWorkMinutes
  PROVE  \/ /\ b <= 180
            /\ SegmentsFor(a, b) = << Slot(540 + a, 540 + b) >>
         \/ /\ b > 180 /\ a >= 180
            /\ SegmentsFor(a, b) = << Slot(600 + a, 600 + b) >>
         \/ /\ b > 180 /\ a < 180
            /\ SegmentsFor(a, b) = << Slot(540 + a, 720), Slot(780, 600 + b) >>
<1>1. a \in Int /\ b \in Int
  BY DEF Window, TotalWorkMinutes, MorningMinutes, MorningStart, MorningEnd,
         AfternoonStart, AfternoonEnd
<1>2. 780 + (a - 180) = 600 + a /\ 780 + (b - 180) = 600 + b
  BY <1>1
<1> QED
  BY <1>1, <1>2 DEF SegmentsFor, MorningMinutes, MorningStart, MorningEnd, AfternoonStart

(* No slot leaves the working day or touches lunch. *)
THEOREM SlotsKeepToWorkingHours ==
  ASSUME NEW a \in Window, NEW b \in a .. TotalWorkMinutes,
         NEW k \in DOMAIN SegmentsFor(a, b)
  PROVE  InWorkday(SegmentsFor(a, b)[k]) /\ ClearOfLunch(SegmentsFor(a, b)[k])
<1> DEFINE s == SegmentsFor(a, b)
<1>1. /\ a \in 0 .. 480 /\ b \in 0 .. 480 /\ a <= b
  BY DEF Window, TotalWorkMinutes, MorningMinutes, MorningStart, MorningEnd,
         AfternoonStart, AfternoonEnd
<1>2. RoundTo5(540) = 540 /\ RoundTo5(720) = 720 /\ RoundTo5(780) = 780 /\ RoundTo5(1080) = 1080
  BY DEF RoundTo5
<1> USE DEF InWorkday, ClearOfLunch, Slot, MorningStart, MorningEnd, AfternoonStart, AfternoonEnd
<1>3. CASE b <= 180 /\ s = << Slot(540 + a, 540 + b) >>
  <2>1. /\ RoundTo5(540) <= RoundTo5(540 + a) /\ RoundTo5(540 + a) <= RoundTo5(540 + b)
        /\ RoundTo5(540 + b) <= RoundTo5(720)
        /\ RoundTo5(540 + a) \in Int /\ RoundTo5(540 + b) \in Int
    BY <1>1, <1>3, Rounding
  <2> QED
    BY <1>2, <1>3, <2>1
<1>4. CASE b > 180 /\ a >= 180 /\ s = << Slot(600 + a, 600 + b) >>
  <2>1. /\ RoundTo5(780) <= RoundTo5(600 + a) /\ RoundTo5(600 + a) <= RoundTo5(600 + b)
        /\ RoundTo5(600 + b) <= RoundTo5(1080)
        /\ RoundTo5(600 + a) \in Int /\ RoundTo5(600 + b) \in Int
    BY <1>1, <1>4, Rounding
  <2> QED
    BY <1>2, <1>4, <2>1
<1>5. CASE b > 180 /\ a < 180 /\ s = << Slot(540 + a, 720), Slot(780, 600 + b) >>
  <2>1. /\ RoundTo5(540) <= RoundTo5(540 + a) /\ RoundTo5(540 + a) <= RoundTo5(720)
        /\ RoundTo5(780) <= RoundTo5(600 + b) /\ RoundTo5(600 + b) <= RoundTo5(1080)
        /\ RoundTo5(540 + a) \in Int /\ RoundTo5(600 + b) \in Int
    BY <1>1, <1>5, Rounding
  <2>2. k \in {1, 2}
    BY <1>5
  <2> QED
    BY <1>2, <1>5, <2>1, <2>2
<1> QED
  BY Shapes, <1>3, <1>4, <1>5

(* A later window never starts before an earlier one has ended: rounding   *)
(* makes no two tickets overlap, so HRM has no reason to refuse the second.*)
THEOREM LaterSlotsFollow ==
  ASSUME NEW a \in Window, NEW b \in a .. TotalWorkMinutes,
         NEW c \in b .. TotalWorkMinutes, NEW d \in c .. TotalWorkMinutes,
         NEW j \in DOMAIN SegmentsFor(a, b), NEW k \in DOMAIN SegmentsFor(c, d)
  PROVE  SegmentsFor(a, b)[j].end <= SegmentsFor(c, d)[k].start
<1>1. /\ a \in 0 .. 480 /\ b \in 0 .. 480 /\ c \in 0 .. 480 /\ d \in 0 .. 480
      /\ a <= b /\ b <= c /\ c <= d
  BY DEF Window, TotalWorkMinutes, MorningMinutes, MorningStart, MorningEnd,
         AfternoonStart, AfternoonEnd
<1>2. c \in Window /\ b \in Window
  BY <1>1 DEF Window, TotalWorkMinutes, MorningMinutes, MorningStart, MorningEnd,
              AfternoonStart, AfternoonEnd
<1> DEFINE lastEnd == IF b <= 180 THEN 540 + b ELSE 600 + b
           firstStart == IF d > 180 /\ c >= 180 THEN 600 + c ELSE 540 + c
<1>3. SegmentsFor(a, b)[j].end <= RoundTo5(lastEnd) /\ SegmentsFor(a, b)[j].end \in Int
  <2>1. RoundTo5(720) <= RoundTo5(lastEnd) \/ b <= 180
    BY <1>1, Rounding
  <2>2. RoundTo5(lastEnd) \in Int /\ RoundTo5(720) \in Int
    BY <1>1, Rounding
  <2>3. CASE b <= 180 /\ SegmentsFor(a, b) = << Slot(540 + a, 540 + b) >>
    BY <2>2, <2>3 DEF Slot
  <2>4. CASE b > 180 /\ a >= 180 /\ SegmentsFor(a, b) = << Slot(600 + a, 600 + b) >>
    BY <1>1, <2>2, <2>4 DEF Slot
  <2>5. CASE b > 180 /\ a < 180
             /\ SegmentsFor(a, b) = << Slot(540 + a, 720), Slot(780, 600 + b) >>
    <3>1. j \in {1, 2}
      BY <2>5
    <3> QED
      BY <1>1, <2>1, <2>2, <2>5, <3>1 DEF Slot
  <2> QED
    BY Shapes, <2>3, <2>4, <2>5
<1>4. RoundTo5(firstStart) <= SegmentsFor(c, d)[k].start /\ SegmentsFor(c, d)[k].start \in Int
  <2>1. RoundTo5(firstStart) <= RoundTo5(780) \/ c >= 180
    BY <1>1, Rounding
  <2>2. RoundTo5(firstStart) \in Int /\ RoundTo5(780) \in Int
    BY <1>1, Rounding
  <2>3. CASE d <= 180 /\ SegmentsFor(c, d) = << Slot(540 + c, 540 + d) >>
    BY <1>1, <2>2, <2>3 DEF Slot
  <2>4. CASE d > 180 /\ c >= 180 /\ SegmentsFor(c, d) = << Slot(600 + c, 600 + d) >>
    BY <2>2, <2>4 DEF Slot
  <2>5. CASE d > 180 /\ c < 180
             /\ SegmentsFor(c, d) = << Slot(540 + c, 720), Slot(780, 600 + d) >>
    <3>1. k \in {1, 2}
      BY <2>5
    <3> QED
      BY <1>1, <2>1, <2>2, <2>5, <3>1 DEF Slot
  <2> QED
    BY Shapes, <1>2, <2>3, <2>4, <2>5
<1>5. RoundTo5(lastEnd) <= RoundTo5(firstStart)
  <2>1. lastEnd \in Nat /\ firstStart \in Nat /\ lastEnd <= firstStart
    BY <1>1
  <2> QED
    BY <2>1, Rounding
<1>6. RoundTo5(lastEnd) \in Int /\ RoundTo5(firstStart) \in Int
  BY <1>1, Rounding
<1> QED
  BY <1>3, <1>4, <1>5, <1>6

-----------------------------------------------------------------------------
(* A set of naturals that has a member has a least one. *)
LEMMA LeastOf ==
  ASSUME NEW S \in SUBSET Nat, S # {}
  PROVE  \E n \in S : \A m \in S : n <= m
<1>1. PICK n \in S : \A m \in S : ~ (<<m, n>> \in OpToRel(<, Nat))
  BY WFMin, NatLessThanWellFounded
<1>2. \A m \in S : ~ (m < n)
  BY <1>1 DEF OpToRel
<1> QED
  BY <1>2

(* Induction, over the set of the numbers a property holds of. *)
LEMMA UpFromZero ==
  ASSUME NEW S, S \subseteq Nat, 0 \in S, \A n \in S : n + 1 \in S
  PROVE  S = Nat
<1> SUFFICES ASSUME Nat \ S # {} PROVE FALSE
  OBVIOUS
<1>1. PICK n \in Nat \ S : \A m \in Nat \ S : n <= m
  BY LeastOf
<1>2. n - 1 \in Nat /\ n - 1 \in S
  BY <1>1
<1> QED
  BY <1>1, <1>2

LEMMA AppendIs ==
  ASSUME NEW T, NEW s \in Seq(T), NEW x \in T
  PROVE  /\ Append(s, x) \in Seq(T) /\ Len(s) \in Nat /\ Len(Append(s, x)) = Len(s) + 1
         /\ Append(s, x)[Len(s) + 1] = x
         /\ \A k \in 1 .. Len(s) : Append(s, x)[k] = s[k]
  OBVIOUS

-----------------------------------------------------------------------------
(* Positions, read as the recursion it is. *)
Climbs(f, n, S) ==
  f = [k \in 0 .. n |-> IF k = 0 THEN <<>>
                        ELSE IF k \in S THEN Append(f[k - 1], k) ELSE f[k - 1]]

LEMMA ClimbsAt ==
  ASSUME NEW S, NEW n, NEW f, Climbs(f, n, S), NEW k \in 0 .. n
  PROVE  f[k] = IF k = 0 THEN <<>> ELSE IF k \in S THEN Append(f[k - 1], k) ELSE f[k - 1]
  BY DEF Climbs

LEMMA ClimbExists ==
  ASSUME NEW S
  PROVE  \A n \in Nat : \E f : Climbs(f, n, S)
<1> DEFINE G == {n \in Nat : \E f : Climbs(f, n, S)}
<1>1. 0 \in G
  <2> DEFINE f == [k \in 0 .. 0 |-> <<>>]
  <2>1. Climbs(f, 0, S)
    BY DEF Climbs
  <2> QED
    BY <2>1
<1>2. ASSUME NEW n \in G PROVE n + 1 \in G
  <2>1. PICK f : Climbs(f, n, S)
    OBVIOUS
  <2> DEFINE g == [k \in 0 .. n + 1 |->
                     IF k <= n THEN f[k] ELSE IF k \in S THEN Append(f[k - 1], k) ELSE f[k - 1]]
  <2>2. Climbs(g, n + 1, S)
    <3> SUFFICES ASSUME NEW k \in 0 .. n + 1
                 PROVE  g[k] = IF k = 0 THEN <<>>
                               ELSE IF k \in S THEN Append(g[k - 1], k) ELSE g[k - 1]
      BY DEF Climbs
    <3>1. CASE k = 0
      BY <2>1, <3>1 DEF Climbs
    <3>2. CASE k # 0
      <4>1. k - 1 \in 0 .. n /\ g[k - 1] = f[k - 1]
        BY <3>2
      <4>2. CASE k <= n
        <5>1. f[k] = IF k \in S THEN Append(f[k - 1], k) ELSE f[k - 1]
          BY <2>1, <3>2, <4>2, ClimbsAt
        <5> QED
          BY <3>2, <4>1, <4>2, <5>1
      <4>3. CASE ~(k <= n)
        BY <3>2, <4>1, <4>3
      <4> QED
        BY <4>2, <4>3
    <3> QED
      BY <3>1, <3>2
  <2> QED
    BY <2>2
<1> HIDE DEF G
<1>3. G = Nat
  <2>1. G \subseteq Nat
    BY DEF G
  <2> QED
    BY <1>1, <1>2, <2>1, UpFromZero
<1> QED
  BY <1>3 DEF G

LEMMA ClimbsAgree ==
  ASSUME NEW S, NEW n \in Nat, NEW m \in Nat, NEW f, NEW g,
         Climbs(f, n, S), Climbs(g, m, S), n <= m
  PROVE  \A k \in 0 .. n : f[k] = g[k]
<1> DEFINE D == {k \in 0 .. n : f[k] # g[k]}
<1> SUFFICES ASSUME D # {} PROVE FALSE
  OBVIOUS
<1>1. PICK k \in D : \A j \in D : k <= j
  <2>1. D \subseteq Nat
    OBVIOUS
  <2> HIDE DEF D
  <2> QED
    BY <2>1, LeastOf
<1>2. CASE k = 0
  BY <1>1, <1>2 DEF Climbs
<1>3. CASE k # 0
  <2>1. k - 1 \in 0 .. n /\ k \in 0 .. m /\ f[k - 1] = g[k - 1]
    BY <1>1, <1>3
  <2> QED
    BY ZenonT(60), <1>1, <1>3, <2>1 DEF Climbs
<1> QED
  BY <1>2, <1>3

LEMMA PositionsStep ==
  ASSUME NEW S, NEW n \in Nat
  PROVE  /\ Positions(0, S) = <<>>
         /\ Positions(n + 1, S) =
              IF n + 1 \in S THEN Append(Positions(n, S), n + 1) ELSE Positions(n, S)
<1> DEFINE F(m) == CHOOSE f : Climbs(f, m, S)
<1>1. \A m \in Nat : Climbs(F(m), m, S) /\ Positions(m, S) = F(m)[m]
  <2> TAKE m \in Nat
  <2>1. Climbs(F(m), m, S)
    BY ClimbExists
  <2> QED
    BY <2>1 DEF Positions, Climbs
<1> HIDE DEF F
<1>2. Positions(0, S) = <<>>
  BY <1>1 DEF Climbs
<1>3. F(n + 1)[n] = F(n)[n]
  <2>1. \A k \in 0 .. n : F(n)[k] = F(n + 1)[k]
    BY <1>1, ClimbsAgree
  <2> QED
    BY <2>1
<1>4. F(n + 1)[n + 1] = IF n + 1 \in S THEN Append(F(n + 1)[n], n + 1) ELSE F(n + 1)[n]
  <2>1. n + 1 \in 0 .. n + 1 /\ n + 1 # 0 /\ (n + 1) - 1 = n
    OBVIOUS
  <2> QED
    BY <1>1, <2>1, ClimbsAt
<1> QED
  BY <1>1, <1>2, <1>3, <1>4

(* Positions lists the members of S among 1 .. n, each once, ascending. *)
Ascending(p, n, S) ==
  /\ p \in Seq(Nat)
  /\ \A k \in 1 .. Len(p) : p[k] \in S /\ p[k] \in 1 .. n
  /\ \A j, k \in 1 .. Len(p) : j < k => p[j] < p[k]
  /\ \A i \in 1 .. n : i \in S => \E k \in 1 .. Len(p) : p[k] = i

LEMMA PositionsAre ==
  ASSUME NEW S
  PROVE  \A n \in Nat : Ascending(Positions(n, S), n, S)
<1> DEFINE G == {n \in Nat : Ascending(Positions(n, S), n, S)}
<1>1. 0 \in G
  <2>1. Positions(0, S) = <<>>
    BY PositionsStep
  <2>2. <<>> \in Seq(Nat) /\ Len(<<>>) = 0 /\ 1 .. 0 = {}
    OBVIOUS
  <2>3. Ascending(<<>>, 0, S)
    BY <2>2 DEF Ascending
  <2> QED
    BY <2>1, <2>3
<1>2. ASSUME NEW n \in G PROVE n + 1 \in G
  <2> DEFINE p == Positions(n, S)
             q == Positions(n + 1, S)
  <2>0. n \in Nat /\ Ascending(p, n, S)
    OBVIOUS
  <2>1. q = IF n + 1 \in S THEN Append(p, n + 1) ELSE p
    BY <2>0, PositionsStep
  <2> HIDE DEF p, q
  <2>2. CASE n + 1 \in S
    <3>1. /\ q \in Seq(Nat) /\ Len(q) = Len(p) + 1 /\ q[Len(p) + 1] = n + 1 /\ Len(p) \in Nat
          /\ \A k \in 1 .. Len(p) : q[k] = p[k]
      BY <2>0, <2>1, <2>2 DEF Ascending
    <3>2. \A k \in 1 .. Len(q) : q[k] \in S /\ q[k] \in 1 .. n + 1
      <4> SUFFICES ASSUME NEW k \in 1 .. Len(q)
                   PROVE  q[k] \in S /\ q[k] \in 1 .. n + 1
        OBVIOUS
      <4>1. CASE k = Len(p) + 1
        BY <2>0, <2>2, <3>1, <4>1
      <4>2. CASE k # Len(p) + 1
        <5>1. k \in 1 .. Len(p) /\ q[k] = p[k]
          BY <3>1, <4>2
        <5>2. p[k] \in S /\ p[k] \in 1 .. n
          BY <2>0, <5>1 DEF Ascending
        <5> QED
          BY <2>0, <5>1, <5>2
      <4> QED
        BY <4>1, <4>2
    <3>3. \A j, k \in 1 .. Len(q) : j < k => q[j] < q[k]
      <4> SUFFICES ASSUME NEW j \in 1 .. Len(q), NEW k \in 1 .. Len(q), j < k
                   PROVE  q[j] < q[k]
        OBVIOUS
      <4>1. j \in 1 .. Len(p) /\ q[j] = p[j] /\ p[j] \in 1 .. n
        BY SMTT(40), <2>0, <3>1 DEF Ascending
      <4>2. CASE k = Len(p) + 1
        BY <2>0, <3>1, <4>1, <4>2
      <4>3. CASE k # Len(p) + 1
        <5>1. k \in 1 .. Len(p) + 1 /\ Len(p) \in Nat
          BY <3>1
        <5>2. k \in 1 .. Len(p)
          BY <4>3, <5>1
        <5>3. q[k] = p[k]
          BY <3>1, <5>2
        <5> QED
          BY <2>0, <4>1, <5>2, <5>3 DEF Ascending
      <4> QED
        BY <4>2, <4>3
    <3>4. \A i \in 1 .. n + 1 : i \in S => \E k \in 1 .. Len(q) : q[k] = i
      <4> SUFFICES ASSUME NEW i \in 1 .. n + 1, i \in S
                   PROVE  \E k \in 1 .. Len(q) : q[k] = i
        OBVIOUS
      <4>1. CASE i = n + 1
        BY <3>1, <4>1
      <4>2. CASE i # n + 1
        <5>1. PICK k \in 1 .. Len(p) : p[k] = i
          BY <2>0, <4>2 DEF Ascending
        <5> QED
          BY <3>1, <5>1
      <4> QED
        BY <4>1, <4>2
    <3> QED
      BY <2>0, <3>1, <3>2, <3>3, <3>4 DEF Ascending, q
  <2>3. CASE n + 1 \notin S
    <3>1. Ascending(p, n + 1, S)
      <4>1. \A i \in 1 .. n + 1 : i \in S => i \in 1 .. n
        BY <2>0, <2>3
      <4>2. \A i \in 1 .. n : i \in 1 .. n + 1
        BY <2>0
      <4> QED
        BY <2>0, <4>1, <4>2 DEF Ascending
    <3> QED
      BY <2>0, <2>1, <2>3, <3>1 DEF q
  <2> QED
    BY <2>2, <2>3
<1> HIDE DEF G
<1>3. G = Nat
  <2>1. G \subseteq Nat
    BY DEF G
  <2> QED
    BY <1>1, <1>2, <2>1, UpFromZero
<1> QED
  BY <1>3 DEF G

(* A list cut down keeps its type and its order, and has no more positions. *)
LEMMA AtIs ==
  ASSUME NEW T, NEW s \in Seq(T), NEW S, NEW n \in 0 .. Len(s)
  PROVE  LET p == Positions(n, S)
         IN  /\ p \in Seq(1 .. Len(s)) /\ At(s, p) \in Seq(T) /\ Len(At(s, p)) = Len(p)
             /\ \A k \in 1 .. Len(p) : At(s, p)[k] = s[p[k]]
<1> DEFINE p == Positions(n, S)
<1>1. Ascending(p, n, S)
  BY PositionsAre
<1> HIDE DEF p
<1>2. p \in Seq(1 .. Len(s))
  <2>1. p \in Seq(Nat) /\ \A k \in 1 .. Len(p) : p[k] \in 1 .. Len(s)
    BY <1>1 DEF Ascending
  <2> QED
    BY <2>1
<1>3. Len(p) \in Nat /\ DOMAIN p = 1 .. Len(p)
  BY <1>2
<1>4. \A k \in 1 .. Len(p) : s[p[k]] \in T
  BY <1>2
<1>5. At(s, p) = [k \in 1 .. Len(p) |-> s[p[k]]]
  BY <1>3 DEF At
<1>6. At(s, p) \in Seq(T) /\ Len(At(s, p)) = Len(p)
  <2>1. [k \in 1 .. Len(p) |-> s[p[k]]] \in [1 .. Len(p) -> T]
    BY <1>4
  <2> QED
    BY <1>3, <1>5, <2>1
<1> QED
  BY <1>2, <1>5, <1>6 DEF p

(* Less takes out exactly the members of drop. *)
LEMMA LessIs ==
  ASSUME NEW T, NEW s \in Seq(T), NEW drop
  PROVE  /\ Less(s, drop) \in Seq(T)
         /\ \A k \in 1 .. Len(Less(s, drop)) :
              \E i \in 1 .. Len(s) : Less(s, drop)[k] = s[i] /\ s[i] \notin drop
         /\ \A i \in 1 .. Len(s) : s[i] \notin drop =>
              \E k \in 1 .. Len(Less(s, drop)) : Less(s, drop)[k] = s[i]
         /\ (\A i, j \in 1 .. Len(s) : s[i] = s[j] => i = j) =>
              \A i, j \in 1 .. Len(Less(s, drop)) :
                Less(s, drop)[i] = Less(s, drop)[j] => i = j
<1> DEFINE S == {i \in DOMAIN s : s[i] \notin drop}
           p == Positions(Len(s), S)
           l == At(s, p)
<1>1. Less(s, drop) = l /\ Len(s) \in Nat /\ DOMAIN s = 1 .. Len(s)
  BY DEF Less
<1>2. Ascending(p, Len(s), S)
  BY <1>1, PositionsAre
<1>3. /\ p \in Seq(1 .. Len(s)) /\ l \in Seq(T) /\ Len(l) = Len(p)
      /\ \A k \in 1 .. Len(p) : l[k] = s[p[k]]
  BY <1>1, AtIs
<1>4. \A i \in 1 .. Len(s) : i \in S <=> s[i] \notin drop
  BY <1>1
<1> HIDE DEF S, p, l
<1>5. \A i, j \in 1 .. Len(p) : p[i] = p[j] => i = j
  BY <1>2, <1>3 DEF Ascending
<1>6. \A k \in 1 .. Len(l) : \E i \in 1 .. Len(s) : l[k] = s[i] /\ s[i] \notin drop
  BY <1>2, <1>3, <1>4 DEF Ascending
<1>7. \A i \in 1 .. Len(s) : s[i] \notin drop => \E k \in 1 .. Len(l) : l[k] = s[i]
  <2> SUFFICES ASSUME NEW i \in 1 .. Len(s), s[i] \notin drop
               PROVE  \E k \in 1 .. Len(l) : l[k] = s[i]
    OBVIOUS
  <2>1. PICK k \in 1 .. Len(p) : p[k] = i
    BY <1>2, <1>4 DEF Ascending
  <2> QED
    BY <1>3, <2>1
<1>8. ASSUME \A i, j \in 1 .. Len(s) : s[i] = s[j] => i = j,
             NEW i \in 1 .. Len(l), NEW j \in 1 .. Len(l), l[i] = l[j]
      PROVE  i = j
  <2>1. p[i] \in 1 .. Len(s) /\ p[j] \in 1 .. Len(s) /\ s[p[i]] = s[p[j]]
    BY <1>3, <1>8
  <2> QED
    BY <1>3, <1>5, <1>8, <2>1
<1> QED
  BY <1>1, <1>3, <1>6, <1>7, <1>8

-----------------------------------------------------------------------------
(* Offset, read as the recursion it is. *)
AddsUp(f, n, minutes) ==
  f = [k \in 0 .. n |-> IF k = 0 THEN 0 ELSE f[k - 1] + minutes[k]]

LEMMA AddsUpAt ==
  ASSUME NEW minutes, NEW n, NEW f, AddsUp(f, n, minutes), NEW k \in 0 .. n
  PROVE  f[k] = IF k = 0 THEN 0 ELSE f[k - 1] + minutes[k]
  BY DEF AddsUp

LEMMA SumExists ==
  ASSUME NEW minutes
  PROVE  \A n \in Nat : \E f : AddsUp(f, n, minutes)
<1> DEFINE G == {n \in Nat : \E f : AddsUp(f, n, minutes)}
<1>1. 0 \in G
  <2> DEFINE f == [k \in 0 .. 0 |-> 0]
  <2>1. AddsUp(f, 0, minutes)
    BY DEF AddsUp
  <2> QED
    BY <2>1
<1>2. ASSUME NEW n \in G PROVE n + 1 \in G
  <2>1. PICK f : AddsUp(f, n, minutes)
    OBVIOUS
  <2> DEFINE g == [k \in 0 .. n + 1 |-> IF k <= n THEN f[k] ELSE f[k - 1] + minutes[k]]
  <2>2. AddsUp(g, n + 1, minutes)
    <3> SUFFICES ASSUME NEW k \in 0 .. n + 1
                 PROVE  g[k] = IF k = 0 THEN 0 ELSE g[k - 1] + minutes[k]
      BY DEF AddsUp
    <3>1. CASE k = 0
      BY <2>1, <3>1 DEF AddsUp
    <3>2. CASE k # 0
      <4>1. k - 1 \in 0 .. n /\ g[k - 1] = f[k - 1]
        BY <3>2
      <4>2. CASE k <= n
        <5>1. f[k] = f[k - 1] + minutes[k]
          BY <2>1, <3>2, <4>2, AddsUpAt
        <5> QED
          BY <3>2, <4>1, <4>2, <5>1
      <4>3. CASE ~(k <= n)
        BY <3>2, <4>1, <4>3
      <4> QED
        BY <4>2, <4>3
    <3> QED
      BY <3>1, <3>2
  <2> QED
    BY <2>2
<1> HIDE DEF G
<1>3. G = Nat
  <2>1. G \subseteq Nat
    BY DEF G
  <2> QED
    BY <1>1, <1>2, <2>1, UpFromZero
<1> QED
  BY <1>3 DEF G

LEMMA SumsAgree ==
  ASSUME NEW a, NEW b, NEW n \in Nat, NEW m \in Nat, NEW f, NEW g,
         AddsUp(f, n, a), AddsUp(g, m, b), n <= m, \A k \in 1 .. n : a[k] = b[k]
  PROVE  \A k \in 0 .. n : f[k] = g[k]
<1> DEFINE D == {k \in 0 .. n : f[k] # g[k]}
<1> SUFFICES ASSUME D # {} PROVE FALSE
  OBVIOUS
<1>1. PICK k \in D : \A j \in D : k <= j
  <2>1. D \subseteq Nat
    OBVIOUS
  <2> HIDE DEF D
  <2> QED
    BY <2>1, LeastOf
<1>2. k \in 0 .. n /\ k \in 0 .. m
  BY <1>1
<1>3. CASE k = 0
  BY <1>1, <1>2, <1>3, AddsUpAt
<1>4. CASE k # 0
  <2>1. k - 1 \in 0 .. n /\ k \in 1 .. n /\ f[k - 1] = g[k - 1]
    BY <1>1, <1>2, <1>4
  <2>2. f[k] = f[k - 1] + a[k] /\ g[k] = g[k - 1] + b[k]
    BY <1>2, <1>4, AddsUpAt
  <2> QED
    BY <1>1, <2>1, <2>2
<1> QED
  BY <1>3, <1>4

LEMMA OffsetSums ==
  ASSUME NEW minutes, NEW n \in Nat
  PROVE  \E f : AddsUp(f, n, minutes) /\ Offset(minutes, n) = f[n]
<1> DEFINE f == CHOOSE f : AddsUp(f, n, minutes)
<1>1. AddsUp(f, n, minutes)
  BY SumExists
<1>2. Offset(minutes, n) = f[n]
  BY <1>1 DEF Offset, AddsUp
<1> QED
  BY <1>1, <1>2

(* Only the first n minutes count. *)
LEMMA OffsetAgrees ==
  ASSUME NEW a, NEW b, NEW n \in Nat, \A k \in 1 .. n : a[k] = b[k]
  PROVE  Offset(a, n) = Offset(b, n)
<1>1. PICK f : AddsUp(f, n, a) /\ Offset(a, n) = f[n]
  BY OffsetSums
<1>2. PICK g : AddsUp(g, n, b) /\ Offset(b, n) = g[n]
  BY OffsetSums
<1> QED
  BY SMTT(40), <1>1, <1>2, SumsAgree

LEMMA OffsetStep ==
  ASSUME NEW minutes, NEW n \in Nat
  PROVE  /\ Offset(minutes, 0) = 0
         /\ Offset(minutes, n + 1) = Offset(minutes, n) + minutes[n + 1]
<1>1. PICK f : AddsUp(f, n, minutes) /\ Offset(minutes, n) = f[n]
  BY OffsetSums
<1>2. PICK g : AddsUp(g, n + 1, minutes) /\ Offset(minutes, n + 1) = g[n + 1]
  BY OffsetSums
<1>3. PICK h : AddsUp(h, 0, minutes) /\ Offset(minutes, 0) = h[0]
  BY OffsetSums
<1>4. Offset(minutes, 0) = 0
  BY <1>3, AddsUpAt
<1>5. f[n] = g[n]
  <2>1. \A k \in 0 .. n : f[k] = g[k]
    BY <1>1, <1>2, SumsAgree
  <2> QED
    BY <2>1
<1>6. g[n + 1] = g[n] + minutes[n + 1]
  <2>1. n + 1 \in 0 .. n + 1 /\ n + 1 # 0 /\ (n + 1) - 1 = n
    OBVIOUS
  <2> QED
    BY <1>2, <2>1, AddsUpAt
<1> QED
  BY <1>1, <1>2, <1>4, <1>5, <1>6

LEMMA OffsetIsNat ==
  ASSUME NEW minutes \in Seq(Nat)
  PROVE  \A n \in 0 .. Len(minutes) : Offset(minutes, n) \in Nat
<1> DEFINE G == {n \in Nat : n <= Len(minutes) => Offset(minutes, n) \in Nat}
<1>1. 0 \in G
  BY OffsetStep
<1>2. ASSUME NEW n \in G PROVE n + 1 \in G
  <2> SUFFICES ASSUME n + 1 <= Len(minutes) PROVE Offset(minutes, n + 1) \in Nat
    OBVIOUS
  <2>1. n \in Nat /\ Offset(minutes, n) \in Nat
    OBVIOUS
  <2>2. Offset(minutes, n + 1) = Offset(minutes, n) + minutes[n + 1] /\ minutes[n + 1] \in Nat
    <3>1. n + 1 \in 1 .. Len(minutes)
      BY <2>1
    <3>2. minutes[n + 1] \in Nat
      BY <3>1
    <3>3. Offset(minutes, n + 1) = Offset(minutes, n) + minutes[n + 1]
      BY <2>1, OffsetStep
    <3> QED
      BY <3>2, <3>3
  <2> QED
    BY <2>1, <2>2
<1> HIDE DEF G
<1>3. G = Nat
  <2>1. G \subseteq Nat
    BY DEF G
  <2> QED
    BY <1>1, <1>2, <2>1, UpFromZero
<1> QED
  BY <1>3 DEF G

(* Later offsets are no smaller. *)
LEMMA OffsetGrows ==
  ASSUME NEW minutes \in Seq(Nat)
  PROVE  \A n \in 0 .. Len(minutes) :
           Offset(minutes, n) \in Nat /\ \A k \in 0 .. n : Offset(minutes, k) <= Offset(minutes, n)
<1> DEFINE Fine(n) == Offset(minutes, n) \in Nat
                      /\ \A k \in 0 .. n : Offset(minutes, k) <= Offset(minutes, n)
           G == {n \in Nat : n <= Len(minutes) => Fine(n)}
<1>1. 0 \in G
  <2>1. Offset(minutes, 0) = 0
    BY OffsetStep
  <2>2. Fine(0)
    <3>1. \A k \in 0 .. 0 : k = 0
      OBVIOUS
    <3> QED
      BY <2>1, <3>1
  <2> QED
    BY <2>2
<1>2. ASSUME NEW n \in G PROVE n + 1 \in G
  <2> SUFFICES ASSUME n + 1 <= Len(minutes) PROVE Fine(n + 1)
    OBVIOUS
  <2>1. n \in Nat /\ Fine(n)
    OBVIOUS
  <2>2. Offset(minutes, n + 1) = Offset(minutes, n) + minutes[n + 1] /\ minutes[n + 1] \in Nat
    <3>1. n + 1 \in 1 .. Len(minutes)
      BY <2>1
    <3>2. minutes[n + 1] \in Nat
      BY <3>1
    <3>3. Offset(minutes, n + 1) = Offset(minutes, n) + minutes[n + 1]
      BY <2>1, OffsetStep
    <3> QED
      BY <3>2, <3>3
  <2>3. Offset(minutes, n + 1) \in Nat /\ Offset(minutes, n) <= Offset(minutes, n + 1)
    BY <2>1, <2>2
  <2>4. ASSUME NEW k \in 0 .. n + 1 PROVE Offset(minutes, k) <= Offset(minutes, n + 1)
    <3>1. CASE k = n + 1
      BY <2>3, <3>1
    <3>2. CASE k # n + 1
      <4>1. k \in 0 .. n /\ k \in 0 .. Len(minutes)
        BY <2>1, <3>2
      <4>2. Offset(minutes, k) <= Offset(minutes, n) /\ Offset(minutes, n) \in Nat
        BY <2>1, <4>1
      <4>3. Offset(minutes, k) \in Int
        BY <4>1, OffsetIsNat
      <4> QED
        BY <2>3, <4>2, <4>3
    <3> QED
      BY <3>1, <3>2
  <2> QED
    BY <2>3, <2>4
<1> HIDE DEF G
<1>3. G = Nat
  <2>1. G \subseteq Nat
    BY DEF G
  <2> QED
    BY <1>1, <1>2, <2>1, UpFromZero
<1> QED
  BY <1>3 DEF G

(* The even split gives every ticket the same whole minutes, and the last  *)
(* one what is left of the day.                                            *)
LEMMA Shares ==
  ASSUME NEW n \in Nat \ {0}
  PROVE  /\ TotalWorkMinutes \div n \in Nat
         /\ (TotalWorkMinutes \div n) * (n - 1) \in Nat
         /\ (TotalWorkMinutes \div n) * (n - 1) + TotalWorkMinutes \div n <= TotalWorkMinutes
         /\ n <= TotalWorkMinutes => TotalWorkMinutes \div n > 0
<1> DEFINE per == TotalWorkMinutes \div n
<1>0. TotalWorkMinutes = 480
  BY DEF TotalWorkMinutes, MorningMinutes, MorningStart, MorningEnd, AfternoonStart, AfternoonEnd
<1>1. per \in Nat /\ n * per <= 480 /\ 480 < n * per + n
  BY <1>0
<1> HIDE DEF per
<1>2. per * (n - 1) = n * per - per /\ n * per \in Nat
  BY <1>1
<1>3. per <= n * per
  BY <1>1
<1>4. n <= 480 => per > 0
  BY <1>1
<1>5. per * (n - 1) \in Nat /\ per * (n - 1) + per <= 480
  <2> DEFINE all == n * per
             rest == per * (n - 1)
  <2>1. rest = all - per /\ all \in Nat /\ per <= all /\ per \in Nat /\ all <= 480
    BY <1>1, <1>2, <1>3
  <2> HIDE DEF all, rest
  <2>2. rest \in Nat /\ rest + per <= 480
    BY <2>1
  <2> QED
    BY <2>2 DEF rest
<1> QED
  BY <1>0, <1>1, <1>4, <1>5 DEF per

LEMMA EvenSplitIs ==
  ASSUME NEW n \in Nat \ {0}
  PROVE  /\ EvenSplit(n) \in Seq(Nat) /\ Len(EvenSplit(n)) = n
         /\ \A i \in 1 .. n : EvenSplit(n)[i] =
              IF i = n THEN TotalWorkMinutes - (TotalWorkMinutes \div n) * (n - 1)
              ELSE TotalWorkMinutes \div n
         /\ n <= TotalWorkMinutes => \A i \in 1 .. n : EvenSplit(n)[i] > 0
<1> DEFINE per == TotalWorkMinutes \div n
           last == TotalWorkMinutes - per * (n - 1)
<1>0. TotalWorkMinutes = 480
  BY DEF TotalWorkMinutes, MorningMinutes, MorningStart, MorningEnd, AfternoonStart, AfternoonEnd
<1>1. per \in Nat /\ last \in Nat /\ per <= last /\ (n <= TotalWorkMinutes => per > 0)
  <2>1. per \in Nat /\ per * (n - 1) \in Nat /\ per * (n - 1) + per <= TotalWorkMinutes
        /\ (n <= TotalWorkMinutes => per > 0)
    BY Shares
  <2> HIDE DEF per
  <2> QED
    BY <1>0, <2>1
<1>2. EvenSplit(n) = [i \in 1 .. n |-> IF i = n THEN last ELSE per]
  BY DEF EvenSplit
<1> HIDE DEF per, last
<1>3. EvenSplit(n) \in [1 .. n -> Nat]
  BY <1>1, <1>2
<1>4. \A i \in 1 .. n : EvenSplit(n)[i] = IF i = n THEN last ELSE per
  BY <1>2
<1>5. n <= TotalWorkMinutes => \A i \in 1 .. n : EvenSplit(n)[i] > 0
  BY <1>0, <1>1, <1>4
<1>6. EvenSplit(n) \in Seq(Nat) /\ Len(EvenSplit(n)) = n
  BY <1>3
<1> QED
  BY <1>4, <1>5, <1>6 DEF per, last

(* An even day is a full day. *)
LEMMA EvenOffset ==
  ASSUME NEW n \in Nat \ {0}
  PROVE  Offset(EvenSplit(n), n) = TotalWorkMinutes
<1> DEFINE per == TotalWorkMinutes \div n
           G == {i \in Nat : i < n => Offset(EvenSplit(n), i) = per * i}
<1>0. per \in Nat /\ TotalWorkMinutes = 480
  BY Shares DEF TotalWorkMinutes, MorningMinutes, MorningStart, MorningEnd, AfternoonStart, AfternoonEnd
<1>1. 0 \in G
  BY <1>0, OffsetStep
<1>2. ASSUME NEW i \in G PROVE i + 1 \in G
  <2> SUFFICES ASSUME i + 1 < n PROVE Offset(EvenSplit(n), i + 1) = per * (i + 1)
    OBVIOUS
  <2>1. i \in Nat /\ Offset(EvenSplit(n), i) = per * i
    OBVIOUS
  <2>2. Offset(EvenSplit(n), i + 1) = Offset(EvenSplit(n), i) + EvenSplit(n)[i + 1]
    BY <2>1, OffsetStep
  <2>3. EvenSplit(n)[i + 1] = per
    <3>1. i + 1 \in 1 .. n /\ i + 1 # n
      BY <2>1
    <3> QED
      BY <3>1, EvenSplitIs
  <2>4. per * (i + 1) = per * i + per
    <3> HIDE DEF per
    <3> QED
      BY <1>0, <2>1
  <2> QED
    BY <2>1, <2>2, <2>3, <2>4
<1> HIDE DEF G
<1>3. G = Nat
  <2>1. G \subseteq Nat
    BY DEF G
  <2> QED
    BY <1>1, <1>2, <2>1, UpFromZero
<1>4. n - 1 \in Nat /\ Offset(EvenSplit(n), n - 1) = per * (n - 1)
  BY <1>3 DEF G
<1>5. EvenSplit(n)[n] = TotalWorkMinutes - per * (n - 1)
  BY EvenSplitIs
<1>6. Offset(EvenSplit(n), n) = Offset(EvenSplit(n), n - 1) + EvenSplit(n)[n]
  <2>1. Offset(EvenSplit(n), (n - 1) + 1) = Offset(EvenSplit(n), n - 1) + EvenSplit(n)[(n - 1) + 1]
    BY <1>4, OffsetStep
  <2>2. (n - 1) + 1 = n
    OBVIOUS
  <2> QED
    BY <2>1, <2>2
<1>7. per * (n - 1) \in Int
  BY Shares
<1> HIDE DEF per
<1> QED
  BY <1>0, <1>4, <1>5, <1>6, <1>7

(* What is left of a day's minutes is no more than they were. *)
LEMMA SumOfSome ==
  ASSUME NEW minutes \in Seq(Nat), NEW S
  PROVE  LET p(n) == Positions(n, S)
         IN  \A n \in 0 .. Len(minutes) :
               Offset(At(minutes, p(n)), Len(p(n))) <= Offset(minutes, n)
<1> DEFINE p(n) == Positions(n, S)
           Part(n) == Offset(At(minutes, p(n)), Len(p(n)))
           G == {n \in Nat : n <= Len(minutes) => Part(n) <= Offset(minutes, n)}
<1>0. \A n \in 0 .. Len(minutes) :
        /\ p(n) \in Seq(1 .. Len(minutes)) /\ At(minutes, p(n)) \in Seq(Nat)
        /\ Len(At(minutes, p(n))) = Len(p(n))
        /\ \A k \in 1 .. Len(p(n)) : At(minutes, p(n))[k] = minutes[p(n)[k]]
  BY AtIs
<1>1. 0 \in G
  <2>1. p(0) = <<>> /\ Len(p(0)) = 0
    BY PositionsStep
  <2>2. Part(0) = 0 /\ Offset(minutes, 0) = 0
    BY <2>1, OffsetStep
  <2> QED
    BY <2>2
<1>2. ASSUME NEW n \in G PROVE n + 1 \in G
  <2> SUFFICES ASSUME n + 1 <= Len(minutes) PROVE Part(n + 1) <= Offset(minutes, n + 1)
    OBVIOUS
  <2>1. n \in Nat /\ Part(n) <= Offset(minutes, n) /\ n \in 0 .. Len(minutes)
        /\ n + 1 \in 0 .. Len(minutes) /\ n + 1 \in 1 .. Len(minutes)
    OBVIOUS
  <2>2. /\ p(n) \in Seq(1 .. Len(minutes)) /\ At(minutes, p(n)) \in Seq(Nat)
        /\ Len(At(minutes, p(n))) = Len(p(n))
        /\ \A k \in 1 .. Len(p(n)) : At(minutes, p(n))[k] = minutes[p(n)[k]]
    BY <1>0, <2>1
  <2>3. /\ p(n + 1) \in Seq(1 .. Len(minutes)) /\ At(minutes, p(n + 1)) \in Seq(Nat)
        /\ \A k \in 1 .. Len(p(n + 1)) : At(minutes, p(n + 1))[k] = minutes[p(n + 1)[k]]
    BY <1>0, <2>1
  <2>4. p(n + 1) = IF n + 1 \in S THEN Append(p(n), n + 1) ELSE p(n)
    BY <2>1, PositionsStep
  <2>5. Offset(minutes, n + 1) = Offset(minutes, n) + minutes[n + 1]
    BY <2>1, OffsetStep
  <2>6. minutes[n + 1] \in Nat /\ Offset(minutes, n) \in Nat
    BY <2>1, OffsetIsNat
  <2>7. Part(n) \in Nat
    <3>1. Len(p(n)) \in 0 .. Len(At(minutes, p(n)))
      BY <2>2
    <3> QED
      BY <2>2, <3>1, OffsetIsNat
  <2>8. CASE n + 1 \notin S
    BY <2>1, <2>4, <2>5, <2>6, <2>7, <2>8
  <2>9. CASE n + 1 \in S
    <3> DEFINE q == p(n + 1)
               l == Len(p(n))
    <3>1. l \in Nat /\ Len(q) = l + 1 /\ q[l + 1] = n + 1 /\ \A k \in 1 .. l : q[k] = p(n)[k]
      <4>1. /\ p(n) \in Seq(1 .. Len(minutes)) /\ n + 1 \in 1 .. Len(minutes)
            /\ p(n + 1) = Append(p(n), n + 1)
        BY <2>1, <2>2, <2>4, <2>9
      <4> DEFINE r == p(n)
                 T == 1 .. Len(minutes)
      <4>2. r \in Seq(T) /\ n + 1 \in T /\ q = Append(r, n + 1) /\ l = Len(r)
        BY <4>1
      <4> HIDE DEF r, q, l, T
      <4>3. l \in Nat /\ Len(q) = l + 1 /\ q[l + 1] = n + 1 /\ \A k \in 1 .. l : q[k] = r[k]
        BY <4>2, AppendIs
      <4> QED
        BY <4>3 DEF r
    <3>2. \A k \in 1 .. l : At(minutes, q)[k] = At(minutes, p(n))[k]
      <4> SUFFICES ASSUME NEW k \in 1 .. l PROVE At(minutes, q)[k] = At(minutes, p(n))[k]
        OBVIOUS
      <4>1. k \in 1 .. Len(q)
        BY <3>1
      <4> QED
        BY <2>2, <2>3, <3>1, <4>1
    <3>3. At(minutes, q)[l + 1] = minutes[n + 1]
      <4>1. l + 1 \in 1 .. Len(q)
        BY <3>1
      <4> QED
        BY <2>3, <3>1, <4>1
    <3>4. Offset(At(minutes, q), l) = Part(n)
      BY <3>1, <3>2, OffsetAgrees
    <3>5. Offset(At(minutes, q), l + 1) = Offset(At(minutes, q), l) + At(minutes, q)[l + 1]
      BY <3>1, OffsetStep
    <3>6. Part(n + 1) = Offset(At(minutes, q), l + 1)
      BY <3>1
    <3> HIDE DEF Part, q, l
    <3> QED
      BY <2>1, <2>5, <2>6, <2>7, <3>3, <3>4, <3>5, <3>6
  <2> QED
    BY <2>8, <2>9
<1> HIDE DEF G
<1>3. G = Nat
  <2>1. G \subseteq Nat
    BY DEF G
  <2> QED
    BY <1>1, <1>2, <2>1, UpFromZero
<1> QED
  BY <1>3 DEF G

-----------------------------------------------------------------------------
(* The windows of a day, one per ticket. *)

LEMMA FullDay == TotalWorkMinutes = 480
  BY DEF TotalWorkMinutes, MorningMinutes, MorningStart, MorningEnd, AfternoonStart, AfternoonEnd

LEMMA WindowsOf ==
  ASSUME NEW m \in Seq(Nat), Offset(m, Len(m)) <= TotalWorkMinutes, NEW i \in 1 .. Len(m)
  PROVE  /\ Offset(m, i - 1) \in Window /\ Offset(m, i) \in Offset(m, i - 1) .. TotalWorkMinutes
         /\ \A j \in 1 .. Len(m) : i < j => Offset(m, i) <= Offset(m, j - 1)
<1> DEFINE n == Len(m)
<1>0. n \in Nat
  OBVIOUS
<1>2. \A k \in 0 .. n : Offset(m, k) \in Nat /\ \A l \in 0 .. k : Offset(m, l) <= Offset(m, k)
  BY OffsetGrows
<1>3. \A k \in 0 .. n : Offset(m, k) \in Window
  <2> TAKE k \in 0 .. n
  <2>1. n \in 0 .. n /\ k \in 0 .. n
    BY <1>0
  <2>2. Offset(m, k) <= Offset(m, n) /\ Offset(m, k) \in Nat /\ Offset(m, n) \in Nat
    BY <1>2, <2>1
  <2>3. Offset(m, k) \in 0 .. 480
    <3> DEFINE o == Offset(m, k)
               all == Offset(m, n)
    <3>1. o <= all /\ o \in Nat /\ all \in Nat /\ all <= 480
      BY <2>2, FullDay
    <3> HIDE DEF o, all
    <3>2. o \in 0 .. 480
      BY <3>1
    <3> QED
      BY <3>2 DEF o
  <2> QED
    BY <2>3, FullDay DEF Window
<1>4. i - 1 \in 0 .. n /\ i \in 0 .. n /\ i - 1 \in 0 .. i
  BY <1>0
<1>5. ASSUME NEW j \in 1 .. n, i < j PROVE Offset(m, i) <= Offset(m, j - 1)
  <2>1. j - 1 \in 0 .. n /\ i \in 0 .. j - 1
    BY <1>0, <1>5
  <2> QED
    BY <1>2, <2>1
<1>6. Offset(m, i - 1) <= Offset(m, i)
  BY <1>2, <1>4
<1>7. Offset(m, i - 1) \in Window /\ Offset(m, i) \in Offset(m, i - 1) .. TotalWorkMinutes
  <2> DEFINE a == Offset(m, i - 1)
             b == Offset(m, i)
  <2>1. a \in 0 .. 480 /\ b \in 0 .. 480 /\ a <= b
    BY <1>3, <1>4, <1>6, FullDay DEF Window
  <2> HIDE DEF a, b
  <2>2. a \in 0 .. 480 /\ b \in a .. 480
    BY <2>1
  <2> QED
    BY <2>2, FullDay DEF Window, a, b
<1> QED
  BY <1>5, <1>7

LEMMA SegmentsTwo ==
  ASSUME NEW a \in Window, NEW b \in a .. TotalWorkMinutes
  PROVE  DOMAIN SegmentsFor(a, b) \subseteq {1, 2}
<1> DEFINE g == SegmentsFor(a, b)
<1>1. \A x, y : DOMAIN <<x>> \subseteq {1, 2} /\ DOMAIN <<x, y>> \subseteq {1, 2}
  OBVIOUS
<1> QED
  BY <1>1, Shapes

(* The slots of one window follow one another, and end at its end. *)
LEMMA OneWindow ==
  ASSUME NEW a \in Window, NEW b \in a .. TotalWorkMinutes,
         NEW k \in DOMAIN SegmentsFor(a, b)
  PROVE  LET g == SegmentsFor(a, b)
         IN  /\ g[k].start \in Int /\ g[k].end \in Int
             /\ \A m \in DOMAIN g : k < m => g[k].end <= g[m].start
<1> DEFINE g == SegmentsFor(a, b)
<1>1. a \in 0 .. 480 /\ b \in 0 .. 480 /\ a <= b
  BY FullDay DEF Window
<1>2. RoundTo5(720) = 720 /\ RoundTo5(780) = 780
  BY DEF RoundTo5
<1>3. CASE b <= 180 /\ g = << Slot(540 + a, 540 + b) >>
  BY <1>1, <1>3, Rounding DEF Slot
<1>4. CASE b > 180 /\ a >= 180 /\ g = << Slot(600 + a, 600 + b) >>
  BY <1>1, <1>4, Rounding DEF Slot
<1>5. CASE b > 180 /\ a < 180 /\ g = << Slot(540 + a, 720), Slot(780, 600 + b) >>
  <2>1. k \in {1, 2} /\ DOMAIN g = {1, 2}
    BY <1>5
  <2>2. RoundTo5(540 + a) \in Int /\ RoundTo5(600 + b) \in Int
    BY <1>1, Rounding
  <2> QED
    BY <1>2, <1>5, <2>1, <2>2 DEF Slot
<1> QED
  BY Shapes, <1>3, <1>4, <1>5

(* A window that ends with the day ends at 18:00. *)
LEMMA EndsTheDay ==
  ASSUME NEW a \in Window
  PROVE  LET g == SegmentsFor(a, TotalWorkMinutes)
         IN  Len(g) \in DOMAIN g /\ g[Len(g)].end = AfternoonEnd
<1> DEFINE g == SegmentsFor(a, 480)
<1>1. 480 \in a .. TotalWorkMinutes /\ AfternoonEnd = 1080 /\ RoundTo5(1080) = 1080
  BY FullDay DEF Window, AfternoonEnd, RoundTo5
<1>2. g = << Slot(600 + a, 600 + 480) >> \/ g = << Slot(540 + a, 720), Slot(780, 600 + 480) >>
  BY <1>1, Shapes
<1>3. CASE g = << Slot(600 + a, 600 + 480) >>
  <2>1. Len(g) = 1 /\ 1 \in DOMAIN g /\ g[1].end = 1080
    BY <1>1, <1>3 DEF Slot
  <2> QED
    BY <1>1, <2>1, FullDay
<1>4. CASE g = << Slot(540 + a, 720), Slot(780, 600 + 480) >>
  <2>1. Len(g) = 2 /\ 2 \in DOMAIN g /\ g[2].end = 1080
    BY <1>1, <1>4 DEF Slot
  <2> QED
    BY <1>1, <2>1, FullDay
<1> QED
  BY <1>2, <1>3, <1>4
=============================================================================
