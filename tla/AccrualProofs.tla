---------------------------- MODULE AccrualProofs ----------------------------
(***************************************************************************)
(* What eligible_harvest_until returns, for every history of snapshots and *)
(* periods: when it succeeds, the number of tokens that is owed window by  *)
(* window, each rounded down.  The two loops are folds over sequences:     *)
(* each proof shows what holds of the accumulator after every step.  Then  *)
(* what an interval pays is compared with what its parts pay, before and   *)
(* after rounding.                                                         *)
(***************************************************************************)
EXTENDS Accrual, HistoryFacts

USE RingLenAssumption, PeriodsLenAssumption, WadAssumption

-----------------------------------------------------------------------------
(* One window.                                                             *)

\* What is known while a window is scanned, with at most n ranges left.
Scans(n) ==
  {st \in [left : Int, until : Int, sum : Int, ok : BOOLEAN, stop : BOOLEAN] :
     st.left <= n /\ (st.ok => st.sum >= 0)}

\* The harvest of a part of a range is not negative.
LEMMA PartType ==
  ASSUME NEW slots \in Int, NEW share \in Nat, NEW tps \in Nat
  PROVE  /\ slots * share * tps \in Int
         /\ slots >= 0 \/ tps = 0 => slots * share * tps >= 0
<1>1. slots * share \in Int /\ (slots >= 0 => slots * share >= 0)
  OBVIOUS
<1>2. \A a \in Int : a * tps \in Int /\ (a >= 0 \/ tps = 0 => a * tps >= 0)
  OBVIOUS
<1>3. QED
  BY <1>1, <1>2

\* Using a range never makes what was harvested negative, unless it fails.
LEMMA UseRangeType ==
  ASSUME NEW n \in Int, NEW st \in Scans(n), NEW r \in Ranges,
         NEW from \in Int, NEW to \in Int, NEW share \in Nat
  PROVE  UseRange(st, r, from, to, share) \in Scans(n)
<1> DEFINE first == Larger(r.from, from)
           last  == Smaller(r.to, st.until)
           part  == (last - first + 1) * share * r.tps
           pops  == PopsRange(r, from)
           left  == IF pops THEN st.left - 1 ELSE st.left
           until == IF pops THEN r.from - 1 ELSE st.until
           ok    == st.ok /\ (r.tps # 0 => first <= last)
           new   == [left |-> left, until |-> until, sum |-> st.sum + part, ok |-> ok,
                     stop |-> ~pops]
<1>1. /\ st \in [left : Int, until : Int, sum : Int, ok : BOOLEAN, stop : BOOLEAN]
      /\ st.left <= n /\ (st.ok => st.sum >= 0)
  BY DEF Scans
<1>2. r.from \in Int /\ r.to \in Int /\ r.tps \in Nat
  BY DEF Ranges
<1>3. first \in Int /\ last \in Int
  BY <1>1, <1>2 DEF Larger, Smaller
<1>4. part \in Int /\ (first <= last \/ r.tps = 0 => part >= 0)
  <2> HIDE DEF first, last
  <2>1. last - first + 1 \in Int /\ (first <= last => last - first + 1 >= 0)
    BY <1>3
  <2>2. QED
    BY <1>2, <2>1, PartType
<1> HIDE DEF part, first, last
<1>5. CASE r.to < from
  <2>1. UseRange(st, r, from, to, share) = [st EXCEPT !.stop = TRUE]
    BY <1>5 DEF UseRange
  <2>2. QED
    BY <1>1, <2>1 DEF Scans
<1>6. CASE ~(r.to < from) /\ r.from > to
  <2>1. UseRange(st, r, from, to, share) = [st EXCEPT !.left = @ - 1]
    BY <1>6 DEF UseRange
  <2>2. QED
    BY <1>1, <2>1 DEF Scans
<1>7. CASE ~(r.to < from) /\ ~(r.from > to)
  <2>1. UseRange(st, r, from, to, share) = new
    BY <1>7 DEF UseRange, part, first, last, left, until, ok, pops
  <2>2. left \in Int /\ left <= n /\ until \in Int
    BY <1>1, <1>2
  <2>3. ok \in BOOLEAN /\ (~pops) \in BOOLEAN
    OBVIOUS
  <2>4. st.sum + part \in Int /\ (ok => st.sum + part >= 0)
    <3>1. ASSUME ok PROVE st.sum >= 0 /\ part >= 0
      BY <1>1, <1>4, <3>1
    <3>2. QED
      BY <1>1, <1>4, <3>1
  <2> HIDE DEF left, until, ok, pops
  <2>5. new \in Scans(n)
    BY <2>2, <2>3, <2>4 DEF Scans
  <2>6. QED
    BY <2>1, <2>5
<1>8. QED
  BY <1>5, <1>6, <1>7

\* The ranges in the order in which a window looks at them, the newest of the
\* ranges that are left first.
LEMMA LeftRanges ==
  ASSUME NEW history \in Seq(Ranges), NEW left \in Int, left <= Len(history)
  PROVE  /\ Reverse(SubSeq(history, 1, left)) \in Seq(Ranges)
         /\ left >= 0 => /\ Len(Reverse(SubSeq(history, 1, left))) = left
                        /\ \A k \in 1 .. left :
                             Reverse(SubSeq(history, 1, left))[k] = history[left - k + 1]
<1> DEFINE part == SubSeq(history, 1, left)
           seq == Reverse(part)
<1>1. \A i \in 1 .. left : history[i] \in Ranges
  BY ElementOfSeq
<1>2. /\ part \in Seq(Ranges)
      /\ left >= 0 => Len(part) = left /\ \A i \in 1 .. left : part[i] = history[i]
  BY <1>1, SubSeqProperties
<1> HIDE DEF part
<1>3. Len(part) \in Nat /\ \A i \in 1 .. Len(part) : Len(part) - i + 1 \in 1 .. Len(part)
  BY <1>2, LenProperties
<1>4. \A i \in 1 .. Len(part) : part[Len(part) - i + 1] \in Ranges
  BY <1>2, <1>3, ElementOfSeq
<1>5. seq = [i \in 1 .. Len(part) |-> part[Len(part) - i + 1]]
  BY DEF Reverse
<1> HIDE DEF seq
<1>6. seq \in Seq(Ranges) /\ Len(seq) = Len(part)
  BY <1>3, <1>4, <1>5
<1>7. ASSUME left >= 0 PROVE \A k \in 1 .. left : seq[k] = history[left - k + 1]
  BY <1>2, <1>5, <1>7
<1>8. QED
  BY <1>2, <1>6, <1>7 DEF seq, part

\* What is known after each range of a window.
ScansBySteps(h, history, left, from, to, share) ==
  LET seq == Reverse(SubSeq(history, 1, left))
  IN  /\ h[0] = [left |-> left, until |-> to, sum |-> 0, ok |-> TRUE, stop |-> FALSE]
      /\ h[Len(seq)] = ScanWindow(history, left, from, to, share)
      /\ \A k \in 0 .. Len(seq) : h[k] \in Scans(left)
      /\ \A k \in 1 .. Len(seq) :
           h[k] = IF h[k - 1].stop THEN h[k - 1] ELSE UseRange(h[k - 1], seq[k], from, to, share)

\* The scan of a window, range by range.
LEMMA ScanBySteps ==
  ASSUME NEW history \in Seq(Ranges), NEW left \in Int, left <= Len(history),
         NEW from \in Int, NEW to \in Int, NEW share \in Nat
  PROVE  \E h : ScansBySteps(h, history, left, from, to, share)
<1> DEFINE seq == Reverse(SubSeq(history, 1, left))
           n == Len(seq)
           Y == Scans(left)
           Use(st, r) == IF st.stop THEN st ELSE UseRange(st, r, from, to, share)
           base == [left |-> left, until |-> to, sum |-> 0, ok |-> TRUE, stop |-> FALSE]
           op == [p \in Ranges \X Y |-> Use(p[2], p[1])]
           Rule(g) == g = [s \in SUBSET DOMAIN seq |->
                             IF s = {} THEN base ELSE Use(g[s \ {Max(s)}], seq[Max(s)])]
           all == CHOOSE g : Rule(g)
           h == [k \in 0 .. n |-> all[1 .. k]]
<1>1. seq \in Seq(Ranges) /\ DOMAIN seq = 1 .. n /\ n \in Nat
  BY LeftRanges, LenProperties
<1>2. ScanWindow(history, left, from, to, share) = all[DOMAIN seq]
  BY DEF ScanWindow, FoldLeft, MapThenFoldSet
<1>3. \A st \in Y, r \in Ranges : Use(st, r) \in Y
  BY UseRangeType
<1>4. base \in Y
  BY DEF Scans
<1> HIDE DEF seq, Use, base, Y
<1>5. /\ op \in StepsOf(Ranges, Y)
      /\ \A r \in Ranges, st \in Y : op[<<r, st>>] = Use(st, r)
  BY <1>3 DEF StepsOf
<1> HIDE DEF op
<1>6. \A s \in SUBSET (1 .. Len(seq)) : s # {} => Max(s) \in s /\ seq[Max(s)] \in Ranges
  BY <1>1, LastIndexIsLeft, ElementOfSeq
<1>7. \E g : Rule(g)
  <2>1. PICK g \in [SUBSET (1 .. Len(seq)) -> Y] : IsSequenceFold(op, base, seq, g)
    BY <1>1, <1>4, <1>5, SequenceFoldExists
  <2>2. ASSUME NEW s \in SUBSET (1 .. Len(seq))
        PROVE  g[s] = IF s = {} THEN base ELSE Use(g[s \ {Max(s)}], seq[Max(s)])
    <3>1. s # {} => g[s \ {Max(s)}] \in Y /\ seq[Max(s)] \in Ranges
      BY <1>6, <2>1
    <3>2. g[s] = IF s = {} THEN base ELSE op[<<seq[Max(s)], g[s \ {Max(s)}]>>]
      BY <2>1 DEF IsSequenceFold
    <3>3. QED
      BY <1>5, <3>1, <3>2
  <2>3. Rule(g)
    BY <1>1, <2>1, <2>2
  <2>4. QED
    BY <2>3
<1>8. Rule(all)
  BY <1>7
<1> HIDE DEF all
<1>9. \A s \in SUBSET (1 .. n) :
        all[s] = IF s = {} THEN base ELSE Use(all[s \ {Max(s)}], seq[Max(s)])
  BY <1>1, <1>8
<1>10. h[0] = base
  <2>1. 1 .. 0 = {} /\ 0 \in 0 .. n
    BY <1>1
  <2>2. all[{}] = base
    BY <1>9
  <2>3. QED
    BY <2>1, <2>2
<1>11. \A k \in 1 .. n : h[k] = Use(h[k - 1], seq[k])
  <2>1. TAKE k \in 1 .. n
  <2>2. /\ 1 .. k \in SUBSET (1 .. n) /\ 1 .. k # {} /\ (1 .. k) \ {k} = 1 .. (k - 1)
        /\ k \in 0 .. n /\ k - 1 \in 0 .. n /\ Max(1 .. k) = k
    BY <1>1, FirstIndices
  <2> HIDE DEF n
  <2>3. all[1 .. k] = Use(all[1 .. (k - 1)], seq[k])
    BY <1>9, <2>2
  <2>4. QED
    BY <2>2, <2>3
<1>12. h[n] = ScanWindow(history, left, from, to, share)
  BY <1>1, <1>2
<1> HIDE DEF h
<1>13. \A k \in 0 .. n : h[k] \in Y
  <2> DEFINE T == {k \in Nat : k \in 0 .. n => h[k] \in Y}
  <2>1. 0 \in T
    BY <1>4, <1>10
  <2>2. ASSUME NEW k \in T PROVE k + 1 \in T
    <3>1. SUFFICES ASSUME k + 1 \in 0 .. n PROVE h[k + 1] \in Y
      OBVIOUS
    <3>2. k \in 0 .. n /\ k + 1 \in 1 .. n /\ (k + 1) - 1 = k
      BY <1>1, <3>1
    <3>3. h[k] \in Y /\ h[k + 1] = Use(h[k], seq[k + 1]) /\ seq[k + 1] \in Ranges
      BY <1>1, <1>11, <3>2, ElementOfSeq
    <3>4. QED
      BY <1>3, <3>3
  <2>3. T = Nat
    <3> HIDE DEF T
    <3>1. T \subseteq Nat
      BY DEF T
    <3>2. QED
      BY <2>1, <2>2, <3>1, SetInduction
  <2>4. QED
    BY <1>1, <2>3
<1>14. ScansBySteps(h, history, left, from, to, share)
  BY <1>10, <1>11, <1>12, <1>13 DEF ScansBySteps, seq, Y, Use, base
<1>15. QED
  BY <1>14

\* The scan of a window.
LEMMA ScanWindowType ==
  ASSUME NEW history \in Seq(Ranges), NEW left \in Int, left <= Len(history),
         NEW from \in Int, NEW to \in Int, NEW share \in Nat
  PROVE  ScanWindow(history, left, from, to, share) \in Scans(left)
<1> DEFINE n == Len(Reverse(SubSeq(history, 1, left)))
<1>1. PICK h : ScansBySteps(h, history, left, from, to, share)
  BY ScanBySteps
<1>2. n \in 0 .. n
  BY LeftRanges, LenProperties
<1>3. QED
  BY <1>1, <1>2 DEF ScansBySteps

-----------------------------------------------------------------------------
(* One window pays what was released in it.                                *)

\* The last slot of the first k ranges.
EndOf(history, k) == IF k = 0 THEN 0 ELSE history[k].to

\* What the history tells about one of its ranges.
LEMMA ToldRange ==
  ASSUME NEW history, NEW ps, NEW last, Tells(history, ps, last), NEW k \in 1 .. Len(history)
  PROVE  /\ history[k] \in Ranges /\ history[k].from \in Nat \ {0} /\ history[k].to \in Nat
         /\ history[k].from <= history[k].to
         /\ EndOf(history, k) = history[k].to /\ EndOf(history, k - 1) = history[k].from - 1
         /\ \A s \in history[k].from .. history[k].to : history[k].tps = TpsAt(ps, s)
<1> DEFINE T == {i \in Nat : i \in 0 .. Len(history) => EndOf(history, i) \in Nat}
<1>1. /\ history \in Seq(Ranges) /\ Len(history) \in Nat
      /\ \A i \in 1 .. Len(history) : history[i] \in Ranges
  BY LenProperties, ElementOfSeq DEF Tells
<1>2. ASSUME NEW i \in 1 .. Len(history)
      PROVE  /\ history[i].from \in Int /\ history[i].to \in Int /\ history[i].from <= history[i].to
             /\ EndOf(history, i) = history[i].to /\ EndOf(history, i - 1) = history[i].from - 1
  <2>1. /\ history[i].from = IF i = 1 THEN 1 ELSE history[i - 1].to + 1
        /\ history[i].from <= history[i].to
    BY DEF Tells
  <2>2. history[i].from \in Int /\ history[i].to \in Int
    BY <1>1 DEF Ranges
  <2>3. i # 0 /\ (i = 1 <=> i - 1 = 0)
    OBVIOUS
  <2>4. i # 1 => history[i - 1].to \in Int
    <3>1. i # 1 => i - 1 \in 1 .. Len(history)
      BY <1>1
    <3>2. QED
      BY <1>1, <3>1 DEF Ranges
  <2>5. QED
    BY <2>1, <2>2, <2>3, <2>4 DEF EndOf
<1>3. 0 \in T
  BY DEF EndOf
<1>4. ASSUME NEW i \in T PROVE i + 1 \in T
  <2>1. SUFFICES ASSUME i + 1 \in 0 .. Len(history) PROVE EndOf(history, i + 1) \in Nat
    OBVIOUS
  <2>2. i \in 0 .. Len(history) /\ i + 1 \in 1 .. Len(history) /\ (i + 1) - 1 = i
    BY <1>1, <2>1
  <2>3. EndOf(history, i) \in Nat
    BY <2>2
  <2> DEFINE j == i + 1
  <2>4. j \in 1 .. Len(history) /\ j - 1 = i
    BY <2>2
  <2> HIDE DEF j
  <2>5. /\ history[j].from \in Int /\ history[j].to \in Int /\ history[j].from <= history[j].to
        /\ EndOf(history, j) = history[j].to /\ EndOf(history, i) = history[j].from - 1
    BY <1>2, <2>4
  <2>6. EndOf(history, j) \in Nat
    BY <2>3, <2>5
  <2>7. QED
    BY <2>6 DEF j
<1>5. T = Nat
  <2> HIDE DEF T
  <2>1. T \subseteq Nat
    BY DEF T
  <2>2. QED
    BY <1>3, <1>4, <2>1, SetInduction
<1>6. k - 1 \in Nat /\ k - 1 \in 0 .. Len(history)
  BY <1>1
<1>7. EndOf(history, k - 1) \in Nat
  BY <1>5, <1>6
<1>8. /\ history[k].from \in Int /\ history[k].to \in Int /\ history[k].from <= history[k].to
      /\ EndOf(history, k) = history[k].to /\ EndOf(history, k - 1) = history[k].from - 1
  BY <1>2
<1>9. history[k].from \in Nat \ {0} /\ history[k].to \in Nat
  BY <1>7, <1>8
<1>10. \A s \in history[k].from .. history[k].to : history[k].tps = TpsAt(ps, s)
  BY DEF Tells
<1>11. QED
  BY <1>1, <1>8, <1>9, <1>10

\* The scan of [from, to] has j ranges to go, and what it summed up is what was
\* released after them.
ScanIsAt(st, history, ps, j, from, to, share) ==
  /\ EndOf(history, j) >= from - 1
  /\ st = [left  |-> j,
           until |-> Smaller(EndOf(history, j), to),
           sum   |-> share * Emitted(ps, Smaller(EndOf(history, j), to) + 1, to),
           ok    |-> TRUE,
           stop  |-> FALSE]

\* The whole window is summed up, and the ranges that are left cover the
\* slots before it.
ScanIsDone(st, history, ps, from, to, share) ==
  /\ st.ok = TRUE
  /\ st.sum = share * Emitted(ps, from, to)
  /\ st.left \in 0 .. Len(history) /\ EndOf(history, st.left) >= from - 1

\* One more range.
LEMMA UseRangeExact ==
  ASSUME NEW ps \in Periods, NEW history, NEW last, Tells(history, ps, last),
         NEW j \in 1 .. Len(history), NEW from \in Nat \ {0}, NEW to \in Nat, from <= to,
         NEW share \in Nat, NEW st, ScanIsAt(st, history, ps, j, from, to, share)
  PROVE  \/ ScanIsAt(UseRange(st, history[j], from, to, share), history, ps, j - 1, from, to, share)
         \/ /\ UseRange(st, history[j], from, to, share).stop
            /\ ScanIsDone(UseRange(st, history[j], from, to, share), history, ps, from, to, share)
<1> DEFINE r == history[j]
           a == Larger(r.from, from)
           z == Smaller(r.to, to)
           new == UseRange(st, r, from, to, share)
<1>1. /\ r \in Ranges /\ r.from \in Nat \ {0} /\ r.to \in Nat /\ r.tps \in Nat /\ r.from <= r.to
      /\ EndOf(history, j) = r.to /\ EndOf(history, j - 1) = r.from - 1
  BY ToldRange DEF Ranges
<1>2. \A s \in r.from .. r.to : TpsAt(ps, s) = r.tps
  BY ToldRange
<1>3. j \in 0 .. Len(history)
  <2>1. Len(history) \in Nat
    BY LenProperties DEF Tells
  <2>2. QED
    BY <2>1
<1> HIDE DEF r
<1>4. /\ st = [left |-> j, until |-> z, sum |-> share * Emitted(ps, z + 1, to),
               ok |-> TRUE, stop |-> FALSE]
      /\ r.to >= from - 1
  BY <1>1 DEF ScanIsAt
<1>5. Smaller(r.to, z) = z /\ z \in Int /\ a \in Int
  BY <1>1 DEF Smaller, Larger
<1>6. CASE r.to < from
  <2>1. new = [st EXCEPT !.stop = TRUE]
    BY <1>6 DEF UseRange
  <2>2. z + 1 = from
    BY <1>1, <1>4, <1>6 DEF Smaller
  <2>3. new.stop /\ new.ok = TRUE /\ new.left = j /\ new.sum = share * Emitted(ps, from, to)
    BY <1>4, <2>1, <2>2
  <2> HIDE DEF new
  <2>4. ScanIsDone(new, history, ps, from, to, share)
    BY <1>1, <1>3, <1>4, <2>3 DEF ScanIsDone
  <2>5. QED
    BY <2>3, <2>4 DEF new, r
<1>7. CASE ~(r.to < from) /\ r.from > to
  <2>1. new = [st EXCEPT !.left = @ - 1]
    BY <1>7 DEF UseRange
  <2>2. z = to /\ Smaller(r.from - 1, to) = to /\ r.from - 1 >= from - 1
    BY <1>1, <1>7 DEF Smaller
  <2>3. new = [left |-> j - 1, until |-> to, sum |-> share * Emitted(ps, to + 1, to),
               ok |-> TRUE, stop |-> FALSE]
    BY <1>4, <2>1, <2>2
  <2> HIDE DEF new
  <2>4. ScanIsAt(new, history, ps, j - 1, from, to, share)
    BY <1>1, <2>2, <2>3 DEF ScanIsAt
  <2>5. QED
    BY <2>4 DEF new, r
<1>8. CASE ~(r.to < from) /\ ~(r.from > to)
  <2> DEFINE pops == PopsRange(r, from)
             sum == share * Emitted(ps, a, to)
  <2>1. a <= z /\ z <= to /\ r.from <= a /\ z <= r.to /\ a <= z + 1 /\ z + 1 <= to + 1
    BY <1>1, <1>8 DEF Larger, Smaller
  <2>2. Emitted(ps, a, z) = (z - a + 1) * r.tps
    <3>1. \A s \in a .. z : TpsAt(ps, s) = r.tps
      <4> HIDE DEF a, z
      <4>1. \A s \in a .. z : s \in r.from .. r.to
        BY <1>1, <1>5, <2>1
      <4>2. QED
        BY <1>2, <4>1
    <3>2. a \in Int /\ z \in Int /\ a <= z + 1 /\ r.tps \in Nat
      BY <1>1, <1>5, <2>1
    <3> HIDE DEF a, z
    <3>3. QED
      BY <3>1, <3>2, EmittedAtRate
  <2>3. Emitted(ps, a, to) = Emitted(ps, a, z) + Emitted(ps, z + 1, to)
    <3>1. z + 1 \in Int /\ (z + 1) - 1 = z
      BY <1>5
    <3>2. QED
      BY <1>5, <2>1, <3>1, EmittedJoins
  <2>4. share * Emitted(ps, z + 1, to) + (z - a + 1) * share * r.tps = sum
    <3> DEFINE e1 == Emitted(ps, a, z)
               e2 == Emitted(ps, z + 1, to)
               n == z - a + 1
    <3>1. e1 \in Nat /\ e2 \in Nat /\ n \in Int
      BY <1>5, EmittedType
    <3>2. e1 = n * r.tps /\ sum = share * (e1 + e2)
      BY <2>2, <2>3
    <3> HIDE DEF e1, e2, n, sum
    <3>3. share * (e1 + e2) = share * e1 + share * e2
      BY <3>1
    <3>4. \A x, y \in Int : x * share * y = share * (x * y)
      OBVIOUS
    <3>5. n * share * r.tps = share * (n * r.tps)
      BY <1>1, <3>1, <3>4
    <3>6. share * e1 \in Int /\ share * e2 \in Int
      BY <3>1
    <3>7. share * e2 + n * share * r.tps = sum
      <4> DEFINE p1 == share * e1
                 p2 == share * e2
                 p3 == n * share * r.tps
      <4>1. p3 = p1 /\ sum = p1 + p2 /\ p1 \in Int /\ p2 \in Int
        BY <3>2, <3>3, <3>5, <3>6
      <4> HIDE DEF p1, p2, p3
      <4>2. p2 + p3 = sum
        BY <4>1
      <4>3. QED
        BY <4>2 DEF p2, p3
    <3>8. QED
      BY <3>7 DEF e2, n
  <2>5. new = [left |-> IF pops THEN j - 1 ELSE j, until |-> IF pops THEN r.from - 1 ELSE z,
               sum |-> sum, ok |-> TRUE, stop |-> ~pops]
    <3>1. new = [left  |-> IF pops THEN st.left - 1 ELSE st.left,
                 until |-> IF pops THEN r.from - 1 ELSE st.until,
                 sum   |-> st.sum + (Smaller(r.to, st.until) - a + 1) * share * r.tps,
                 ok    |-> st.ok /\ (r.tps # 0 => a <= Smaller(r.to, st.until)),
                 stop  |-> ~pops]
      BY <1>8 DEF UseRange
    <3>2. Smaller(r.to, st.until) = z
      BY <1>4, <1>5
    <3> HIDE DEF new, a, z, pops, sum
    <3>3. st.left = j /\ st.until = z /\ st.sum = share * Emitted(ps, z + 1, to) /\ st.ok = TRUE
      BY <1>4
    <3>4. st.sum + (Smaller(r.to, st.until) - a + 1) * share * r.tps = sum
      BY <2>4, <3>2, <3>3
    <3>5. (st.ok /\ (r.tps # 0 => a <= Smaller(r.to, st.until))) = TRUE
      BY <2>1, <3>2, <3>3
    <3>6. QED
      BY <3>1, <3>3, <3>4, <3>5
  <2> HIDE DEF new
  <2>6. CASE pops
    <3>1. r.from >= from /\ a = r.from
      BY <1>1, <2>6 DEF PopsRange, Larger
    <3>2. Smaller(r.from - 1, to) = r.from - 1 /\ (r.from - 1) + 1 = a /\ r.from - 1 >= from - 1
      BY <1>1, <1>8, <3>1 DEF Smaller
    <3>3. new = [left |-> j - 1, until |-> r.from - 1, sum |-> sum, ok |-> TRUE, stop |-> FALSE]
      BY <2>5, <2>6
    <3>4. ScanIsAt(new, history, ps, j - 1, from, to, share)
      BY <1>1, <3>2, <3>3 DEF ScanIsAt
    <3>5. QED
      BY <3>4 DEF new, r
  <2>7. CASE ~pops
    <3>1. a = from
      BY <1>1, <2>7 DEF PopsRange, Larger
    <3>2. new.stop /\ new.ok = TRUE /\ new.left = j /\ new.sum = share * Emitted(ps, from, to)
      BY <2>5, <2>7, <3>1
    <3>3. ScanIsDone(new, history, ps, from, to, share)
      BY <1>1, <1>3, <1>4, <3>2 DEF ScanIsDone
    <3>4. QED
      BY <3>2, <3>3 DEF new, r
  <2>8. QED
    BY <2>6, <2>7
<1>9. QED
  BY <1>6, <1>7, <1>8

\* The whole window, when the ranges that are left cover it.
LEMMA ScanWindowExact ==
  ASSUME NEW ps \in Periods, NEW history, NEW last, Tells(history, ps, last),
         NEW left \in 0 .. Len(history), NEW from \in Nat \ {0}, NEW to \in Nat, from <= to,
         EndOf(history, left) >= to, NEW share \in Nat
  PROVE  ScanIsDone(ScanWindow(history, left, from, to, share), history, ps, from, to, share)
<1> DEFINE seq == Reverse(SubSeq(history, 1, left))
           At(st, j) == ScanIsAt(st, history, ps, j, from, to, share)
           Done(st) == ScanIsDone(st, history, ps, from, to, share)
<1>1. history \in Seq(Ranges) /\ Len(history) \in Nat /\ left \in Int /\ left <= Len(history) /\ left >= 0
  BY LenProperties DEF Tells
<1>2. Len(seq) = left /\ \A k \in 1 .. left : seq[k] = history[left - k + 1]
  BY <1>1, LeftRanges
<1>3. PICK h : ScansBySteps(h, history, left, from, to, share)
  <2>1. from \in Int /\ to \in Int
    OBVIOUS
  <2>2. QED
    BY <1>1, <2>1, ScanBySteps
<1>4. /\ h[0] = [left |-> left, until |-> to, sum |-> 0, ok |-> TRUE, stop |-> FALSE]
      /\ h[left] = ScanWindow(history, left, from, to, share)
      /\ \A k \in 1 .. left :
           h[k] = IF h[k - 1].stop THEN h[k - 1]
                  ELSE UseRange(h[k - 1], history[left - k + 1], from, to, share)
  BY <1>2, <1>3 DEF ScansBySteps
<1> HIDE DEF seq
<1>5. EndOf(history, left) \in Int
  <2>1. left # 0 => history[left].to \in Nat
    BY <1>1, ToldRange
  <2>2. QED
    BY <2>1 DEF EndOf
<1> DEFINE Fine(k) == At(h[k], left - k) \/ (h[k].stop /\ Done(h[k]))
           T == {k \in Nat : k \in 0 .. left => Fine(k)}
<1>6. 0 \in T
  <2>1. Smaller(EndOf(history, left), to) = to /\ EndOf(history, left) >= from - 1
    BY <1>5 DEF Smaller
  <2>2. Emitted(ps, to + 1, to) = 0
    BY EmittedType
  <2>3. share * 0 = 0
    OBVIOUS
  <2>4. h[0] = [left  |-> left, until |-> Smaller(EndOf(history, left), to),
                sum   |-> share * Emitted(ps, Smaller(EndOf(history, left), to) + 1, to),
                ok    |-> TRUE, stop  |-> FALSE]
    BY <1>4, <2>1, <2>2, <2>3
  <2>5. ScanIsAt(h[0], history, ps, left, from, to, share)
    BY <2>1, <2>4 DEF ScanIsAt
  <2>6. left - 0 = left
    OBVIOUS
  <2>7. QED
    BY <2>5, <2>6
<1>7. ASSUME NEW k \in T PROVE k + 1 \in T
  <2>1. SUFFICES ASSUME k + 1 \in 0 .. left PROVE Fine(k + 1)
    OBVIOUS
  <2>2. /\ k \in 0 .. left /\ k + 1 \in 1 .. left /\ (k + 1) - 1 = k
        /\ left - (k + 1) + 1 = left - k /\ left - (k + 1) = (left - k) - 1
        /\ left - k \in 1 .. Len(history)
    BY <1>1, <2>1
  <2>3. h[k + 1] = IF h[k].stop THEN h[k] ELSE UseRange(h[k], history[left - k], from, to, share)
    BY <1>4, <2>2
  <2>4. CASE h[k].stop /\ Done(h[k])
    BY <2>3, <2>4
  <2>5. CASE At(h[k], left - k)
    <3>1. ~h[k].stop
      BY <2>5 DEF ScanIsAt
    <3>2. h[k + 1] = UseRange(h[k], history[left - k], from, to, share)
      BY <2>3, <3>1
    <3> DEFINE j == left - k
    <3>3. j \in 1 .. Len(history) /\ At(h[k], j)
      BY <2>2, <2>5
    <3> HIDE DEF j
    <3>4. \/ At(UseRange(h[k], history[j], from, to, share), j - 1)
          \/ /\ UseRange(h[k], history[j], from, to, share).stop
             /\ Done(UseRange(h[k], history[j], from, to, share))
      BY <3>3, UseRangeExact
    <3>5. QED
      BY <2>2, <3>2, <3>4 DEF j
  <2>6. QED
    BY <2>2, <2>4, <2>5
<1>8. T = Nat
  <2> HIDE DEF T
  <2>1. T \subseteq Nat
    BY DEF T
  <2>2. QED
    BY <1>6, <1>7, <2>1, SetInduction
<1>9. left \in Nat /\ left \in 0 .. left /\ left - left = 0
  BY <1>1
<1>10. \/ At(h[left], 0)
       \/ Done(h[left])
  BY <1>8, <1>9
<1>11. CASE At(h[left], 0)
  <2>1. EndOf(history, 0) = 0
    BY DEF EndOf
  <2>2. from = 1 /\ Smaller(0, to) = 0
    BY <1>11, <2>1 DEF ScanIsAt, Smaller
  <2>3. h[left].ok = TRUE /\ h[left].left = 0 /\ h[left].sum = share * Emitted(ps, from, to)
    BY <1>11, <2>1, <2>2 DEF ScanIsAt
  <2>4. Done(h[left])
    BY <1>1, <2>1, <2>2, <2>3 DEF ScanIsDone
  <2>5. QED
    BY <1>4, <2>4
<1>12. QED
  BY <1>4, <1>10, <1>11

-----------------------------------------------------------------------------
(* All windows.                                                            *)

\* What is known between windows, with at most n ranges left.
Harvests(n) ==
  {st \in [left : Int, skip : Int, tokens : Int, ok : BOOLEAN] :
     st.left <= n /\ (st.ok => st.tokens >= 0)}

\* A farmer's share of a stake that is not zero.
LEMMA ShareType ==
  ASSUME NEW staked \in Nat, NEW total \in Nat \ {0}
  PROVE  Share(staked, total) \in Nat
<1>1. staked * Wad \in Nat
  OBVIOUS
<1>2. \A a \in Nat : a \div total \in Nat
  OBVIOUS
<1>3. QED
  BY <1>1, <1>2 DEF Share

\* A window never makes the harvest negative, unless it fails.
LEMMA UseSnapshotType ==
  ASSUME NEW history \in Seq(Ranges), NEW st \in Harvests(Len(history)), NEW s \in Snapshot,
         NEW since \in Nat, NEW staked \in Nat
  PROVE  UseSnapshot(st, s, history, since, staked) \in Harvests(Len(history))
<1> DEFINE n == Len(history)
           w == ScanWindow(history, st.left, WindowStart(s, since), st.skip - 1,
                           Share(staked, s.staked))
<1>1. /\ st \in [left : Int, skip : Int, tokens : Int, ok : BOOLEAN]
      /\ st.left <= n /\ (st.ok => st.tokens >= 0)
  BY DEF Harvests
<1>2. s.staked \in Nat /\ s.startedAt \in Nat
  BY DEF Snapshot, Slot
<1>3. n \in Nat
  BY LenProperties
<1>4. CASE s.staked = 0
  <2>1. UseSnapshot(st, s, history, since, staked) = [st EXCEPT !.skip = s.startedAt]
    BY <1>4 DEF UseSnapshot
  <2> DEFINE new == [st EXCEPT !.skip = s.startedAt]
  <2>2. s.startedAt \in Int
    BY <1>2
  <2>3. new.left = st.left /\ new.ok = st.ok /\ new.tokens = st.tokens
    BY <1>1
  <2>4. new \in [left : Int, skip : Int, tokens : Int, ok : BOOLEAN]
    BY <1>1, <2>2
  <2> HIDE DEF new
  <2>5. new \in Harvests(n)
    BY <1>1, <2>3, <2>4 DEF Harvests
  <2>6. QED
    BY <2>1, <2>5 DEF new
<1>5. CASE s.staked # 0
  <2>1. UseSnapshot(st, s, history, since, staked) = AddWindow(st, s, w)
    BY <1>5 DEF UseSnapshot
  <2>2. WindowStart(s, since) \in Int /\ Share(staked, s.staked) \in Nat /\ st.skip - 1 \in Int
    <3>1. s.staked \in Nat \ {0}
      BY <1>2, <1>5
    <3>2. Share(staked, s.staked) \in Nat
      BY <3>1, ShareType
    <3>3. QED
      BY <1>1, <1>2, <3>2 DEF WindowStart, Larger
  <2>3. w \in Scans(st.left)
    <3>1. st.left \in Int /\ st.left <= Len(history)
      BY <1>1
    <3>2. QED
      BY <2>2, <3>1, ScanWindowType
  <2> HIDE DEF w
  <2>4. /\ w.left \in Int /\ w.sum \in Int /\ w.ok \in BOOLEAN
        /\ w.left <= st.left /\ (w.ok => w.sum >= 0)
    BY <2>3 DEF Scans
  <2>5. w.left <= n
    BY <1>1, <1>3, <2>4
  <2>6. \A a \in Int : a \div Wad \in Int /\ (a >= 0 => a \div Wad >= 0)
    OBVIOUS
  <2> DEFINE tokens == st.tokens + w.sum \div Wad
             ok == st.ok /\ w.ok
  <2>7. tokens \in Int /\ (ok => tokens >= 0)
    <3> DEFINE more == w.sum \div Wad
    <3>1. more \in Int /\ (w.sum >= 0 => more >= 0)
      BY <2>4, <2>6
    <3> HIDE DEF more
    <3>2. tokens = st.tokens + more /\ st.tokens \in Int
      BY <1>1 DEF more
    <3>3. ASSUME ok PROVE st.tokens >= 0 /\ more >= 0
      BY <1>1, <2>4, <3>1, <3>3
    <3> HIDE DEF tokens, ok
    <3>4. QED
      BY <3>1, <3>2, <3>3
  <2>8. ok \in BOOLEAN
    OBVIOUS
  <2>9. AddWindow(st, s, w) = [left |-> w.left, skip |-> s.startedAt, tokens |-> tokens, ok |-> ok]
    BY DEF AddWindow
  <2> HIDE DEF tokens, ok
  <2>10. QED
    BY <1>2, <2>1, <2>4, <2>5, <2>7, <2>8, <2>9 DEF Harvests
<1>6. QED
  BY <1>4, <1>5

\* What is known after each snapshot.
HarvestsBySteps(h, history, seq, since, until, staked) ==
  /\ h[0] = [left |-> Len(history), skip |-> until + 1, tokens |-> 0, ok |-> TRUE]
  /\ h[Len(seq)] = HarvestOver(history, seq, since, until, staked)
  /\ \A k \in 0 .. Len(seq) : h[k] \in Harvests(Len(history))
  /\ \A k \in 1 .. Len(seq) :
       h[k] = IF OpenedBy(seq[k], until)
                THEN UseSnapshot(h[k - 1], seq[k], history, since, staked) ELSE h[k - 1]

\* The harvest of a ring, snapshot by snapshot.
LEMMA HarvestBySteps ==
  ASSUME NEW history \in Seq(Ranges), NEW seq \in Seq(Snapshot),
         NEW since \in Nat, NEW until \in Int, NEW staked \in Nat
  PROVE  \E h : HarvestsBySteps(h, history, seq, since, until, staked)
<1> DEFINE n == Len(seq)
           Y == Harvests(Len(history))
           Use(st, s) == IF OpenedBy(s, until)
                           THEN UseSnapshot(st, s, history, since, staked) ELSE st
           base == [left |-> Len(history), skip |-> until + 1, tokens |-> 0, ok |-> TRUE]
           op == [p \in Snapshot \X Y |-> Use(p[2], p[1])]
           Rule(g) == g = [s \in SUBSET DOMAIN seq |->
                             IF s = {} THEN base ELSE Use(g[s \ {Max(s)}], seq[Max(s)])]
           all == CHOOSE g : Rule(g)
           h == [k \in 0 .. n |-> all[1 .. k]]
<1>1. DOMAIN seq = 1 .. n /\ n \in Nat
  BY LenProperties
<1>2. HarvestOver(history, seq, since, until, staked) = all[DOMAIN seq]
  BY DEF HarvestOver, FoldLeft, MapThenFoldSet
<1>3. \A st \in Y, s \in Snapshot : Use(st, s) \in Y
  BY UseSnapshotType
<1>4. base \in Y
  <2>1. Len(history) \in Nat /\ until + 1 \in Int
    BY LenProperties
  <2>2. QED
    BY <2>1 DEF Harvests
<1> HIDE DEF Use, base, Y
<1>5. /\ op \in StepsOf(Snapshot, Y)
      /\ \A s \in Snapshot, st \in Y : op[<<s, st>>] = Use(st, s)
  BY <1>3 DEF StepsOf
<1> HIDE DEF op
<1>6. \A s \in SUBSET (1 .. Len(seq)) : s # {} => Max(s) \in s /\ seq[Max(s)] \in Snapshot
  BY <1>1, LastIndexIsLeft, ElementOfSeq
<1>7. \E g : Rule(g)
  <2>1. PICK g \in [SUBSET (1 .. Len(seq)) -> Y] : IsSequenceFold(op, base, seq, g)
    BY <1>1, <1>4, <1>5, SequenceFoldExists
  <2>2. ASSUME NEW s \in SUBSET (1 .. Len(seq))
        PROVE  g[s] = IF s = {} THEN base ELSE Use(g[s \ {Max(s)}], seq[Max(s)])
    <3>1. s # {} => g[s \ {Max(s)}] \in Y /\ seq[Max(s)] \in Snapshot
      BY <1>6, <2>1
    <3>2. g[s] = IF s = {} THEN base ELSE op[<<seq[Max(s)], g[s \ {Max(s)}]>>]
      BY <2>1 DEF IsSequenceFold
    <3>3. QED
      BY <1>5, <3>1, <3>2
  <2>3. Rule(g)
    BY <1>1, <2>1, <2>2
  <2>4. QED
    BY <2>3
<1>8. Rule(all)
  BY <1>7
<1> HIDE DEF all
<1>9. \A s \in SUBSET (1 .. n) :
        all[s] = IF s = {} THEN base ELSE Use(all[s \ {Max(s)}], seq[Max(s)])
  BY <1>1, <1>8
<1>10. h[0] = base
  <2>1. 1 .. 0 = {} /\ 0 \in 0 .. n
    BY <1>1
  <2>2. all[{}] = base
    BY <1>9
  <2>3. QED
    BY <2>1, <2>2
<1>11. \A k \in 1 .. n : h[k] = Use(h[k - 1], seq[k])
  <2>1. TAKE k \in 1 .. n
  <2>2. /\ 1 .. k \in SUBSET (1 .. n) /\ 1 .. k # {} /\ (1 .. k) \ {k} = 1 .. (k - 1)
        /\ k \in 0 .. n /\ k - 1 \in 0 .. n /\ Max(1 .. k) = k
    BY <1>1, FirstIndices
  <2> HIDE DEF n
  <2>3. all[1 .. k] = Use(all[1 .. (k - 1)], seq[k])
    BY <1>9, <2>2
  <2>4. QED
    BY <2>2, <2>3
<1>12. h[n] = HarvestOver(history, seq, since, until, staked)
  BY <1>1, <1>2
<1> HIDE DEF h
<1>13. \A k \in 0 .. n : h[k] \in Y
  <2> DEFINE T == {k \in Nat : k \in 0 .. n => h[k] \in Y}
  <2>1. 0 \in T
    BY <1>4, <1>10
  <2>2. ASSUME NEW k \in T PROVE k + 1 \in T
    <3>1. SUFFICES ASSUME k + 1 \in 0 .. n PROVE h[k + 1] \in Y
      OBVIOUS
    <3>2. k \in 0 .. n /\ k + 1 \in 1 .. n /\ (k + 1) - 1 = k
      BY <1>1, <3>1
    <3>3. h[k] \in Y /\ h[k + 1] = Use(h[k], seq[k + 1]) /\ seq[k + 1] \in Snapshot
      BY <1>1, <1>11, <3>2, ElementOfSeq
    <3>4. QED
      BY <1>3, <3>3
  <2>3. T = Nat
    <3> HIDE DEF T
    <3>1. T \subseteq Nat
      BY DEF T
    <3>2. QED
      BY <2>1, <2>2, <3>1, SetInduction
  <2>4. QED
    BY <1>1, <2>3
<1>14. HarvestsBySteps(h, history, seq, since, until, staked)
  BY <1>10, <1>11, <1>12, <1>13 DEF HarvestsBySteps, Y, Use, base
<1>15. QED
  BY <1>14

\* The harvest of all windows.
LEMMA HarvestOverType ==
  ASSUME NEW history \in Seq(Ranges), NEW seq \in Seq(Snapshot),
         NEW since \in Nat, NEW until \in Int, NEW staked \in Nat
  PROVE  HarvestOver(history, seq, since, until, staked) \in Harvests(Len(history))
<1>1. PICK h : HarvestsBySteps(h, history, seq, since, until, staked)
  BY HarvestBySteps
<1>2. Len(seq) \in 0 .. Len(seq)
  BY LenProperties
<1>3. QED
  BY <1>1, <1>2 DEF HarvestsBySteps

-----------------------------------------------------------------------------
(* All windows pay what is owed.                                           *)

\* What is owed for the window opened by the entry of age k.
OwedFor(b, ps, since, until, staked) ==
  [k \in Index |->
     IF k \in StakedAges(b)
       THEN (Released(b, ps, k, since, until) * Share(staked, Nth(b, k).staked)) \div Wad
       ELSE 0]

\* What is released in a window, when its slots are an interval.
LEMMA ReleasedIsEmitted ==
  ASSUME NEW b, NEW ps \in Periods, NEW k, NEW since \in Int, NEW until \in Int,
         NEW from \in Int, NEW to \in Int, WindowSlots(b, k, since, until) = from .. to
  PROVE  Released(b, ps, k, since, until) = Emitted(ps, from, to)
<1> DEFINE f == [s \in from .. to |-> TpsAt(ps, s)]
<1>1. Released(b, ps, k, since, until) = SumFunctionOnSet(f, from .. to)
  BY DEF Released, SumFunction
<1>2. \A s \in from .. to : RatesBySlot(ps)[s] \in Nat /\ f[s] = RatesBySlot(ps)[s]
  BY RateType DEF RatesBySlot
<1>3. IsFiniteSet(from .. to)
  BY FS_Interval
<1> HIDE DEF f
<1>4. SumFunctionOnSet(f, from .. to) = SumFunctionOnSet(RatesBySlot(ps), from .. to)
  BY <1>2, <1>3, SumSame
<1>5. QED
  BY <1>1, <1>4 DEF Emitted

\* What is released and what is owed are numbers of tokens.
LEMMA OwedType ==
  ASSUME NEW b \in Buffer, NEW ps \in Periods, NEW since \in Int, NEW until \in Int,
         NEW staked \in Nat, NEW k \in Index
  PROVE  /\ Released(b, ps, k, since, until) \in Nat
         /\ WindowSlots(b, k, since, until) = {} => Released(b, ps, k, since, until) = 0
         /\ OwedFor(b, ps, since, until, staked)[k] \in Nat
<1> DEFINE W == WindowSlots(b, k, since, until)
           f == [s \in W |-> TpsAt(ps, s)]
<1>1. Released(b, ps, k, since, until) = SumFunctionOnSet(f, W)
  BY DEF Released, SumFunction
<1>2. IsFiniteSet(W)
  <2>1. W \subseteq since .. until
    BY DEF WindowSlots
  <2>2. QED
    BY <2>1, FS_Interval, FS_Subset
<1>3. \A s \in W : f[s] \in Nat
  BY RateType
<1> HIDE DEF f
<1>4. SumFunctionOnSet(f, W) \in Nat /\ SumFunctionOnSet(f, {}) = 0
  BY <1>2, <1>3, SumUnfolds
<1>5. k \in StakedAges(b) => Share(staked, Nth(b, k).staked) \in Nat
  <2>1. Nth(b, k).staked \in Nat
    BY NthType DEF Snapshot
  <2>2. k \in StakedAges(b) => Nth(b, k).staked > 0
    BY DEF StakedAges
  <2>3. QED
    BY <2>1, <2>2, ShareType
<1>6. \A x, y \in Nat : (x * y) \div Wad \in Nat
  <2>1. \A x, y \in Nat : x * y \in Nat
    OBVIOUS
  <2>2. \A x \in Nat : x \div Wad \in Nat
    OBVIOUS
  <2>3. QED
    BY <2>1, <2>2
<1>7. QED
  BY <1>1, <1>4, <1>5, <1>6 DEF OwedFor

\* What is owed in all is the sum over all ages.
LEMMA OwedByAge ==
  ASSUME NEW b \in Buffer, NEW ps \in Periods, NEW since \in Int, NEW until \in Int,
         NEW staked \in Nat
  PROVE  Owed(b, ps, since, until, staked)
           = SumFunctionOnSet(OwedFor(b, ps, since, until, staked), 0 .. RingLen - 1)
<1> DEFINE w == OwedFor(b, ps, since, until, staked)
           A == StakedAges(b)
           f == [k \in A |-> (Released(b, ps, k, since, until) * Share(staked, Nth(b, k).staked)) \div Wad]
<1>1. Owed(b, ps, since, until, staked) = SumFunctionOnSet(f, A)
  BY DEF Owed, SumFunction
<1>2. A \subseteq Index /\ IsFiniteSet(Index) /\ IsFiniteSet(A) /\ IsFiniteSet(Index \ A)
  <2>1. A \subseteq Index
    BY DEF StakedAges
  <2>2. IsFiniteSet(Index)
    BY FS_Interval DEF Index
  <2>3. QED
    BY <2>1, <2>2, FS_Subset
<1>3. \A k \in Index : w[k] \in Nat
  BY OwedType
<1>4. \A k \in A : f[k] = w[k]
  BY <1>2 DEF OwedFor
<1>5. \A k \in Index \ A : w[k] = 0
  BY DEF OwedFor
<1> HIDE DEF w, A, f
<1>6. SumFunctionOnSet(f, A) = SumFunctionOnSet(w, A)
  BY <1>2, <1>3, <1>4, SumSame
<1>7. SumFunctionOnSet(w, Index \ A) = 0
  BY <1>2, <1>5, SumOfZeros
<1>8. SumFunctionOnSet(w, Index) = SumFunctionOnSet(w, A) + SumFunctionOnSet(w, Index \ A)
  BY <1>2, <1>3, SumOfParts
<1>9. SumFunctionOnSet(w, A) \in Nat
  BY <1>2, <1>3, SumUnfolds
<1>10. SumFunctionOnSet(w, Index) = SumFunctionOnSet(f, A)
  BY <1>6, <1>7, <1>8, <1>9
<1>11. QED
  BY <1>1, <1>10 DEF w, Index

\* What is owed for one more age.
LEMMA OneMoreAge ==
  ASSUME NEW b \in Buffer, NEW ps \in Periods, NEW since \in Int, NEW until \in Int,
         NEW staked \in Nat, NEW k \in Index
  PROVE  LET w == OwedFor(b, ps, since, until, staked)
         IN  /\ SumFunctionOnSet(w, 0 .. k - 1) \in Nat /\ w[k] \in Nat
             /\ SumFunctionOnSet(w, 0 .. k) = SumFunctionOnSet(w, 0 .. k - 1) + w[k]
<1> DEFINE w == OwedFor(b, ps, since, until, staked)
           rest == SumFunctionOnSet(w, (0 .. k) \ {k})
<1>1. IsFiniteSet(0 .. k) /\ k \in 0 .. k /\ (0 .. k) \ {k} = 0 .. k - 1
  <2>1. 0 \in Int /\ k \in Int /\ k \in 0 .. k
    BY DEF Index
  <2>2. IsFiniteSet(0 .. k)
    BY <2>1, FS_Interval
  <2>3. (0 .. k) \ {k} = 0 .. k - 1
    BY <2>1
  <2>4. QED
    BY <2>1, <2>2, <2>3
<1>2. \A j \in 0 .. k : w[j] \in Nat
  <2>1. \A j \in 0 .. k : j \in Index
    BY DEF Index
  <2>2. QED
    BY <2>1, OwedType
<1> HIDE DEF w
<1>3. SumFunctionOnSet(w, 0 .. k) = w[k] + rest /\ rest \in Nat
  BY <1>1, <1>2, SumUnfolds
<1>4. rest = SumFunctionOnSet(w, 0 .. k - 1)
  BY ONLY <1>1
<1>5. w[k] \in Nat
  BY <1>1, <1>2
<1> HIDE DEF rest
<1>6. QED
  BY <1>3, <1>4, <1>5 DEF w

\* The farmer's question, as it can be asked: a history in order, and the
\* ranges of its periods up to the slot where the question ends.
Asks(b, current, ps, history, since, until, staked) ==
  /\ b \in Buffer /\ RingInOrder(b, current)
  /\ ps \in Periods /\ \E last : Tells(history, ps, last)
  /\ since \in Nat /\ until \in Nat /\ since <= until /\ staked \in Nat
  /\ EndOf(history, Len(history)) >= until

\* The answer: not a failure, and what is owed.
IsPaid(e, b, ps, since, until, staked) ==
  e.ok = TRUE /\ e.tokens = Owed(b, ps, since, until, staked)

\* The slot that the next older window ends before.
SkipAt(b, until, k) ==
  IF k = 0 \/ Nth(b, k - 1).startedAt > until THEN until + 1 ELSE Nth(b, k - 1).startedAt

\* The windows of the k youngest entries are paid, and the ranges that are left
\* cover what is before them.
HarvestIsAt(st, b, ps, history, since, until, staked, k) ==
  /\ st.ok = TRUE
  /\ st.tokens = SumFunctionOnSet(OwedFor(b, ps, since, until, staked), 0 .. k - 1)
  /\ st.left \in 0 .. Len(history)
  /\ k = 0 \/ Nth(b, k - 1).startedAt > 0
       => /\ st.skip = SkipAt(b, until, k)
          /\ EndOf(history, st.left) >= st.skip - 1

\* One more entry that is not looked at.
LEMMA SkipSnapshotExact ==
  ASSUME NEW b, NEW current, NEW ps, NEW history, NEW since, NEW until, NEW staked,
         Asks(b, current, ps, history, since, until, staked), NEW k \in Index, NEW st,
         HarvestIsAt(st, b, ps, history, since, until, staked, k), ~OpenedBy(Nth(b, k), until)
  PROVE  HarvestIsAt(st, b, ps, history, since, until, staked, k + 1)
<1> DEFINE w == OwedFor(b, ps, since, until, staked)
           s == Nth(b, k)
<1>1. /\ b \in Buffer /\ RingInOrder(b, current) /\ ps \in Periods
      /\ since \in Nat /\ until \in Nat /\ since <= until /\ staked \in Nat
  BY DEF Asks
<1>2. k \in Nat /\ (k + 1) - 1 = k /\ k + 1 # 0
  BY DEF Index
<1>3. s.startedAt \in Nat /\ (k # 0 => k - 1 \in Index /\ Nth(b, k - 1).startedAt \in Nat)
  <2>1. k # 0 => k - 1 \in Index
    BY DEF Index
  <2>2. QED
    BY <1>1, <2>1, NthType DEF Snapshot, Slot
<1>4. s.startedAt = 0 \/ s.startedAt > until
  BY <1>1, <1>3 DEF OpenedBy
<1>5. w[k] = 0
  <2>1. CASE s.startedAt = 0
    BY <2>1 DEF OwedFor, StakedAges
  <2>2. CASE s.startedAt > until
    <3>1. WindowSlots(b, k, since, until) = {}
      BY <1>1, <1>3, <2>2 DEF WindowSlots
    <3>2. Released(b, ps, k, since, until) = 0
      <4>1. since \in Int /\ until \in Int
        BY <1>1
      <4>2. QED
        BY ONLY <1>1, <3>1, <4>1, k \in Index, OwedType
    <3>3. ASSUME k \in StakedAges(b) PROVE (0 * Share(staked, s.staked)) \div Wad = 0
      <4>1. s.staked \in Nat \ {0}
        <5>1. s.staked \in Nat /\ s.staked > 0
          BY <1>1, <3>3, NthType DEF StakedAges, Snapshot
        <5>2. QED
          BY <5>1
      <4>2. Share(staked, s.staked) \in Nat
        BY <1>1, <4>1, ShareType
      <4>3. \A x \in Nat : 0 * x = 0
        OBVIOUS
      <4>4. 0 \div Wad = 0
        OBVIOUS
      <4>5. QED
        BY <4>2, <4>3, <4>4
    <3>4. QED
      BY <3>2, <3>3 DEF OwedFor
  <2>3. QED
    BY <1>4, <2>1, <2>2
<1>6. SumFunctionOnSet(w, 0 .. k) = SumFunctionOnSet(w, 0 .. k - 1)
  <2>1. /\ SumFunctionOnSet(w, 0 .. k - 1) \in Nat
        /\ SumFunctionOnSet(w, 0 .. k) = SumFunctionOnSet(w, 0 .. k - 1) + w[k]
    BY <1>1, OneMoreAge
  <2> HIDE DEF w
  <2>2. QED
    BY <1>5, <2>1
<1>7. ASSUME s.startedAt > 0
      PROVE  st.skip = SkipAt(b, until, k + 1) /\ EndOf(history, st.left) >= st.skip - 1
  <2>1. s.startedAt > until
    BY <1>3, <1>4, <1>7
  <2>2. SkipAt(b, until, k + 1) = until + 1
    BY <1>2, <2>1 DEF SkipAt
  <2>3. k # 0 => Nth(b, k - 1).startedAt > s.startedAt
    <3>1. k # 0 => k - 1 \in Index /\ k - 1 < k
      BY <1>2, <1>3
    <3>2. QED
      BY <1>1, <1>3, <1>7, <3>1 DEF RingInOrder
  <2>4. SkipAt(b, until, k) = until + 1
    BY <1>1, <1>3, <2>1, <2>3 DEF SkipAt
  <2>5. k = 0 \/ Nth(b, k - 1).startedAt > 0
    BY <1>3, <1>7, <2>3
  <2>6. QED
    BY <2>2, <2>4, <2>5 DEF HarvestIsAt
<1>8. QED
  BY <1>2, <1>6, <1>7 DEF HarvestIsAt

\* One more entry whose window is paid.
LEMMA UseSnapshotExact ==
  ASSUME NEW b, NEW current, NEW ps, NEW history, NEW since, NEW until, NEW staked,
         Asks(b, current, ps, history, since, until, staked), NEW k \in Index,
         \A j \in Index : j < k => Nth(b, j).startedAt > since,
         NEW st \in Harvests(Len(history)),
         HarvestIsAt(st, b, ps, history, since, until, staked, k), OpenedBy(Nth(b, k), until)
  PROVE  HarvestIsAt(UseSnapshot(st, Nth(b, k), history, since, staked),
                     b, ps, history, since, until, staked, k + 1)
<1> DEFINE w == OwedFor(b, ps, since, until, staked)
           s == Nth(b, k)
           from == WindowStart(s, since)
           to == st.skip - 1
           new == UseSnapshot(st, s, history, since, staked)
<1>1. /\ b \in Buffer /\ RingInOrder(b, current) /\ ps \in Periods
      /\ since \in Nat /\ until \in Nat /\ since <= until /\ staked \in Nat
  BY DEF Asks
<1>2. k \in Nat /\ (k + 1) - 1 = k /\ k + 1 # 0
  BY DEF Index
<1>3. /\ s.startedAt \in Nat /\ s.staked \in Nat
      /\ k # 0 => k - 1 \in Index /\ k - 1 < k /\ Nth(b, k - 1).startedAt \in Nat
  <2>1. k # 0 => k - 1 \in Index
    BY DEF Index
  <2>2. QED
    BY <1>1, <1>2, <2>1, NthType DEF Snapshot, Slot
<1>4. s.startedAt <= until /\ s.startedAt > 0
  BY DEF OpenedBy
<1>5. k # 0 => Nth(b, k - 1).startedAt > s.startedAt /\ Nth(b, k - 1).startedAt > since
  BY <1>1, <1>3, <1>4 DEF RingInOrder
<1> HIDE DEF s
<1>6. /\ st.skip = SkipAt(b, until, k) /\ EndOf(history, st.left) >= st.skip - 1
      /\ st.ok = TRUE /\ st.left \in 0 .. Len(history)
      /\ st.tokens = SumFunctionOnSet(w, 0 .. k - 1)
  <2>1. k = 0 \/ Nth(b, k - 1).startedAt > 0
    BY <1>3, <1>5
  <2>2. QED
    BY <2>1 DEF HarvestIsAt
<1>7. /\ from \in Nat \ {0} /\ to \in Nat /\ from <= to /\ EndOf(history, st.left) >= to
      /\ s.startedAt <= from /\ s.startedAt <= to
  <2>1. st.skip \in Nat /\ st.skip > s.startedAt /\ st.skip > since
    BY <1>1, <1>3, <1>4, <1>5, <1>6 DEF SkipAt
  <2>2. from \in Nat /\ from >= s.startedAt /\ (from = s.startedAt \/ from = since)
    BY <1>1, <1>3 DEF WindowStart, Larger
  <2> HIDE DEF from
  <2>3. QED
    BY <1>1, <1>3, <1>4, <1>6, <2>1, <2>2
<1>8. SkipAt(b, until, k + 1) = s.startedAt
  BY <1>2, <1>3, <1>4, <1>1 DEF SkipAt, s
<1>9. /\ SumFunctionOnSet(w, 0 .. k - 1) \in Nat /\ w[k] \in Nat
      /\ SumFunctionOnSet(w, 0 .. k) = SumFunctionOnSet(w, 0 .. k - 1) + w[k]
  BY <1>1, OneMoreAge
<1>10. EndOf(history, st.left) \in Int
  <2>1. PICK last : Tells(history, ps, last)
    BY DEF Asks
  <2>2. st.left # 0 => st.left \in 1 .. Len(history)
    BY <1>6
  <2>3. st.left # 0 => history[st.left].to \in Nat
    BY <1>1, <2>1, <2>2, ToldRange
  <2>4. QED
    BY <2>3 DEF EndOf
<1>11. CASE s.staked = 0
  <2>1. new = [st EXCEPT !.skip = s.startedAt]
    BY <1>11 DEF UseSnapshot
  <2>2. w[k] = 0
    BY <1>11 DEF OwedFor, StakedAges, s
  <2>3. /\ new.ok = TRUE /\ new.tokens = st.tokens /\ new.left = st.left
        /\ new.skip = s.startedAt
    BY <1>6, <2>1 DEF Harvests
  <2>4. SumFunctionOnSet(w, 0 .. k) = SumFunctionOnSet(w, 0 .. k - 1)
    <3> HIDE DEF w
    <3>1. QED
      BY <1>9, <2>2
  <2>5. EndOf(history, new.left) >= new.skip - 1
    <3> HIDE DEF new, to
    <3>1. to \in Int /\ s.startedAt \in Int
      BY <1>3, <1>7
    <3>2. QED
      BY <1>7, <1>10, <2>3, <3>1
  <2> HIDE DEF new
  <2>6. HarvestIsAt(new, b, ps, history, since, until, staked, k + 1)
    BY <1>2, <1>6, <1>8, <2>3, <2>4, <2>5 DEF HarvestIsAt
  <2>7. QED
    BY <2>6 DEF new, s
<1>12. CASE s.staked # 0
  <2> DEFINE share == Share(staked, s.staked)
             scan == ScanWindow(history, st.left, from, to, share)
  <2>1. share \in Nat
    <3>1. s.staked \in Nat \ {0}
      BY <1>3, <1>12
    <3>2. QED
      BY <1>1, <3>1, ShareType
  <2>2. ScanIsDone(scan, history, ps, from, to, share)
    <3>1. PICK last : Tells(history, ps, last)
      BY DEF Asks
    <3> HIDE DEF from, to, share
    <3>2. QED
      BY <1>1, <1>6, <1>7, <2>1, <3>1, ScanWindowExact
  <2>3. new = AddWindow(st, s, scan)
    BY <1>12 DEF UseSnapshot
  <2>4. WindowSlots(b, k, since, until) = from .. to
    <3>1. to = until \/ (k # 0 /\ to = Nth(b, k - 1).startedAt - 1 /\ to <= until)
      BY <1>1, <1>3, <1>6 DEF SkipAt
    <3>2. to = until => k = 0 \/ Nth(b, k - 1).startedAt > until
      BY <1>1, <1>3, <1>6 DEF SkipAt
    <3>3. from >= since /\ (from = s.startedAt \/ from = since)
      BY <1>1, <1>3 DEF WindowStart, Larger
    <3> HIDE DEF from, to
    <3>4. ASSUME NEW x \in Int
          PROVE  x \in WindowSlots(b, k, since, until) <=> x \in from .. to
      <4>1. x \in WindowSlots(b, k, since, until)
              <=> /\ since <= x /\ x <= until /\ s.startedAt <= x
                  /\ k # 0 => x < Nth(b, k - 1).startedAt
        BY <1>1, <1>2 DEF WindowSlots, s
      <4>2. x \in from .. to <=> from <= x /\ x <= to
        BY <1>7
      <4>3. (from <= x) <=> (since <= x /\ s.startedAt <= x)
        BY <1>1, <1>3, <1>7, <3>3
      <4>4. (x <= to) <=> (x <= until /\ (k # 0 => x < Nth(b, k - 1).startedAt))
        <5>1. CASE to = until
          BY <1>1, <1>3, <1>7, <3>2, <5>1
        <5>2. CASE k # 0 /\ to = Nth(b, k - 1).startedAt - 1 /\ to <= until
          BY <1>1, <1>3, <1>7, <5>2
        <5>3. QED
          BY <3>1, <5>1, <5>2
      <4>5. QED
        BY <4>1, <4>2, <4>3, <4>4
    <3>5. WindowSlots(b, k, since, until) \subseteq Int /\ from .. to \subseteq Int
      BY <1>1 DEF WindowSlots
    <3>6. QED
      BY <3>4, <3>5
  <2>5. Released(b, ps, k, since, until) = Emitted(ps, from, to)
    <3> HIDE DEF from, to
    <3>1. QED
      BY <1>1, <1>7, <2>4, ReleasedIsEmitted
  <2>6. w[k] = scan.sum \div Wad
    <3>1. k \in StakedAges(b)
      BY <1>3, <1>4, <1>12 DEF StakedAges, s
    <3>2. w[k] = (Released(b, ps, k, since, until) * share) \div Wad
      BY <3>1 DEF OwedFor, s
    <3>3. Emitted(ps, from, to) \in Nat
      <4> HIDE DEF from, to
      <4>1. QED
        BY <1>1, <1>7, EmittedType
    <3>4. scan.sum = share * Emitted(ps, from, to)
      BY <2>2 DEF ScanIsDone
    <3> DEFINE e == Emitted(ps, from, to)
    <3>5. e \in Nat /\ w[k] = (e * share) \div Wad /\ scan.sum = share * e
      BY <2>5, <3>2, <3>3, <3>4
    <3> HIDE DEF e, w, share, scan
    <3>6. e * share = share * e
      BY <2>1, <3>5
    <3>7. QED
      BY <3>5, <3>6
  <2> HIDE DEF scan, new
  <2>7. /\ new.ok = TRUE /\ new.tokens = st.tokens + scan.sum \div Wad
        /\ new.left = scan.left /\ new.skip = s.startedAt
    <3>1. scan.ok = TRUE
      BY <2>2 DEF ScanIsDone
    <3>2. QED
      BY <1>6, <2>3, <3>1 DEF AddWindow
  <2>8. new.tokens = SumFunctionOnSet(w, 0 .. k)
    <3> HIDE DEF w
    <3>1. QED
      BY <1>6, <1>9, <2>6, <2>7
  <2>9. new.left \in 0 .. Len(history) /\ EndOf(history, new.left) >= from - 1
    BY <2>2, <2>7 DEF ScanIsDone
  <2>10. EndOf(history, new.left) \in Int
    <3>1. PICK last : Tells(history, ps, last)
      BY DEF Asks
    <3>2. new.left # 0 => new.left \in 1 .. Len(history)
      BY <2>9
    <3>3. new.left # 0 => history[new.left].to \in Nat
      BY <1>1, <3>1, <3>2, ToldRange
    <3>4. QED
      BY <3>3 DEF EndOf
  <2>11. EndOf(history, new.left) >= new.skip - 1
    <3> HIDE DEF from
    <3>1. QED
      BY <1>3, <1>7, <2>7, <2>9, <2>10
  <2>12. HarvestIsAt(new, b, ps, history, since, until, staked, k + 1)
    BY <1>2, <1>8, <2>7, <2>8, <2>9, <2>11 DEF HarvestIsAt
  <2>13. QED
    BY <2>12 DEF new, s
<1>13. QED
  BY <1>11, <1>12

\* eligible_harvest_until, whatever the history: a failure or some tokens.
THEOREM HarvestIsAnAmount ==
  ASSUME NEW b \in Buffer, NEW ps \in Periods, NEW since \in Nat, NEW until \in Int,
         NEW staked \in Nat
  PROVE  /\ EligibleHarvest(b, ps, since, until, staked).ok \in BOOLEAN
         /\ EligibleHarvest(b, ps, since, until, staked).tokens \in Int
         /\ EligibleHarvest(b, ps, since, until, staked).ok
              => EligibleHarvest(b, ps, since, until, staked).tokens \in Nat
<1> DEFINE history == TpsHistory(ps, until)
           seq == IF staked = 0 THEN <<>> ELSE EligibleSnapshots(b, since)
           e == HarvestOver(history, seq, since, until, staked)
<1>1. history \in Seq(Ranges) /\ seq \in Seq(Snapshot)
  BY HistoryType, EligibleSnapshotsType, EmptySeq
<1>2. EligibleHarvest(b, ps, since, until, staked) = e
  BY DEF EligibleHarvest
<1> HIDE DEF history, seq
<1>3. e \in Harvests(Len(history))
  BY <1>1, HarvestOverType
<1> HIDE DEF e
<1>4. QED
  BY <1>2, <1>3 DEF Harvests

\* All entries that are looked at, when they are asked about.
LEMMA HarvestOverExact ==
  ASSUME NEW b, NEW current, NEW ps, NEW history, NEW since, NEW until, NEW staked,
         Asks(b, current, ps, history, since, until, staked)
  PROVE  IsPaid(HarvestOver(history, EligibleSnapshots(b, since), since, until, staked),
                b, ps, since, until, staked)
<1> DEFINE seq == EligibleSnapshots(b, since)
           w == OwedFor(b, ps, since, until, staked)
           At(st, k) == HarvestIsAt(st, b, ps, history, since, until, staked, k)
<1>1. /\ b \in Buffer /\ RingInOrder(b, current) /\ ps \in Periods
      /\ since \in Nat /\ until \in Nat /\ since <= until /\ staked \in Nat
      /\ history \in Seq(Ranges) /\ Len(history) \in Nat
      /\ EndOf(history, Len(history)) >= until
  BY LenProperties DEF Asks, Tells
<1>2. PICK n \in 1 .. RingLen :
        /\ Len(seq) = n
        /\ \A k \in 1 .. n : seq[k] = Nth(b, k - 1)
        /\ \A a \in Index : a < n - 1 => Nth(b, a).startedAt > since
        /\ n = RingLen \/ Nth(b, n - 1).startedAt <= since
  BY <1>1, EligibleByAge
<1>3. seq \in Seq(Snapshot)
  BY <1>1, EligibleSnapshotsType
<1> HIDE DEF seq
<1>4. PICK h : HarvestsBySteps(h, history, seq, since, until, staked)
  BY <1>1, <1>3, HarvestBySteps
<1>5. /\ h[0] = [left |-> Len(history), skip |-> until + 1, tokens |-> 0, ok |-> TRUE]
      /\ h[n] = HarvestOver(history, seq, since, until, staked)
      /\ \A k \in 0 .. n : h[k] \in Harvests(Len(history))
      /\ \A k \in 1 .. n :
           h[k] = IF OpenedBy(seq[k], until)
                    THEN UseSnapshot(h[k - 1], seq[k], history, since, staked) ELSE h[k - 1]
  BY <1>2, <1>4 DEF HarvestsBySteps
<1> DEFINE T == {k \in Nat : k \in 0 .. n => At(h[k], k)}
<1>6. 0 \in T
  <2>1. SumFunctionOnSet(w, 0 .. 0 - 1) = 0
    <3>1. 0 .. 0 - 1 = {} /\ IsFiniteSet({})
      BY FS_EmptySet
    <3> HIDE DEF w
    <3>2. SumFunctionOnSet(w, {}) = 0
      BY <3>1, SumUnfolds
    <3>3. QED
      BY <3>1, <3>2
  <2>2. SkipAt(b, until, 0) = until + 1 /\ (until + 1) - 1 = until
    BY <1>1 DEF SkipAt
  <2>3. Len(history) \in 0 .. Len(history)
    BY <1>1
  <2>4. At(h[0], 0)
    BY <1>1, <1>5, <2>1, <2>2, <2>3 DEF HarvestIsAt
  <2>5. QED
    BY <2>4
<1>7. ASSUME NEW k \in T PROVE k + 1 \in T
  <2>1. SUFFICES ASSUME k + 1 \in 0 .. n PROVE At(h[k + 1], k + 1)
    OBVIOUS
  <2>2. /\ k \in 0 .. n /\ k + 1 \in 1 .. n /\ (k + 1) - 1 = k /\ k \in Index
        /\ \A j \in Index : j < k => j < n - 1
    BY <1>2, <2>1 DEF Index
  <2>3. seq[k + 1] = Nth(b, k) /\ At(h[k], k) /\ h[k] \in Harvests(Len(history))
    BY <1>2, <1>5, <2>2
  <2>4. h[k + 1] = IF OpenedBy(Nth(b, k), until)
                     THEN UseSnapshot(h[k], Nth(b, k), history, since, staked) ELSE h[k]
    BY <1>5, <2>2, <2>3
  <2>5. \A j \in Index : j < k => Nth(b, j).startedAt > since
    BY <1>2, <2>2
  <2>6. CASE OpenedBy(Nth(b, k), until)
    BY <2>2, <2>3, <2>4, <2>5, <2>6, UseSnapshotExact
  <2>7. CASE ~OpenedBy(Nth(b, k), until)
    BY <2>2, <2>3, <2>4, <2>7, SkipSnapshotExact
  <2>8. QED
    BY <2>6, <2>7
<1>8. T = Nat
  <2> HIDE DEF T
  <2>1. T \subseteq Nat
    BY DEF T
  <2>2. QED
    BY <1>6, <1>7, <2>1, SetInduction
<1>9. At(h[n], n)
  BY <1>2, <1>8
<1>10. h[n].ok = TRUE /\ h[n].tokens = SumFunctionOnSet(w, 0 .. n - 1)
  BY <1>9 DEF HarvestIsAt
<1>11. ASSUME NEW a \in Index, a >= n PROVE w[a] = 0
  <2>1. /\ a - 1 \in Index /\ n - 1 \in Index /\ n < RingLen /\ a # 0 /\ a \in Nat
        /\ (n - 1 = a - 1 \/ n - 1 < a - 1)
    BY <1>2, <1>11 DEF Index
  <2>2. \A x \in Index : Nth(b, x).startedAt \in Nat
    BY <1>1, NthType DEF Snapshot, Slot
  <2>3. Nth(b, n - 1).startedAt <= since
    BY <1>2, <2>1
  <2>4. Nth(b, a - 1).startedAt <= since
    <3>1. CASE n - 1 = a - 1
      BY <2>3, <3>1
    <3>2. CASE n - 1 < a - 1
      <4>1. Nth(b, n - 1).startedAt > Nth(b, a - 1).startedAt \/ Nth(b, a - 1).startedAt = 0
        BY <1>1, <2>1, <3>2 DEF RingInOrder
      <4>2. QED
        BY <1>1, <2>1, <2>2, <2>3, <4>1
    <3>3. QED
      BY <2>1, <3>1, <3>2
  <2>5. WindowSlots(b, a, since, until) = {}
    <3> DEFINE y == Nth(b, a - 1).startedAt
    <3>1. y \in Nat /\ y <= since /\ a > 0
      BY <2>1, <2>2, <2>4
    <3>2. WindowSlots(b, a, since, until) \subseteq {x \in since .. until : x < y}
      BY <3>1 DEF WindowSlots
    <3> HIDE DEF y
    <3>3. QED
      BY <1>1, <3>1, <3>2
  <2>6. Released(b, ps, a, since, until) = 0
    <3>1. since \in Int /\ until \in Int
      BY <1>1
    <3>2. QED
      BY <1>1, <2>5, <3>1, OwedType
  <2>7. ASSUME a \in StakedAges(b) PROVE (0 * Share(staked, Nth(b, a).staked)) \div Wad = 0
    <3>1. Nth(b, a).staked \in Nat \ {0}
      <4>1. Nth(b, a).staked \in Nat /\ Nth(b, a).staked > 0
        BY <1>1, <2>7, NthType DEF StakedAges, Snapshot
      <4>2. QED
        BY <4>1
    <3>2. Share(staked, Nth(b, a).staked) \in Nat
      BY <1>1, <3>1, ShareType
    <3>3. \A x \in Nat : 0 * x = 0
      OBVIOUS
    <3>4. 0 \div Wad = 0
      OBVIOUS
    <3>5. QED
      BY <3>2, <3>3, <3>4
  <2>8. QED
    BY <2>6, <2>7 DEF OwedFor
<1>12. SumFunctionOnSet(w, 0 .. RingLen - 1) = SumFunctionOnSet(w, 0 .. n - 1)
  <2> DEFINE R == 0 .. n - 1
             S == 0 .. RingLen - 1
  <2>1. R \subseteq S /\ S = Index /\ \A a \in S \ R : a \in Index /\ a >= n
    BY <1>2 DEF Index
  <2>2. IsFiniteSet(S)
    BY FS_Interval
  <2>3. IsFiniteSet(R) /\ IsFiniteSet(S \ R)
    BY <2>1, <2>2, FS_Subset
  <2>4. \A a \in S : w[a] \in Nat
    BY <1>1, <2>1, OwedType
  <2>5. \A a \in S \ R : w[a] = 0
    BY <1>11, <2>1
  <2>6. \A a \in R : w[a] \in Nat
    BY <2>1, <2>4
  <2> HIDE DEF w, R, S
  <2>7. SumFunctionOnSet(w, S) = SumFunctionOnSet(w, R) + SumFunctionOnSet(w, S \ R)
    BY <2>1, <2>2, <2>4, SumOfParts
  <2>8. SumFunctionOnSet(w, S \ R) = 0
    BY <2>3, <2>5, SumOfZeros
  <2>9. SumFunctionOnSet(w, R) \in Nat
    BY <2>3, <2>6, SumUnfolds
  <2>10. SumFunctionOnSet(w, S) = SumFunctionOnSet(w, R)
    BY <2>7, <2>8, <2>9
  <2>11. QED
    BY <2>10 DEF R, S
<1>13. Owed(b, ps, since, until, staked) = SumFunctionOnSet(w, 0 .. RingLen - 1)
  BY <1>1, OwedByAge
<1>14. QED
  BY <1>5, <1>10, <1>12, <1>13 DEF seq, IsPaid

\* Nobody is owed anything without a stake.
LEMMA NothingOwed ==
  ASSUME NEW b \in Buffer, NEW ps \in Periods, NEW since \in Int, NEW until \in Int
  PROVE  Owed(b, ps, since, until, 0) = 0
<1> DEFINE w == OwedFor(b, ps, since, until, 0)
<1>1. ASSUME NEW k \in Index PROVE w[k] = 0
  <2>1. CASE k \in StakedAges(b)
    <3> DEFINE r == Released(b, ps, k, since, until)
    <3>1. r \in Nat
      BY OwedType
    <3>2. Nth(b, k).staked \in Nat \ {0}
      <4>1. Nth(b, k).staked \in Nat /\ Nth(b, k).staked > 0
        BY <2>1, NthType DEF StakedAges, Snapshot
      <4>2. QED
        BY <4>1
    <3>3. Share(0, Nth(b, k).staked) = 0
      <4>1. 0 * Wad = 0 /\ \A x \in Nat \ {0} : 0 \div x = 0
        OBVIOUS
      <4>2. QED
        BY <3>2, <4>1 DEF Share
    <3>4. w[k] = (r * Share(0, Nth(b, k).staked)) \div Wad
      BY <2>1 DEF OwedFor
    <3> HIDE DEF r
    <3>5. r * 0 = 0 /\ 0 \div Wad = 0
      BY <3>1
    <3>6. QED
      BY <3>3, <3>4, <3>5
  <2>2. CASE k \notin StakedAges(b)
    BY <2>2 DEF OwedFor
  <2>3. QED
    BY <2>1, <2>2
<1>2. IsFiniteSet(0 .. RingLen - 1) /\ \A k \in 0 .. RingLen - 1 : k \in Index
  BY FS_Interval DEF Index
<1>3. Owed(b, ps, since, until, 0) = SumFunctionOnSet(w, 0 .. RingLen - 1)
  BY OwedByAge
<1> HIDE DEF w
<1>4. \A k \in 0 .. RingLen - 1 : w[k] = 0
  BY <1>1, <1>2
<1>5. SumFunctionOnSet(w, 0 .. RingLen - 1) = 0
  BY <1>2, <1>4, SumOfZeros
<1>6. QED
  BY <1>3, <1>5

\* eligible_harvest_until never fails and pays each window's share of what was
\* released in it: no slot twice and none missed, whatever snapshots and
\* periods there are, as long as both are in order.
THEOREM HarvestIsExact ==
  ASSUME NEW b \in Buffer, NEW current, RingInOrder(b, current),
         NEW ps \in Periods, NEW now, OrderAt(ps, now),
         NEW since \in Nat, NEW until \in Nat, since <= until, NEW staked \in Nat
  PROVE  IsPaid(EligibleHarvest(b, ps, since, until, staked), b, ps, since, until, staked)
<1> DEFINE history == TpsHistory(ps, until)
<1>1. PICK last \in Nat : last >= until /\ Tells(history, ps, last)
  BY HistoryTells
<1>2. EndOf(history, Len(history)) >= until
  BY <1>1 DEF Tells, EndOf
<1>3. Asks(b, current, ps, history, since, until, staked)
  BY <1>1, <1>2 DEF Asks
<1> HIDE DEF history
<1>4. CASE staked # 0
  <2>1. EligibleHarvest(b, ps, since, until, staked)
          = HarvestOver(history, EligibleSnapshots(b, since), since, until, staked)
    BY <1>4 DEF EligibleHarvest, history
  <2>2. QED
    BY <1>3, <2>1, HarvestOverExact
<1>5. CASE staked = 0
  <2>1. EligibleHarvest(b, ps, since, until, staked) = HarvestOver(history, <<>>, since, until, staked)
    BY <1>5 DEF EligibleHarvest, history
  <2>2. <<>> \in Seq(Snapshot) /\ Len(<<>>) = 0 /\ history \in Seq(Ranges) /\ until \in Int
    BY <1>1, EmptySeq DEF Tells
  <2>3. PICK h : HarvestsBySteps(h, history, <<>>, since, until, staked)
    BY <2>2, HarvestBySteps
  <2>4. HarvestOver(history, <<>>, since, until, staked)
          = [left |-> Len(history), skip |-> until + 1, tokens |-> 0, ok |-> TRUE]
    BY <2>2, <2>3 DEF HarvestsBySteps
  <2>5. Owed(b, ps, since, until, staked) = 0
    BY <1>5, NothingOwed
  <2>6. QED
    BY <2>1, <2>4, <2>5 DEF IsPaid
<1>6. QED
  BY <1>4, <1>5

\* Nothing fails, and nothing is paid, either when there is nothing to ask: a
\* snapshot started between the last slot asked for and the first one.
LEMMA NothingIsDue ==
  ASSUME NEW b \in Buffer, NEW current, RingInOrder(b, current), NEW ps \in Periods,
         NEW since \in Nat, NEW until \in Int, NEW staked \in Nat, NEW a \in Index,
         until < Nth(b, a).startedAt, Nth(b, a).startedAt <= since
  PROVE  /\ EligibleHarvest(b, ps, since, until, staked).ok = TRUE
         /\ EligibleHarvest(b, ps, since, until, staked).tokens = 0
<1> DEFINE history == TpsHistory(ps, until)
           seq == IF staked = 0 THEN <<>> ELSE EligibleSnapshots(b, since)
<1>1. history \in Seq(Ranges) /\ seq \in Seq(Snapshot)
  BY HistoryType, EligibleSnapshotsType, EmptySeq
<1>2. \A k \in Index : Nth(b, k).startedAt \in Nat
  BY NthType DEF Snapshot, Slot
<1>3. ASSUME NEW k \in 1 .. Len(seq) PROVE ~OpenedBy(seq[k], until)
  <2>1. staked # 0
    <3>1. Len(<<>>) = 0
      BY EmptySeq
    <3>2. QED
      BY <1>3, <3>1
  <2>2. PICK n \in 1 .. RingLen :
          /\ Len(EligibleSnapshots(b, since)) = n
          /\ \A j \in 1 .. n : EligibleSnapshots(b, since)[j] = Nth(b, j - 1)
          /\ \A j \in Index : j < n - 1 => Nth(b, j).startedAt > since
          /\ n = RingLen \/ Nth(b, n - 1).startedAt <= since
    BY EligibleByAge
  <2>3. k \in 1 .. n /\ seq[k] = Nth(b, k - 1) /\ k - 1 \in Index
    <3>1. seq = EligibleSnapshots(b, since)
      BY <2>1
    <3> HIDE DEF seq
    <3>2. k \in 1 .. n
      BY <2>2, <3>1
    <3>3. k - 1 \in Index
      BY <3>2 DEF Index
    <3>4. QED
      BY <2>2, <3>1, <3>2, <3>3
  <2> HIDE DEF seq
  <2>4. ~(a < k - 1)
    <3>1. SUFFICES ASSUME a < k - 1 PROVE FALSE
      OBVIOUS
    <3>2. a < n - 1
      BY <2>3, <3>1 DEF Index
    <3>3. Nth(b, a).startedAt > since
      BY <2>2, <3>2
    <3>4. QED
      BY <1>2, <3>3
  <2>5. Nth(b, k - 1).startedAt >= Nth(b, a).startedAt \/ a = k - 1
    <3>1. k - 1 < a \/ a = k - 1
      BY <2>3, <2>4 DEF Index
    <3>2. CASE k - 1 < a
      <4>1. Nth(b, k - 1).startedAt > Nth(b, a).startedAt \/ Nth(b, a).startedAt = 0
        BY <2>3, <3>2 DEF RingInOrder
      <4>2. QED
        BY <1>2, <2>3, <4>1
    <3>3. QED
      BY <3>1, <3>2
  <2>6. Nth(b, k - 1).startedAt > until \/ Nth(b, k - 1).startedAt = Nth(b, a).startedAt
    BY <1>2, <2>3, <2>5
  <2>7. QED
    BY <1>2, <2>3, <2>6 DEF OpenedBy
<1>4. EligibleHarvest(b, ps, since, until, staked) = HarvestOver(history, seq, since, until, staked)
  BY DEF EligibleHarvest
<1> HIDE DEF history, seq
<1>5. PICK h : HarvestsBySteps(h, history, seq, since, until, staked)
  BY <1>1, HarvestBySteps
<1>6. Len(seq) \in Nat
  BY <1>1, LenProperties
<1> DEFINE Fine(k) == h[k].ok = TRUE /\ h[k].tokens = 0
           T == {k \in Nat : k \in 0 .. Len(seq) => Fine(k)}
<1>7. 0 \in T
  BY <1>5 DEF HarvestsBySteps
<1>8. ASSUME NEW k \in T PROVE k + 1 \in T
  <2> HIDE DEF Fine
  <2>1. SUFFICES ASSUME k + 1 \in 0 .. Len(seq) PROVE Fine(k + 1)
    OBVIOUS
  <2>2. k \in 0 .. Len(seq) /\ k + 1 \in 1 .. Len(seq) /\ (k + 1) - 1 = k
    BY <1>6, <2>1
  <2>3. ~OpenedBy(seq[k + 1], until)
    BY <1>3, <2>2
  <2>4. h[k + 1] = h[k]
    BY <1>5, <2>2, <2>3 DEF HarvestsBySteps
  <2>5. QED
    BY <2>2, <2>4 DEF Fine
<1>9. T = Nat
  <2> HIDE DEF T
  <2>1. T \subseteq Nat
    BY DEF T
  <2>2. QED
    BY <1>7, <1>8, <2>1, SetInduction
<1>10. h[Len(seq)].ok = TRUE /\ h[Len(seq)].tokens = 0
  BY <1>6, <1>9
<1>11. QED
  BY <1>4, <1>5, <1>10 DEF HarvestsBySteps

-----------------------------------------------------------------------------
(* An interval that is harvested in two parts.                             *)

\* What is released in a window is released in one part or in the other.
LEMMA ReleasedSplits ==
  ASSUME NEW b \in Buffer, NEW ps \in Periods, NEW k \in Index,
         NEW since \in Int, NEW mid \in Int, NEW until \in Int, since <= mid + 1, mid <= until
  PROVE  Released(b, ps, k, since, until)
           = Released(b, ps, k, since, mid) + Released(b, ps, k, mid + 1, until)
<1> DEFINE W  == WindowSlots(b, k, since, until)
           W1 == WindowSlots(b, k, since, mid)
           W2 == WindowSlots(b, k, mid + 1, until)
           f  == [s \in W |-> TpsAt(ps, s)]
           f1 == [s \in W1 |-> TpsAt(ps, s)]
           f2 == [s \in W2 |-> TpsAt(ps, s)]
<1>1. W1 \subseteq W /\ W2 = W \ W1
  BY DEF WindowSlots
<1>2. /\ Released(b, ps, k, since, until) = SumFunctionOnSet(f, W)
      /\ Released(b, ps, k, since, mid) = SumFunctionOnSet(f1, W1)
      /\ Released(b, ps, k, mid + 1, until) = SumFunctionOnSet(f2, W2)
  BY DEF Released, SumFunction
<1>3. IsFiniteSet(W)
  <2>1. W \subseteq since .. until
    BY DEF WindowSlots
  <2>2. QED
    BY <2>1, FS_Interval, FS_Subset
<1>4. IsFiniteSet(W1) /\ IsFiniteSet(W2)
  BY <1>1, <1>3, FS_Subset
<1>5. /\ \A s \in W : f[s] \in Nat
      /\ \A s \in W1 : f[s] \in Nat /\ f1[s] = f[s]
      /\ \A s \in W2 : f[s] \in Nat /\ f2[s] = f[s]
  <2> HIDE DEF W, W1, W2
  <2>1. \A s \in W : f[s] = TpsAt(ps, s) /\ TpsAt(ps, s) \in Nat
    BY RateType
  <2>2. QED
    BY <1>1, <2>1
<1> HIDE DEF f, f1, f2, W, W1, W2
<1>6. SumFunctionOnSet(f, W) = SumFunctionOnSet(f, W1) + SumFunctionOnSet(f, W2)
  BY <1>1, <1>3, <1>5, SumOfParts
<1>7. SumFunctionOnSet(f1, W1) = SumFunctionOnSet(f, W1)
  BY <1>4, <1>5, SumSame
<1>8. SumFunctionOnSet(f2, W2) = SumFunctionOnSet(f, W2)
  BY <1>4, <1>5, SumSame
<1>9. QED
  BY <1>2, <1>6, <1>7, <1>8

\* A younger window has no slots before those of an older one.
LEMMA WindowsDoNotCross ==
  ASSUME NEW b \in Buffer, NEW current, RingInOrder(b, current), NEW j \in Index, NEW k \in Index,
         j < k, NEW since \in Nat, NEW mid \in Int, NEW next \in Int, NEW until \in Int,
         next = mid + 1, since <= next,
         WindowSlots(b, j, since, mid) # {}
  PROVE  WindowSlots(b, k, next, until) = {}
<1>1. SUFFICES ASSUME NEW z \in WindowSlots(b, k, next, until) PROVE FALSE
  OBVIOUS
<1>2. PICK x \in WindowSlots(b, j, since, mid) : TRUE
  OBVIOUS
<1>3. x \in Int /\ x <= mid /\ Nth(b, j).startedAt <= x
  BY <1>2 DEF WindowSlots
<1>4. k > 0 /\ k - 1 \in Index /\ (j = k - 1 \/ j < k - 1)
  BY DEF Index
<1>5. z \in Int /\ next <= z /\ z < Nth(b, k - 1).startedAt
  BY <1>1, <1>4 DEF WindowSlots
<1>6. Nth(b, j).startedAt \in Nat /\ Nth(b, k - 1).startedAt \in Nat
  BY <1>4, NthType DEF Snapshot, Slot
<1>7. CASE j = k - 1
  BY <1>3, <1>5, <1>6, <1>7
<1>8. CASE j < k - 1
  <2>1. Nth(b, j).startedAt > Nth(b, k - 1).startedAt \/ Nth(b, k - 1).startedAt = 0
    BY <1>4, <1>8 DEF RingInOrder
  <2>2. QED
    BY <1>3, <1>5, <1>6, <2>1
<1>9. QED
  BY <1>4, <1>7, <1>8

\* A window that has slots in both parts.
IsCut(b, k, since, mid, until) ==
  WindowSlots(b, k, since, mid) # {} /\ WindowSlots(b, k, mid + 1, until) # {}

\* A whole that rounding twice may make larger than its parts, by one token.
IsNearly(whole, first, second) ==
  /\ whole \in Nat /\ first \in Nat /\ second \in Nat
  /\ first + second <= whole /\ whole <= first + second + 1

\* In a window that has slots in one of the parts only, nothing is lost; in
\* any other, rounding twice loses at most one token.
LEMMA OwedForSplits ==
  ASSUME NEW b \in Buffer, NEW ps \in Periods, NEW k \in Index, NEW staked \in Nat,
         NEW since \in Int, NEW mid \in Int, NEW next \in Int, NEW until \in Int,
         NEW whole, NEW first, NEW second,
         next = mid + 1, since <= next, mid <= until,
         whole = OwedFor(b, ps, since, until, staked)[k],
         first = OwedFor(b, ps, since, mid, staked)[k],
         second = OwedFor(b, ps, next, until, staked)[k]
  PROVE  /\ IsNearly(whole, first, second)
         /\ whole = first + second \/ IsCut(b, k, since, mid, until)
<1> DEFINE r      == Released(b, ps, k, since, until)
           r1     == Released(b, ps, k, since, mid)
           r2     == Released(b, ps, k, next, until)
           share  == Share(staked, Nth(b, k).staked)
<1>1. whole \in Nat /\ first \in Nat /\ second \in Nat
  BY OwedType
<1>2. /\ r \in Nat /\ r1 \in Nat /\ r2 \in Nat /\ r = r1 + r2
      /\ WindowSlots(b, k, since, mid) = {} => r1 = 0
      /\ WindowSlots(b, k, next, until) = {} => r2 = 0
  <2>1. r \in Nat
    BY OwedType
  <2>2. r1 \in Nat /\ (WindowSlots(b, k, since, mid) = {} => r1 = 0)
    BY OwedType
  <2>4. r2 \in Nat /\ (WindowSlots(b, k, next, until) = {} => r2 = 0)
    BY OwedType
  <2>5. r = r1 + r2
    BY ReleasedSplits
  <2>6. QED
    BY <2>1, <2>2, <2>4, <2>5
<1>3. CASE k \notin StakedAges(b)
  <2>1. whole = 0 /\ first = 0 /\ second = 0
    BY <1>3 DEF OwedFor
  <2>2. QED
    BY <2>1 DEF IsNearly
<1>4. CASE k \in StakedAges(b)
  <2>1. /\ whole = (r * share) \div Wad
        /\ first = (r1 * share) \div Wad
        /\ second = (r2 * share) \div Wad
    BY <1>4 DEF OwedFor
  <2>2. share \in Nat
    <3>1. Nth(b, k).staked \in Nat /\ Nth(b, k).staked > 0
      BY <1>4, NthType DEF StakedAges, Snapshot
    <3>2. Nth(b, k).staked \in Nat \ {0}
      BY <3>1
    <3>3. QED
      BY <3>2, ShareType
  <2> DEFINE p1 == r1 * share
             p2 == r2 * share
  <2> HIDE DEF r, r1, r2, share
  <2>3. p1 \in Nat /\ p2 \in Nat /\ r * share = p1 + p2
    <3>1. r1 * share \in Nat /\ r2 * share \in Nat
      BY <1>2, <2>2, Products
    <3>2. (r1 + r2) * share = r1 * share + r2 * share
      BY <1>2, <2>2
    <3>3. QED
      BY <1>2, <3>1, <3>2
  <2>4. (r1 = 0 => p1 = 0) /\ (r2 = 0 => p2 = 0)
    BY <2>2
  <2> HIDE DEF p1, p2
  <2>5. /\ p1 \div Wad + p2 \div Wad <= (p1 + p2) \div Wad
        /\ (p1 + p2) \div Wad <= p1 \div Wad + p2 \div Wad + 1
    BY <2>3, WadAssumption, DivideParts
  <2>6. /\ whole = (p1 + p2) \div Wad
        /\ first = p1 \div Wad /\ second = p2 \div Wad
    BY <2>1, <2>3 DEF p1, p2
  <2>7. r1 = 0 \/ r2 = 0 => whole = first + second
    <3>1. 0 \div Wad = 0 /\ p1 + 0 = p1 /\ 0 + p2 = p2
      BY <2>3, WadAssumption
    <3>2. CASE r1 = 0
      BY <1>1, <2>4, <2>6, <3>1, <3>2
    <3>3. CASE r2 = 0
      BY <1>1, <2>4, <2>6, <3>1, <3>3
    <3>4. QED
      BY <3>2, <3>3
  <2>8. first + second <= whole /\ whole <= first + second + 1
    BY <2>5, <2>6
  <2>9. QED
    BY <1>1, <1>2, <2>7, <2>8 DEF r1, r2, IsNearly, IsCut
<1>5. QED
  BY <1>3, <1>4

\* All windows together lose at most one token, since only one is cut.
LEMMA OwedSplits ==
  ASSUME NEW b \in Buffer, NEW current, RingInOrder(b, current), NEW ps \in Periods,
         NEW staked \in Nat, NEW since \in Nat, NEW mid \in Nat, NEW until \in Nat,
         since <= mid, mid < until
  PROVE  LET parts == Owed(b, ps, since, mid, staked) + Owed(b, ps, mid + 1, until, staked)
             whole == Owed(b, ps, since, until, staked)
         IN  parts <= whole /\ whole <= parts + 1
<1> DEFINE e == OwedFor(b, ps, since, until, staked)
           f == OwedFor(b, ps, since, mid, staked)
           next == mid + 1
           g == OwedFor(b, ps, next, until, staked)
           S == 0 .. RingLen - 1
<1>1. IsFiniteSet(S) /\ S = Index
  BY FS_Interval DEF Index
<1>2. next = mid + 1 /\ since <= next /\ mid <= until /\ next \in Nat
  OBVIOUS
<1> HIDE DEF next
<1>3. ASSUME NEW k \in S
      PROVE  IsNearly(e[k], f[k], g[k]) /\ (e[k] = f[k] + g[k] \/ IsCut(b, k, since, mid, until))
  <2>1. k \in Index
    BY <1>1
  <2>2. since \in Int /\ mid \in Int /\ next \in Int /\ until \in Int
    BY <1>2
  <2> DEFINE whole  == e[k]
             first  == f[k]
             second == g[k]
  <2>3. /\ whole = OwedFor(b, ps, since, until, staked)[k]
        /\ first = OwedFor(b, ps, since, mid, staked)[k]
        /\ second = OwedFor(b, ps, next, until, staked)[k]
    OBVIOUS
  <2> HIDE DEF whole, first, second
  <2>4. IsNearly(whole, first, second) /\ (whole = first + second \/ IsCut(b, k, since, mid, until))
    <3>1. b \in Buffer /\ ps \in Periods /\ staked \in Nat
      OBVIOUS
    <3>2. QED
      BY ONLY <1>2, <2>1, <2>2, <2>3, <3>1, OwedForSplits
  <2> HIDE DEF e, f, g
  <2>5. QED
    BY <2>4 DEF whole, first, second
<1> HIDE DEF e, f, g
<1>4. ASSUME NEW x \in S, NEW y \in S, e[x] # f[x] + g[x], e[y] # f[y] + g[y]
      PROVE  x = y
  <2>1. x \in Int /\ y \in Int /\ x \in Index /\ y \in Index
    BY <1>1
  <2>2. IsCut(b, x, since, mid, until) /\ IsCut(b, y, since, mid, until)
    BY <1>3, <1>4
  <2>3. /\ WindowSlots(b, x, since, mid) # {} /\ WindowSlots(b, x, next, until) # {}
        /\ WindowSlots(b, y, since, mid) # {} /\ WindowSlots(b, y, next, until) # {}
    BY <1>2, <2>2 DEF IsCut
  <2>4. ~(x < y) /\ ~(y < x)
    BY <1>2, <2>1, <2>3, WindowsDoNotCross
  <2>5. QED
    BY <2>1, <2>4
<1>5. NearlySum(e, f, g, S)
  BY <1>3, <1>4 DEF NearlySum, IsNearly
<1>6. /\ Owed(b, ps, since, until, staked) = SumFunctionOnSet(e, S)
      /\ Owed(b, ps, since, mid, staked) = SumFunctionOnSet(f, S)
      /\ Owed(b, ps, next, until, staked) = SumFunctionOnSet(g, S)
  BY <1>2, OwedByAge DEF e, f, g
<1>7. QED
  BY <1>1, <1>2, <1>5, <1>6, NearlySumsUp

-----------------------------------------------------------------------------
(* What is earned before it is rounded, in units of 1 / Wad of a token.    *)

\* What a stake earns in [since, until], by the age of the window.
EarnedFor(b, ps, since, until, staked) ==
  [k \in Index |->
     IF k \in StakedAges(b)
       THEN Released(b, ps, k, since, until) * Share(staked, Nth(b, k).staked) ELSE 0]

Earned(b, ps, since, until, staked) ==
  SumFunctionOnSet(EarnedFor(b, ps, since, until, staked), Index)

\* A ring has finitely many windows.
LEMMA IndexIsFinite == IsFiniteSet(Index)
BY FS_Interval DEF Index

\* The share of a window is a number, and grows with the stake.
LEMMA StakedShare ==
  ASSUME NEW b \in Buffer, NEW k \in StakedAges(b), NEW staked \in Nat
  PROVE  /\ Nth(b, k).staked \in Nat \ {0}
         /\ Share(staked, Nth(b, k).staked) \in Nat
         /\ staked = 0 => Share(staked, Nth(b, k).staked) = 0
<1> DEFINE total == Nth(b, k).staked
<1>1. total \in Nat \ {0}
  <2>1. total \in Nat /\ total > 0
    BY NthType DEF StakedAges, Snapshot
  <2>2. QED
    BY <2>1
<1> HIDE DEF total
<1>2. Share(staked, total) \in Nat
  BY <1>1, ShareType
<1>3. Share(0, total) = 0
  <2>1. 0 * Wad = 0 /\ 0 \div total = 0
    BY <1>1
  <2>2. QED
    BY <2>1 DEF Share
<1>4. QED
  BY <1>1, <1>2, <1>3 DEF total

\* What is earned is a number, in each window and in all.
LEMMA EarnedType ==
  ASSUME NEW b \in Buffer, NEW ps \in Periods, NEW since \in Int, NEW until \in Int,
         NEW staked \in Nat
  PROVE  /\ \A k \in Index : EarnedFor(b, ps, since, until, staked)[k] \in Nat
         /\ Earned(b, ps, since, until, staked) \in Nat
<1> DEFINE e == EarnedFor(b, ps, since, until, staked)
<1>1. ASSUME NEW k \in Index PROVE e[k] \in Nat
  <2>1. CASE k \in StakedAges(b)
    <3>1. Released(b, ps, k, since, until) \in Nat
      BY OwedType
    <3>2. Share(staked, Nth(b, k).staked) \in Nat
      BY <2>1, StakedShare
    <3>3. e[k] = Released(b, ps, k, since, until) * Share(staked, Nth(b, k).staked)
      BY <2>1 DEF EarnedFor
    <3> HIDE DEF e
    <3>4. QED
      BY <3>1, <3>2, <3>3, Products
  <2>2. CASE k \notin StakedAges(b)
    BY <2>2 DEF EarnedFor
  <2>3. QED
    BY <2>1, <2>2
<1> HIDE DEF e
<1>2. SumFunctionOnSet(e, Index) \in Nat
  BY <1>1, IndexIsFinite, SumUnfolds
<1>3. QED
  BY <1>1, <1>2 DEF e, Earned

\* Nothing is earned in no time, and nothing without a stake.
LEMMA NothingEarned ==
  ASSUME NEW b \in Buffer, NEW ps \in Periods, NEW since \in Int, NEW until \in Int,
         NEW staked \in Nat, until < since \/ staked = 0
  PROVE  Earned(b, ps, since, until, staked) = 0
<1> DEFINE e == EarnedFor(b, ps, since, until, staked)
<1>1. ASSUME NEW k \in Index PROVE e[k] = 0
  <2>1. CASE k \in StakedAges(b)
    <3> DEFINE r == Released(b, ps, k, since, until)
               share == Share(staked, Nth(b, k).staked)
    <3>1. r \in Nat /\ (until < since => r = 0)
      <4>1. until < since => WindowSlots(b, k, since, until) = {}
        BY DEF WindowSlots
      <4>2. QED
        BY <4>1, OwedType
    <3>2. share \in Nat /\ (staked = 0 => share = 0)
      BY <2>1, StakedShare
    <3>3. e[k] = r * share
      BY <2>1 DEF EarnedFor
    <3> HIDE DEF e, r, share
    <3>4. r * 0 = 0 /\ 0 * share = 0
      BY <3>1, <3>2
    <3>5. QED
      BY <3>1, <3>2, <3>3, <3>4
  <2>2. CASE k \notin StakedAges(b)
    BY <2>2 DEF EarnedFor
  <2>3. QED
    BY <2>1, <2>2
<1> HIDE DEF e
<1>2. SumFunctionOnSet(e, Index) = 0
  BY <1>1, IndexIsFinite, SumOfZeros
<1>3. QED
  BY <1>2 DEF e, Earned

\* An interval earns what its two parts earn.
LEMMA EarnedSplits ==
  ASSUME NEW b \in Buffer, NEW ps \in Periods, NEW staked \in Nat,
         NEW since \in Int, NEW mid \in Int, NEW next \in Int, NEW until \in Int,
         next = mid + 1, since <= next, mid <= until
  PROVE  Earned(b, ps, since, until, staked)
           = Earned(b, ps, since, mid, staked) + Earned(b, ps, next, until, staked)
<1> DEFINE e == EarnedFor(b, ps, since, until, staked)
           f == EarnedFor(b, ps, since, mid, staked)
           g == EarnedFor(b, ps, next, until, staked)
<1>1. ASSUME NEW k \in Index PROVE f[k] \in Nat /\ g[k] \in Nat /\ e[k] = f[k] + g[k]
  <2>1. f[k] \in Nat /\ g[k] \in Nat
    BY EarnedType
  <2>2. CASE k \in StakedAges(b)
    <3> DEFINE r     == Released(b, ps, k, since, until)
               r1    == Released(b, ps, k, since, mid)
               r2    == Released(b, ps, k, next, until)
               share == Share(staked, Nth(b, k).staked)
    <3>1. r1 \in Nat /\ r2 \in Nat /\ r = r1 + r2
      <4>1. r1 \in Nat
        BY OwedType
      <4>2. r2 \in Nat
        BY OwedType
      <4>3. r = r1 + r2
        BY ReleasedSplits
      <4>4. QED
        BY <4>1, <4>2, <4>3
    <3>2. share \in Nat
      BY <2>2, StakedShare
    <3>3. e[k] = r * share /\ f[k] = r1 * share /\ g[k] = r2 * share
      BY <2>2 DEF EarnedFor
    <3> HIDE DEF e, f, g, r, r1, r2, share
    <3>4. (r1 + r2) * share = r1 * share + r2 * share
      BY <3>1, <3>2
    <3>5. QED
      BY <2>1, <3>1, <3>3, <3>4
  <2>3. CASE k \notin StakedAges(b)
    BY <2>3 DEF EarnedFor
  <2>4. QED
    BY <2>1, <2>2, <2>3
<1> HIDE DEF e, f, g
<1>2. SumFunctionOnSet(e, Index) = SumFunctionOnSet(f, Index) + SumFunctionOnSet(g, Index)
  BY <1>1, IndexIsFinite, SumOfTwo
<1>3. QED
  BY <1>2 DEF e, f, g, Earned

\* A larger share of a total.
LEMMA ShareGrows ==
  ASSUME NEW total \in Nat \ {0}, NEW less \in Nat, NEW more \in Nat, less <= more
  PROVE  Share(less, total) <= Share(more, total)
<1> DEFINE x == less * Wad
           y == more * Wad
           z == x \div total
           w == y \div total
<1>1. x \in Nat /\ y \in Nat /\ x <= y
  <2>1. less * Wad \in Nat /\ more * Wad \in Nat
    BY Products
  <2>2. less * Wad = Wad * less /\ more * Wad = Wad * more /\ Wad * less <= Wad * more
    BY Products
  <2>3. QED
    BY <2>1, <2>2
<1> HIDE DEF x, y
<1>2. z \in Nat /\ w \in Nat /\ total * z <= x /\ y < total * w + total
  BY <1>1, Truncates
<1> HIDE DEF z, w
<1>3. total * w + total = total * (w + 1) /\ total * z \in Nat /\ total * (w + 1) \in Nat
  BY <1>2
<1>4. ~(w + 1 <= z)
  <2>1. SUFFICES ASSUME w + 1 <= z PROVE FALSE
    OBVIOUS
  <2> DEFINE v == w + 1
  <2>2. v \in Nat /\ v <= z
    BY <1>2, <2>1
  <2> HIDE DEF v
  <2>3. total * v <= total * z
    BY <1>2, <2>2, Products
  <2>4. QED
    BY <1>1, <1>2, <1>3, <2>3 DEF v
<1>5. QED
  BY <1>2, <1>4 DEF x, y, z, w, Share

\* A stake that is not smaller earns no less.
LEMMA EarnedGrows ==
  ASSUME NEW b \in Buffer, NEW ps \in Periods, NEW since \in Int, NEW until \in Int,
         NEW less \in Nat, NEW more \in Nat, less <= more
  PROVE  Earned(b, ps, since, until, less) <= Earned(b, ps, since, until, more)
<1> DEFINE f == EarnedFor(b, ps, since, until, less)
           e == EarnedFor(b, ps, since, until, more)
<1>1. ASSUME NEW k \in Index PROVE f[k] \in Nat /\ e[k] \in Nat /\ f[k] <= e[k]
  <2>1. f[k] \in Nat /\ e[k] \in Nat
    BY EarnedType
  <2>2. CASE k \in StakedAges(b)
    <3> DEFINE r  == Released(b, ps, k, since, until)
               s1 == Share(less, Nth(b, k).staked)
               s2 == Share(more, Nth(b, k).staked)
    <3>1. r \in Nat
      BY OwedType
    <3>2. s1 \in Nat /\ s2 \in Nat /\ s1 <= s2
      BY <2>2, StakedShare, ShareGrows
    <3>3. f[k] = r * s1 /\ e[k] = r * s2
      BY <2>2 DEF EarnedFor
    <3> HIDE DEF e, f, r, s1, s2
    <3>4. QED
      BY <2>1, <3>1, <3>2, <3>3, Products
  <2>3. CASE k \notin StakedAges(b)
    BY <2>3 DEF EarnedFor
  <2>4. QED
    BY <2>1, <2>2, <2>3
<1> HIDE DEF e, f
<1>2. SumFunctionOnSet(f, Index) <= SumFunctionOnSet(e, Index)
  BY <1>1, IndexIsFinite, SumMonotone
<1>3. QED
  BY <1>2 DEF e, f, Earned

\* Periods that release no more in the interval pay no more.
LEMMA EarnedAtLowerRates ==
  ASSUME NEW b \in Buffer, NEW ps \in Periods, NEW qs \in Periods,
         NEW since \in Int, NEW until \in Int, NEW staked \in Nat,
         \A s \in since .. until : TpsAt(qs, s) <= TpsAt(ps, s)
  PROVE  Earned(b, qs, since, until, staked) <= Earned(b, ps, since, until, staked)
<1> DEFINE f == EarnedFor(b, qs, since, until, staked)
           e == EarnedFor(b, ps, since, until, staked)
<1>1. ASSUME NEW k \in Index PROVE f[k] \in Nat /\ e[k] \in Nat /\ f[k] <= e[k]
  <2>1. f[k] \in Nat /\ e[k] \in Nat
    BY EarnedType
  <2>2. CASE k \in StakedAges(b)
    <3> DEFINE W == WindowSlots(b, k, since, until)
               p == [s \in W |-> TpsAt(ps, s)]
               q == [s \in W |-> TpsAt(qs, s)]
               r1 == Released(b, qs, k, since, until)
               r2 == Released(b, ps, k, since, until)
               share == Share(staked, Nth(b, k).staked)
    <3>1. r1 = SumFunctionOnSet(q, W) /\ r2 = SumFunctionOnSet(p, W)
      BY DEF Released, SumFunction
    <3>2. W \subseteq since .. until /\ IsFiniteSet(W)
      <4>1. W \subseteq since .. until
        BY DEF WindowSlots
      <4>2. QED
        BY <4>1, FS_Interval, FS_Subset
    <3> HIDE DEF W
    <3>3. \A s \in W : q[s] \in Nat /\ p[s] \in Nat /\ q[s] <= p[s]
      BY <3>2, RateType
    <3>4. r1 \in Nat /\ r2 \in Nat
      BY OwedType
    <3>5. share \in Nat
      BY <2>2, StakedShare
    <3>6. f[k] = r1 * share /\ e[k] = r2 * share
      BY <2>2 DEF EarnedFor
    <3> HIDE DEF e, f, p, q, r1, r2, share
    <3>7. r1 <= r2
      BY <3>1, <3>2, <3>3, SumMonotone
    <3>8. r1 * share = share * r1 /\ r2 * share = share * r2 /\ share * r1 <= share * r2
      BY <3>4, <3>5, <3>7, Products
    <3>9. QED
      BY <2>1, <3>6, <3>8
  <2>3. CASE k \notin StakedAges(b)
    BY <2>3 DEF EarnedFor
  <2>4. QED
    BY <2>1, <2>2, <2>3
<1> HIDE DEF e, f
<1>2. SumFunctionOnSet(f, Index) <= SumFunctionOnSet(e, Index)
  BY <1>1, IndexIsFinite, SumMonotone
<1>3. QED
  BY <1>2 DEF e, f, Earned

-----------------------------------------------------------------------------
(* Payments against earnings: what is paid is rounded down, so that it is   *)
(* never more than what is earned, interval by interval.                   *)

\* What is paid is never more than what is earned.
LEMMA OwedIsEarned ==
  ASSUME NEW b \in Buffer, NEW ps \in Periods, NEW since \in Int, NEW until \in Int,
         NEW staked \in Nat
  PROVE  /\ Owed(b, ps, since, until, staked) \in Nat
         /\ Wad * Owed(b, ps, since, until, staked) <= Earned(b, ps, since, until, staked)
<1> DEFINE o == OwedFor(b, ps, since, until, staked)
           e == EarnedFor(b, ps, since, until, staked)
           w == [k \in Index |-> Wad * o[k]]
<1>1. ASSUME NEW k \in Index PROVE o[k] \in Nat /\ w[k] = Wad * o[k] /\ w[k] \in Nat /\ w[k] <= e[k]
  <2>1. o[k] \in Nat
    BY OwedType
  <2>2. w[k] = Wad * o[k] /\ Wad * o[k] \in Nat
    <3> HIDE DEF o
    <3>1. QED
      BY <2>1, Products
  <2>3. CASE k \in StakedAges(b)
    <3> DEFINE r     == Released(b, ps, k, since, until)
               share == Share(staked, Nth(b, k).staked)
               p     == r * share
    <3>1. r \in Nat /\ share \in Nat
      BY <2>3, OwedType, StakedShare
    <3>2. o[k] = p \div Wad /\ e[k] = p
      BY <2>3 DEF OwedFor, EarnedFor
    <3> HIDE DEF o, e, w, r, share
    <3>3. p \in Nat
      BY <3>1, Products
    <3> HIDE DEF p
    <3>4. Wad * (p \div Wad) <= p
      BY <3>3, Truncates
    <3>5. QED
      BY <2>1, <2>2, <3>2, <3>4
  <2>4. CASE k \notin StakedAges(b)
    <3>1. o[k] = 0 /\ e[k] = 0
      BY <2>4 DEF OwedFor, EarnedFor
    <3> HIDE DEF o, e, w
    <3>2. Wad * 0 = 0
      OBVIOUS
    <3>3. QED
      BY <2>1, <2>2, <3>1, <3>2
  <2>5. QED
    BY <2>3, <2>4
<1>2. \A k \in Index : e[k] \in Nat
  BY EarnedType
<1>3. Owed(b, ps, since, until, staked) = SumFunctionOnSet(o, Index)
  BY OwedByAge DEF Index
<1> HIDE DEF o, e, w
<1>4. SumFunctionOnSet(o, Index) \in Nat
  BY <1>1, IndexIsFinite, SumUnfolds
<1>5. SumFunctionOnSet(w, Index) = Wad * SumFunctionOnSet(o, Index)
  BY <1>1, IndexIsFinite, SumOfMultiples
<1>6. SumFunctionOnSet(w, Index) <= SumFunctionOnSet(e, Index)
  BY <1>1, <1>2, IndexIsFinite, SumMonotone
<1>7. QED
  BY <1>3, <1>4, <1>5, <1>6 DEF e, Earned

\* A snapshot changes nothing of what was earned before it; the ring may forget
\* its oldest window.
LEMMA EarnedAfterPush ==
  ASSUME NEW b \in Buffer, NEW ps \in Periods, NEW since \in Int, NEW until \in Int,
         NEW staked \in Nat, NEW amount \in Nat, NEW clock \in Nat, until < clock
  PROVE  Earned(Push(b, amount, clock), ps, since, until, staked)
           <= Earned(b, ps, since, until, staked)
<1> DEFINE c == Push(b, amount, clock)
           n == RingLen - 1
           e == EarnedFor(c, ps, since, until, staked)
           f == EarnedFor(b, ps, since, until, staked)
<1>1. c \in Buffer
  BY PushType
<1>2. \A k \in Index : Nth(c, k) = IF k = 0 THEN [staked |-> amount, startedAt |-> clock]
                                   ELSE Nth(b, k - 1)
  BY PushAges
<1> HIDE DEF c
<1>3. /\ \A k \in Index : e[k] \in Nat
      /\ \A k \in Index : f[k] \in Nat
  <2>1. \A k \in Index : e[k] \in Nat
    BY <1>1, EarnedType
  <2>2. \A k \in Index : f[k] \in Nat
    BY EarnedType
  <2>3. QED
    BY <2>1, <2>2
<1>4. 0 \in Index /\ n \in Nat /\ Index = 0 .. n
  BY DEF Index
<1>5. e[0] = 0
  <2>1. CASE 0 \in StakedAges(c)
    <3> DEFINE r     == Released(c, ps, 0, since, until)
               share == Share(staked, Nth(c, 0).staked)
    <3>1. WindowSlots(c, 0, since, until) = {}
      BY <1>2, <1>4 DEF WindowSlots
    <3>2. r = 0
      <4>1. 0 \in Index
        BY <1>4
      <4>2. c \in Buffer /\ ps \in Periods /\ since \in Int /\ until \in Int /\ staked \in Nat
        BY <1>1
      <4>3. QED
        BY ONLY <3>1, <4>1, <4>2, OwedType
    <3>3. share \in Nat
      BY <1>1, <2>1, StakedShare
    <3>4. e[0] = r * share
      BY <1>4, <2>1 DEF EarnedFor
    <3> HIDE DEF e, r, share
    <3>5. QED
      BY <3>2, <3>3, <3>4
  <2>2. CASE 0 \notin StakedAges(c)
    BY <1>4, <2>2 DEF EarnedFor
  <2>3. QED
    BY <2>1, <2>2
<1>6. ASSUME NEW k \in Index, NEW j \in Index, j = k - 1 PROVE e[k] = f[j]
  <2>1. k \in 1 .. n /\ j \in 0 .. n
    BY <1>4, <1>6
  <2>2. Nth(c, k) = Nth(b, j)
    BY <1>2, <1>6, <2>1
  <2>3. k \in StakedAges(c) <=> j \in StakedAges(b)
    BY <2>2 DEF StakedAges
  <2>4. WindowSlots(c, k, since, until) = WindowSlots(b, j, since, until)
    <3>1. CASE j = 0
      <4>1. Nth(c, 0).startedAt = clock
        BY <1>2, <1>4
      <4>2. k > 0 /\ ~(j > 0) /\ k - 1 = 0
        BY <1>6, <2>1, <3>1
      <4>3. WindowSlots(c, k, since, until) = {s \in since .. until : Nth(b, j).startedAt <= s /\ s < clock}
        BY <2>2, <4>1, <4>2 DEF WindowSlots
      <4>4. WindowSlots(b, j, since, until) = {s \in since .. until : Nth(b, j).startedAt <= s}
        BY <4>2 DEF WindowSlots
      <4>5. \A s \in since .. until : s < clock
        OBVIOUS
      <4>6. QED
        BY <4>3, <4>4, <4>5
    <3>2. CASE j > 0
      <4>1. Nth(c, j) = Nth(b, j - 1)
        BY <1>2, <3>2
      <4>2. k > 0 /\ k - 1 = j
        BY <1>6, <2>1
      <4>3. WindowSlots(c, k, since, until)
              = {s \in since .. until : Nth(b, j).startedAt <= s /\ s < Nth(b, j - 1).startedAt}
        BY <2>2, <4>1, <4>2 DEF WindowSlots
      <4>4. WindowSlots(b, j, since, until)
              = {s \in since .. until : Nth(b, j).startedAt <= s /\ s < Nth(b, j - 1).startedAt}
        BY <3>2 DEF WindowSlots
      <4>5. QED
        BY <4>3, <4>4
    <3>3. QED
      BY <2>1, <3>1, <3>2
  <2>5. Released(c, ps, k, since, until) = Released(b, ps, j, since, until)
    BY <2>4 DEF Released
  <2>6. QED
    BY <2>2, <2>3, <2>5 DEF EarnedFor
<1> HIDE DEF e, f
<1>7. IsShifted(e, f, 0, n, 0)
  <2>1. \A k \in 0 .. n : e[k] \in Nat /\ f[k] \in Nat
    BY <1>3, <1>4
  <2>2. ASSUME NEW k \in 0 + 1 .. n PROVE e[k] <= f[k - 1]
    <3>1. PICK j : j = k - 1
      OBVIOUS
    <3>2. k \in Index /\ j \in Index
      BY <1>4, <3>1
    <3>3. e[k] = f[j] /\ e[k] \in Nat
      BY <1>3, <1>6, <3>1, <3>2
    <3>4. QED
      BY <3>1, <3>3
  <2> HIDE DEF n
  <2>3. QED
    BY <1>4, <1>5, <2>1, <2>2 DEF IsShifted
<1>8. SumFunctionOnSet(e, 0 .. n) <= 0 + SumFunctionOnSet(f, 0 .. n)
  BY <1>7, SumOfShifted
<1>9. SumFunctionOnSet(f, Index) \in Nat
  BY <1>3, IndexIsFinite, SumUnfolds
<1> HIDE DEF n
<1>10. SumFunctionOnSet(e, Index) <= SumFunctionOnSet(f, Index)
  BY <1>4, <1>8, <1>9
<1>11. QED
  BY <1>10 DEF e, f, c, Earned

\* The part of what is released now that a stake earns.
PartOf(b, staked) == IF 0 \in StakedAges(b) THEN Share(staked, Latest(b).staked) ELSE 0

\* In the open window each slot pays the stake's part of its rate.
LEMMA EarnedNow ==
  ASSUME NEW b \in Buffer, NEW ps \in Periods, NEW s \in Nat, RingInOrder(b, s),
         NEW staked \in Nat
  PROVE  /\ PartOf(b, staked) \in Nat
         /\ Earned(b, ps, s, s, staked) = TpsAt(ps, s) * PartOf(b, staked)
<1> DEFINE e == EarnedFor(b, ps, s, s, staked)
           part == PartOf(b, staked)
<1>1. 0 \in Index /\ Nth(b, 0) = Latest(b) /\ Latest(b).startedAt <= s
  BY EndsOfRing DEF RingInOrder
<1>2. part \in Nat
  BY <1>1, StakedShare DEF PartOf
<1>3. TpsAt(ps, s) \in Nat
  BY RateType
<1>4. e[0] = TpsAt(ps, s) * part
  <2>1. CASE 0 \in StakedAges(b)
    <3> DEFINE p == [x \in {s} |-> TpsAt(ps, x)]
    <3>1. WindowSlots(b, 0, s, s) = {s}
      <4>1. ASSUME NEW x PROVE x \in s .. s <=> x = s
        OBVIOUS
      <4>2. QED
        BY <1>1, <4>1 DEF WindowSlots
    <3>2. Released(b, ps, 0, s, s) = SumFunctionOnSet(p, {s})
      BY <3>1 DEF Released, SumFunction
    <3>3. p[s] = TpsAt(ps, s)
      OBVIOUS
    <3> HIDE DEF p
    <3>4. SumFunctionOnSet(p, {s}) = p[s]
      BY <1>3, <3>3, SumOfOne
    <3>5. Released(b, ps, 0, s, s) = TpsAt(ps, s)
      BY <3>2, <3>3, <3>4
    <3>6. QED
      BY <1>1, <2>1, <3>5 DEF EarnedFor, PartOf
  <2>2. CASE 0 \notin StakedAges(b)
    <3>1. e[0] = 0 /\ part = 0
      BY <1>1, <2>2 DEF EarnedFor, PartOf
    <3> HIDE DEF e, part
    <3>2. QED
      BY <1>3, <3>1
  <2>3. QED
    BY <2>1, <2>2
<1>5. ASSUME NEW k \in Index \ {0} PROVE e[k] = 0
  <2>1. CASE k \in StakedAges(b)
    <3> DEFINE j == k - 1
               r == Released(b, ps, k, s, s)
               share == Share(staked, Nth(b, k).staked)
    <3>1. j \in Index /\ k > 0
      BY DEF Index
    <3>2. Nth(b, j).startedAt \in Nat /\ Nth(b, 0).startedAt \in Nat
      BY <1>1, <3>1, NthType DEF Snapshot, Slot
    <3>3. Nth(b, j).startedAt <= s
      <4>1. j = 0 \/ 0 < j
        BY <3>1 DEF Index
      <4>2. CASE j = 0
        BY <1>1, <4>2
      <4>3. CASE 0 < j
        <5>1. Nth(b, 0).startedAt > Nth(b, j).startedAt \/ Nth(b, j).startedAt = 0
          BY <1>1, <3>1, <4>3 DEF RingInOrder
        <5>2. QED
          BY <1>1, <3>2, <5>1
      <4>4. QED
        BY <4>1, <4>2, <4>3
    <3>4. WindowSlots(b, k, s, s) = {}
      BY <3>1, <3>2, <3>3 DEF WindowSlots
    <3>5. r = 0
      BY <3>4, OwedType
    <3>6. share \in Nat
      BY <2>1, StakedShare
    <3>7. e[k] = r * share
      BY <2>1 DEF EarnedFor
    <3> HIDE DEF e, r, share
    <3>8. QED
      BY <3>5, <3>6, <3>7
  <2>2. CASE k \notin StakedAges(b)
    BY <2>2 DEF EarnedFor
  <2>3. QED
    BY <2>1, <2>2
<1>6. \A k \in Index : e[k] \in Nat
  BY EarnedType
<1> HIDE DEF e, part
<1>7. SumFunctionOnSet(e, Index) = e[0] + SumFunctionOnSet(e, Index \ {0})
  BY <1>1, <1>6, IndexIsFinite, SumUnfolds
<1>8. SumFunctionOnSet(e, Index \ {0}) = 0
  <2>1. IsFiniteSet(Index \ {0})
    BY IndexIsFinite, FS_Difference
  <2>2. QED
    BY <1>5, <2>1, SumOfZeros
<1>9. SumFunctionOnSet(e, Index) = e[0]
  BY <1>1, <1>6, <1>7, <1>8
<1>10. QED
  BY <1>2, <1>4, <1>9 DEF e, part, Earned

\* Nothing is earned while nothing is released.
LEMMA EarnedOfNothing ==
  ASSUME NEW b \in Buffer, NEW ps \in Periods, NEW since \in Int, NEW until \in Int,
         NEW staked \in Nat, \A s : TpsAt(ps, s) = 0
  PROVE  Earned(b, ps, since, until, staked) = 0
<1> DEFINE e == EarnedFor(b, ps, since, until, staked)
<1>1. ASSUME NEW k \in Index PROVE e[k] = 0
  <2>1. CASE k \in StakedAges(b)
    <3> DEFINE W == WindowSlots(b, k, since, until)
               p == [s \in W |-> TpsAt(ps, s)]
               r == Released(b, ps, k, since, until)
               share == Share(staked, Nth(b, k).staked)
    <3>1. r = SumFunctionOnSet(p, W)
      BY DEF Released, SumFunction
    <3>2. IsFiniteSet(W)
      <4>1. W \subseteq since .. until
        BY DEF WindowSlots
      <4>2. QED
        BY <4>1, FS_Interval, FS_Subset
    <3> HIDE DEF W
    <3>3. \A s \in W : p[s] = 0
      OBVIOUS
    <3>4. share \in Nat
      BY <2>1, StakedShare
    <3>5. e[k] = r * share
      BY <2>1 DEF EarnedFor
    <3> HIDE DEF e, p, r, share
    <3>6. r = 0
      BY <3>1, <3>2, <3>3, SumOfZeros
    <3>7. QED
      BY <3>4, <3>5, <3>6
  <2>2. CASE k \notin StakedAges(b)
    BY <2>2 DEF EarnedFor
  <2>3. QED
    BY <2>1, <2>2
<1> HIDE DEF e
<1>2. SumFunctionOnSet(e, Index) = 0
  BY <1>1, IndexIsFinite, SumOfZeros
<1>3. QED
  BY <1>2 DEF e, Earned

\* A stake that grows from `less` to `more` at a slot earns no more when it grows
\* later, or to less.
LEMMA EarnedLater ==
  ASSUME NEW b \in Buffer, NEW ps \in Periods, NEW since \in Int, NEW until \in Int,
         NEW at \in Int, NEW later \in Int, since <= at, at <= later, later <= until + 1,
         NEW less \in Nat, NEW more \in Nat, less <= more,
         NEW less2 \in Nat, NEW more2 \in Nat, less2 <= less,
         more2 <= more \/ later = until + 1
  PROVE  Earned(b, ps, since, later - 1, less2) + Earned(b, ps, later, until, more2)
           <= Earned(b, ps, since, at - 1, less) + Earned(b, ps, at, until, more)
<1> DEFINE before == at - 1
           pause  == later - 1
           a1 == Earned(b, ps, since, pause, less2)
           a2 == Earned(b, ps, since, before, less2)
           a3 == Earned(b, ps, at, pause, less2)
           b1 == Earned(b, ps, at, until, more)
           b2 == Earned(b, ps, at, pause, more)
           b3 == Earned(b, ps, later, until, more)
           c1 == Earned(b, ps, later, until, more2)
           d1 == Earned(b, ps, since, before, less)
<1>1. /\ before \in Int /\ pause \in Int /\ at = before + 1 /\ later = pause + 1
      /\ since <= at /\ before <= pause /\ pause <= until /\ at <= later
  OBVIOUS
<1> HIDE DEF before, pause
<1>2. a1 \in Nat /\ a2 \in Nat /\ a3 \in Nat /\ b1 \in Nat
  BY <1>1, EarnedType
<1>3. b2 \in Nat /\ b3 \in Nat /\ c1 \in Nat /\ d1 \in Nat
  BY <1>1, EarnedType
<1>4. a1 = a2 + a3
  BY <1>1, EarnedSplits
<1>5. b1 = b2 + b3
  BY <1>1, EarnedSplits
<1>6. a2 <= d1
  BY <1>1, EarnedGrows
<1>7. a3 <= b2
  <2>1. less2 <= more
    OBVIOUS
  <2>2. QED
    BY <1>1, <2>1, EarnedGrows
<1>8. c1 <= b3
  <2>1. CASE more2 <= more
    BY <2>1, EarnedGrows
  <2>2. CASE later = until + 1
    <3>1. until < later
      BY <2>2
    <3>2. c1 = 0
      BY <3>1, NothingEarned
    <3> HIDE DEF c1, b3
    <3>3. QED
      BY <1>3, <3>2
  <2>3. QED
    BY <2>1, <2>2
<1> HIDE DEF a1, a2, a3, b1, b2, b3, c1, d1
<1>9. a1 + c1 <= d1 + b1
  BY <1>2, <1>3, <1>4, <1>5, <1>6, <1>7, <1>8
<1>10. QED
  BY <1>9 DEF a1, b1, c1, d1, before, pause

-----------------------------------------------------------------------------
(* What the periods of a harvest still release, and what it costs to add   *)
(* one.                                                                    *)

\* What a period still releases from a slot on.
Remains(p, from) == Larger(0, p.endsAt - Larger(from, p.startsAt) + 1) * p.tps

\* What all periods still release.
Remaining(ps, from) == [i \in 1 .. PeriodsLen |-> Remains(ps[i], from)]

Ahead(ps, from) == SumFunctionOnSet(Remaining(ps, from), 1 .. PeriodsLen)

\* A harvest has finitely many periods.
LEMMA PeriodIndicesAreFinite == IsFiniteSet(1 .. PeriodsLen)
BY FS_Interval

\* What a period still releases is a number.
LEMMA RemainsType ==
  ASSUME NEW p \in Period, NEW from \in Nat
  PROVE  Remains(p, from) \in Nat
<1> DEFINE n == Larger(0, p.endsAt - Larger(from, p.startsAt) + 1)
<1>1. n \in Nat /\ p.tps \in Nat
  BY DEF Period, Larger
<1> HIDE DEF n
<1>2. QED
  BY <1>1, Products DEF Remains, n

\* What all periods still release is a number.
LEMMA AheadType ==
  ASSUME NEW ps \in Periods, NEW from \in Nat
  PROVE  /\ \A i \in 1 .. PeriodsLen : Remaining(ps, from)[i] \in Nat
         /\ Ahead(ps, from) \in Nat
<1> DEFINE g == Remaining(ps, from)
<1>1. \A i \in 1 .. PeriodsLen : g[i] \in Nat
  BY RemainsType DEF Periods, Remaining
<1> HIDE DEF g
<1>2. SumFunctionOnSet(g, 1 .. PeriodsLen) \in Nat
  BY <1>1, PeriodIndicesAreFinite, SumUnfolds
<1>3. QED
  BY <1>1, <1>2 DEF g, Ahead

\* A slot later, less remains.
LEMMA RemainsShrinks ==
  ASSUME NEW p \in Period, NEW from \in Nat, NEW next \in Nat, next = from + 1
  PROVE  /\ Remains(p, next) <= Remains(p, from)
         /\ Covers(p, from) => Remains(p, next) + p.tps = Remains(p, from)
<1> DEFINE n == Larger(0, p.endsAt - Larger(from, p.startsAt) + 1)
           k == Larger(0, p.endsAt - Larger(next, p.startsAt) + 1)
<1>1. /\ n \in Nat /\ k \in Nat /\ p.tps \in Nat /\ k <= n
      /\ Covers(p, from) => n = k + 1
  BY DEF Period, Larger, Covers
<1>2. Remains(p, from) = n * p.tps /\ Remains(p, next) = k * p.tps
  BY DEF Remains
<1> HIDE DEF n, k
<1>3. k * p.tps <= n * p.tps
  <2>1. p.tps * k <= p.tps * n /\ p.tps * k = k * p.tps /\ p.tps * n = n * p.tps
    BY <1>1, Products
  <2>2. QED
    BY <2>1
<1>4. (k + 1) * p.tps = k * p.tps + p.tps
  BY <1>1
<1>5. QED
  BY <1>1, <1>2, <1>3, <1>4

\* What remains from a slot on has the slot's own rate in it.
LEMMA SlotIsAhead ==
  ASSUME NEW ps \in Periods, NEW from \in Nat, NEW next \in Nat, next = from + 1
  PROVE  TpsAt(ps, from) + Ahead(ps, next) <= Ahead(ps, from)
<1> DEFINE f == Remaining(ps, from)
           g == Remaining(ps, next)
           S == 1 .. PeriodsLen
<1>1. \A i \in S : f[i] \in Nat /\ g[i] \in Nat
  BY AheadType
<1>2. \A i \in S : /\ g[i] <= f[i] /\ ps[i].tps \in Nat
                   /\ Covers(ps[i], from) => g[i] + ps[i].tps = f[i]
  <2>1. TAKE i \in S
  <2>2. ps[i] \in Period
    BY DEF Periods
  <2>3. f[i] = Remains(ps[i], from) /\ g[i] = Remains(ps[i], next)
    BY DEF Remaining
  <2>4. QED
    BY <2>2, <2>3, RemainsShrinks DEF Period
<1>3. /\ Ahead(ps, from) = SumFunctionOnSet(f, S)
      /\ Ahead(ps, next) = SumFunctionOnSet(g, S)
  BY DEF Ahead
<1>4. IsFiniteSet(S)
  BY PeriodIndicesAreFinite
<1> HIDE DEF f, g, S
<1>5. SumFunctionOnSet(f, S) \in Nat /\ SumFunctionOnSet(g, S) \in Nat
  BY <1>1, <1>4, SumUnfolds
<1>6. CASE \E i \in S : Covers(ps[i], from)
  <2> DEFINE i == CHOOSE i \in S : Covers(ps[i], from)
             h == [j \in S |-> IF j = i THEN f[i] ELSE g[j]]
  <2>1. i \in S /\ Covers(ps[i], from)
    BY <1>6
  <2>2. TpsAt(ps, from) = ps[i].tps
    BY <1>6 DEF TpsAt, S
  <2> HIDE DEF i
  <2>3. \A j \in S : h[j] \in Nat /\ h[j] <= f[j]
    BY <1>1, <1>2, <2>1
  <2>4. h[i] = f[i] /\ \A j \in S \ {i} : h[j] = g[j]
    BY <2>1
  <2> HIDE DEF h
  <2>5. SumFunctionOnSet(h, S) <= SumFunctionOnSet(f, S)
    BY <1>1, <1>4, <2>3, SumMonotone
  <2>6. SumFunctionOnSet(h, S) + g[i] = SumFunctionOnSet(g, S) + h[i]
    BY <1>1, <1>4, <2>1, <2>3, <2>4, SumChanges
  <2>7. SumFunctionOnSet(h, S) \in Nat
    BY <1>4, <2>3, SumUnfolds
  <2>8. g[i] + ps[i].tps = f[i] /\ g[i] \in Nat /\ f[i] \in Nat /\ ps[i].tps \in Nat
    BY <1>1, <1>2, <2>1
  <2>9. QED
    BY <1>3, <1>5, <2>2, <2>4, <2>5, <2>6, <2>7, <2>8
<1>7. CASE ~\E i \in S : Covers(ps[i], from)
  <2>1. TpsAt(ps, from) = 0
    BY <1>7 DEF TpsAt, S
  <2>2. SumFunctionOnSet(g, S) <= SumFunctionOnSet(f, S)
    BY <1>1, <1>2, <1>4, SumMonotone
  <2>3. QED
    BY <1>3, <1>5, <2>1, <2>2
<1>8. QED
  BY <1>6, <1>7

\* An array without periods releases nothing.
LEMMA NothingAhead ==
  ASSUME NEW from \in Nat
  PROVE  NoPeriods \in Periods /\ Ahead(NoPeriods, from) = 0 /\ \A s : TpsAt(NoPeriods, s) = 0
<1> DEFINE g == Remaining(NoPeriods, from)
<1>1. \A i \in 1 .. PeriodsLen : NoPeriods[i] = NoPeriod
  BY DEF NoPeriods
<1>2. Remains(NoPeriod, from) = 0
  <2> DEFINE n == Larger(0, NoPeriod.endsAt - Larger(from, NoPeriod.startsAt) + 1)
  <2>1. n \in Nat /\ NoPeriod.tps = 0
    BY DEF NoPeriod, Larger
  <2>2. Remains(NoPeriod, from) = n * 0
    BY <2>1 DEF Remains
  <2> HIDE DEF n
  <2>3. QED
    BY <2>1, <2>2
<1>3. \A i \in 1 .. PeriodsLen : g[i] = 0
  BY <1>1, <1>2 DEF Remaining
<1> HIDE DEF g
<1>4. SumFunctionOnSet(g, 1 .. PeriodsLen) = 0
  BY <1>3, PeriodIndicesAreFinite, SumOfZeros
<1>5. \A s : TpsAt(NoPeriods, s) = 0
  <2>1. \A s : \A i \in 1 .. PeriodsLen : ~Covers(NoPeriods[i], s)
    BY <1>1 DEF Covers, Used, NoPeriod
  <2>2. QED
    BY <2>1 DEF TpsAt
<1>6. NoPeriods \in Periods
  BY NoPeriodsInOrder
<1>7. QED
  BY <1>4, <1>5, <1>6 DEF g, Ahead

-----------------------------------------------------------------------------
(* A period is set.                                                        *)

\* What a period that has not started releases is all that it emits.
LEMMA RemainsAll ==
  ASSUME NEW p \in Period, p.startsAt <= p.endsAt, NEW from \in Nat
  PROVE  /\ TotalEmitted(p) \in Nat
         /\ from <= p.startsAt => Remains(p, from) = TotalEmitted(p)
         /\ from = p.startsAt + 1 => Remains(p, from) + p.tps = TotalEmitted(p)
<1> DEFINE n == Larger(0, p.endsAt - Larger(from, p.startsAt) + 1)
           k == p.endsAt - p.startsAt + 1
<1>1. /\ n \in Nat /\ k \in Nat /\ p.tps \in Nat
      /\ from <= p.startsAt => n = k
      /\ from = p.startsAt + 1 => n + 1 = k
  BY DEF Period, Larger
<1>2. Remains(p, from) = n * p.tps /\ TotalEmitted(p) = k * p.tps
  BY DEF Remains, TotalEmitted
<1> HIDE DEF n, k
<1>3. k * p.tps \in Nat
  BY <1>1, Products
<1>4. (n + 1) * p.tps = n * p.tps + p.tps
  BY <1>1
<1>5. QED
  BY <1>1, <1>2, <1>3, <1>4

\* What is refunded of a launch that is edited.
Refund(ps, now) == IF IsScheduled(ps, now) THEN TotalEmitted(ps[1]) ELSE 0

\* The new period takes the place of the launch, or of the oldest period.
LEMMA AheadAfterSetPeriod ==
  ASSUME NEW ps \in Periods, NEW now \in Nat, OrderAt(ps, now), NEW p \in Period,
         NEW from \in Nat, from <= now + 1
  PROVE  /\ Refund(ps, now) \in Nat
         /\ Ahead(SetPeriod(ps, now, p), from) + Refund(ps, now) <= Ahead(ps, from) + Remains(p, from)
<1> DEFINE qs == SetPeriod(ps, now, p)
           f == Remaining(ps, from)
           e == Remaining(qs, from)
           S == 1 .. PeriodsLen
<1>1. qs \in Periods
  BY SetPeriodType
<1>2. \A i \in S : e[i] = Remains(qs[i], from) /\ f[i] = Remains(ps[i], from)
  BY DEF Remaining
<1>3. (\A i \in S : e[i] \in Nat) /\ (\A i \in S : f[i] \in Nat)
  <2>1. \A i \in S : e[i] \in Nat
    BY <1>1, AheadType
  <2>2. \A i \in S : f[i] \in Nat
    BY AheadType
  <2>3. QED
    BY <2>1, <2>2
<1>4. 1 \in S
  OBVIOUS
<1>5. CASE IsScheduled(ps, now)
  <2>1. qs = [ps EXCEPT ![1] = p]
    BY <1>5 DEF SetPeriod
  <2>2. qs[1] = p /\ \A i \in S \ {1} : qs[i] = ps[i]
    BY <1>4, <2>1 DEF Periods
  <2> HIDE DEF qs
  <2>3. e[1] = Remains(p, from) /\ \A i \in S \ {1} : e[i] = f[i]
    BY <1>2, <1>4, <2>2
  <2>4. ps[1] \in Period /\ ps[1].startsAt > now
    BY <1>4, <1>5 DEF Periods, IsScheduled
  <2>5. ps[1] # NoPeriod
    BY <2>4 DEF NoPeriod
  <2>6. ps[1].startsAt <= ps[1].endsAt
    <3>1. ps[1].startsAt < ps[1].endsAt
      BY <1>4, <2>5 DEF OrderAt
    <3>2. QED
      BY <2>4, <3>1 DEF Period
  <2>7. from <= ps[1].startsAt
    BY <2>4 DEF Period
  <2>8. f[1] = TotalEmitted(ps[1]) /\ TotalEmitted(ps[1]) \in Nat
    <3>1. Remains(ps[1], from) = TotalEmitted(ps[1]) /\ TotalEmitted(ps[1]) \in Nat
      BY <2>4, <2>6, <2>7, RemainsAll
    <3>2. QED
      BY <1>2, <1>4, <3>1
  <2>9. Refund(ps, now) = TotalEmitted(ps[1])
    BY <1>5 DEF Refund
  <2> HIDE DEF e, f, S
  <2>10. IsFiniteSet(S)
    BY PeriodIndicesAreFinite DEF S
  <2>11. SumFunctionOnSet(e, S) + f[1] = SumFunctionOnSet(f, S) + e[1]
    BY <1>3, <1>4, <2>3, <2>10, SumChanges
  <2>12. SumFunctionOnSet(e, S) \in Nat /\ SumFunctionOnSet(f, S) \in Nat
    BY <1>3, <2>10, SumUnfolds
  <2>13. QED
    BY <2>3, <2>8, <2>9, <2>11, <2>12 DEF e, f, qs, S, Ahead
<1>6. CASE ~IsScheduled(ps, now)
  <2>1. qs = [i \in S |-> IF i = 1 THEN p ELSE ps[i - 1]]
    BY <1>6 DEF SetPeriod
  <2>2. Refund(ps, now) = 0
    BY <1>6 DEF Refund
  <2> DEFINE c == Remains(p, from)
             n == PeriodsLen
  <2>3. c \in Nat
    BY RemainsType
  <2>4. e[1] = c
    BY <1>2, <1>4, <2>1
  <2>5. ASSUME NEW i \in 1 + 1 .. n PROVE e[i] <= f[i - 1]
    <3>1. PICK j : j = i - 1
      OBVIOUS
    <3>2. i \in S /\ j \in S /\ i # 1
      BY <3>1
    <3>3. qs[i] = ps[j]
      BY <2>1, <3>1, <3>2
    <3>4. e[i] = f[j] /\ e[i] \in Nat
      <4> HIDE DEF e, f, qs, S
      <4>1. QED
        BY <1>2, <1>3, <3>2, <3>3
    <3>5. QED
      BY <3>1, <3>4
  <2> HIDE DEF e, f, c, qs
  <2>6. IsShifted(e, f, 1, n, c)
    <3>1. 1 \in Nat /\ n \in Nat /\ 1 <= n
      OBVIOUS
    <3>2. \A i \in 1 .. n : f[i] \in Nat /\ e[i] \in Nat
      BY <1>3
    <3>3. e[1] <= c
      BY <2>3, <2>4
    <3> HIDE DEF n, S
    <3>4. QED
      BY <2>3, <2>5, <3>1, <3>2, <3>3 DEF IsShifted
  <2>7. SumFunctionOnSet(e, S) <= c + SumFunctionOnSet(f, S)
    BY <2>6, SumOfShifted
  <2>8. SumFunctionOnSet(e, S) \in Nat /\ SumFunctionOnSet(f, S) \in Nat
    BY <1>3, PeriodIndicesAreFinite, SumUnfolds
  <2>9. QED
    BY <2>2, <2>3, <2>7, <2>8 DEF e, f, c, qs, Ahead
<1>7. QED
  BY <1>5, <1>6

\* What was released before the new period starts is not raised.
LEMMA RatesBeforePeriod ==
  ASSUME NEW ps \in Periods, NEW now \in Nat, OrderAt(ps, now), NEW p \in Period,
         NEW s \in Int, s < p.startsAt
  PROVE  TpsAt(SetPeriod(ps, now, p), s) <= TpsAt(ps, s)
<1> DEFINE qs == SetPeriod(ps, now, p)
           S == 1 .. PeriodsLen
<1>1. qs \in Periods
  BY SetPeriodType
<1>2. TpsAt(ps, s) \in Nat
  BY RateType
<1>3. CASE \E i \in S : Covers(qs[i], s)
  <2> DEFINE i == CHOOSE i \in S : Covers(qs[i], s)
  <2>1. i \in S /\ Covers(qs[i], s)
    BY <1>3
  <2>2. TpsAt(qs, s) = qs[i].tps
    BY <1>3 DEF TpsAt
  <2> HIDE DEF i
  <2>3. \E j \in S : qs[i] = ps[j]
    <3>1. qs[i] # p
      BY <2>1 DEF Covers, Period
    <3>2. CASE IsScheduled(ps, now)
      <4>1. qs = [ps EXCEPT ![1] = p]
        BY <3>2 DEF SetPeriod
      <4>2. QED
        BY <2>1, <3>1, <4>1 DEF Periods
    <3>3. CASE ~IsScheduled(ps, now)
      <4>1. qs = [k \in S |-> IF k = 1 THEN p ELSE ps[k - 1]]
        BY <3>3 DEF SetPeriod
      <4>2. i # 1
        BY <2>1, <3>1, <4>1
      <4>3. i - 1 \in S
        BY <2>1, <4>2
      <4>4. qs[i] = ps[i - 1]
        BY <2>1, <4>1, <4>2
      <4>5. QED
        BY <4>3, <4>4
    <3>4. QED
      BY <3>2, <3>3
  <2>4. PICK j \in S : qs[i] = ps[j]
    BY <2>3
  <2>5. ps[j] \in Period /\ Covers(ps[j], s) /\ ps[j] # NoPeriod
    <3>1. ps[j] \in Period
      BY DEF Periods
    <3>2. QED
      BY <2>1, <2>4, <3>1 DEF Covers, Used, NoPeriod
  <2>6. s \in ps[j].startsAt .. ps[j].endsAt
    BY <2>5 DEF Covers, Period
  <2>7. TpsAt(ps, s) = ps[j].tps
    BY <2>5, <2>6, RateInPeriod
  <2>8. QED
    BY <1>2, <2>2, <2>4, <2>7
<1>4. CASE ~\E i \in S : Covers(qs[i], s)
  <2>1. TpsAt(qs, s) = 0
    BY <1>4 DEF TpsAt
  <2>2. QED
    BY <1>2, <2>1
<1>5. QED
  BY <1>3, <1>4

\* When it starts now, its rate is the one of this slot.
LEMMA RateFromNow ==
  ASSUME NEW ps \in Periods, NEW now \in Nat, NEW p \in Period, p.startsAt <= p.endsAt,
         now = p.startsAt, now > 0, OrderAt(SetPeriod(ps, now, p), now)
  PROVE  TpsAt(SetPeriod(ps, now, p), now) = p.tps
<1> DEFINE qs == SetPeriod(ps, now, p)
<1>1. qs \in Periods
  BY SetPeriodType
<1>2. 1 \in 1 .. PeriodsLen /\ qs[1] = p
  BY DEF SetPeriod, Periods
<1> HIDE DEF qs
<1>3. qs[1] # NoPeriod
  BY <1>2 DEF NoPeriod
<1>4. now \in qs[1].startsAt .. qs[1].endsAt
  BY <1>2 DEF Period
<1>5. OrderAt(qs, now)
  BY DEF qs
<1>6. TpsAt(qs, now) = qs[1].tps
  BY <1>1, <1>2, <1>3, <1>4, <1>5, RateInPeriod
<1>7. QED
  BY <1>2, <1>6 DEF qs

-----------------------------------------------------------------------------
(* What is owed stays owed while history is written on.                    *)

\* No window reaches back beyond the oldest snapshot.
LEMMA WindowsAreRemembered ==
  ASSUME NEW b \in Buffer, NEW current, RingInOrder(b, current), NEW k \in StakedAges(b),
         NEW since \in Int, NEW until \in Int, NEW s \in WindowSlots(b, k, since, until)
  PROVE  s \in since .. until /\ Oldest(b).startedAt <= s
<1> DEFINE n == RingLen - 1
<1>1. /\ k \in Index /\ n \in Index /\ Nth(b, n) = Oldest(b) /\ Nth(b, k).startedAt > 0
      /\ Nth(b, k).startedAt <= s /\ s \in since .. until
  BY EndsOfRing DEF StakedAges, WindowSlots
<1>2. Nth(b, k).startedAt \in Nat /\ Nth(b, n).startedAt \in Nat
  BY <1>1, NthType DEF Snapshot, Slot
<1>3. k < n \/ k = n
  BY <1>1 DEF Index
<1>4. CASE k < n
  <2>1. Nth(b, k).startedAt > Nth(b, n).startedAt \/ Nth(b, n).startedAt = 0
    BY <1>1, <1>4 DEF RingInOrder
  <2>2. QED
    BY <1>1, <1>2, <2>1
<1>5. CASE k = n
  BY <1>1, <1>5
<1>6. QED
  BY <1>1, <1>3, <1>4, <1>5

\* What is owed depends on the rates of the remembered slots only.
LEMMA OwedAtSameRates ==
  ASSUME NEW b \in Buffer, NEW current, RingInOrder(b, current),
         NEW ps, NEW qs, NEW since \in Int, NEW until \in Int, NEW staked,
         \A s \in since .. until : Oldest(b).startedAt <= s => TpsAt(qs, s) = TpsAt(ps, s)
  PROVE  Owed(b, qs, since, until, staked) = Owed(b, ps, since, until, staked)
<1>1. ASSUME NEW k \in StakedAges(b)
      PROVE  Released(b, qs, k, since, until) = Released(b, ps, k, since, until)
  <2>1. \A s \in WindowSlots(b, k, since, until) : TpsAt(qs, s) = TpsAt(ps, s)
    BY WindowsAreRemembered
  <2>2. QED
    BY <2>1 DEF Released
<1>2. QED
  BY <1>1 DEF Owed

\* In no time, and of what the ring forgot, nothing is owed.
LEMMA NothingOwedFor ==
  ASSUME NEW b \in Buffer, NEW ps \in Periods, NEW since \in Int, NEW until \in Int,
         NEW staked \in Nat, NEW k \in Index, WindowSlots(b, k, since, until) = {}
  PROVE  OwedFor(b, ps, since, until, staked)[k] = 0
<1>1. Released(b, ps, k, since, until) = 0
  BY OwedType
<1>2. CASE k \in StakedAges(b)
  <2> DEFINE share == Share(staked, Nth(b, k).staked)
  <2>1. share \in Nat
    BY <1>2, StakedShare
  <2>2. OwedFor(b, ps, since, until, staked)[k] = (0 * share) \div Wad
    BY <1>1, <1>2 DEF OwedFor
  <2> HIDE DEF share
  <2>3. 0 * share = 0 /\ 0 \div Wad = 0
    BY <2>1
  <2>4. QED
    BY <2>2, <2>3
<1>3. CASE k \notin StakedAges(b)
  BY <1>3 DEF OwedFor
<1>4. QED
  BY <1>2, <1>3

\* A snapshot makes every window one age older.
LEMMA OwedForAfterPush ==
  ASSUME NEW b \in Buffer, NEW ps, NEW since \in Int, NEW until \in Int,
         NEW staked, NEW amount \in Nat, NEW clock \in Nat, until < clock,
         NEW k \in Index, NEW j \in Index, k = j + 1
  PROVE  OwedFor(Push(b, amount, clock), ps, since, until, staked)[k]
           = OwedFor(b, ps, since, until, staked)[j]
<1> DEFINE c == Push(b, amount, clock)
<1>1. \A i \in Index : Nth(c, i) = IF i = 0 THEN [staked |-> amount, startedAt |-> clock]
                                   ELSE Nth(b, i - 1)
  BY PushAges
<1> HIDE DEF c
<1>2. 0 \in Index /\ k > 0 /\ k # 0 /\ k - 1 = j /\ (j = 0 \/ j > 0) /\ (j > 0 => j # 0)
  BY DEF Index
<1>3. Nth(c, k) = Nth(b, j)
  BY <1>1, <1>2
<1>4. k \in StakedAges(c) <=> j \in StakedAges(b)
  BY <1>3 DEF StakedAges
<1>5. WindowSlots(c, k, since, until) = WindowSlots(b, j, since, until)
  <2>0. WindowSlots(c, k, since, until)
          = {s \in since .. until : Nth(b, j).startedAt <= s /\ s < Nth(c, j).startedAt}
    BY <1>2, <1>3 DEF WindowSlots
  <2>1. CASE j = 0
    <3>1. Nth(c, j).startedAt = clock
      BY <1>1, <1>2, <2>1
    <3>2. WindowSlots(b, j, since, until) = {s \in since .. until : Nth(b, j).startedAt <= s}
      BY <2>1 DEF WindowSlots
    <3>3. \A s \in since .. until : s < clock
      OBVIOUS
    <3>4. QED
      BY <2>0, <3>1, <3>2, <3>3
  <2>2. CASE j > 0
    <3>1. Nth(c, j) = Nth(b, j - 1)
      BY <1>1, <1>2, <2>2
    <3>2. WindowSlots(b, j, since, until)
            = {s \in since .. until : Nth(b, j).startedAt <= s /\ s < Nth(b, j - 1).startedAt}
      BY <2>2 DEF WindowSlots
    <3>3. QED
      BY <2>0, <3>1, <3>2
  <2>3. QED
    BY <1>2, <2>1, <2>2
<1>6. Released(c, ps, k, since, until) = Released(b, ps, j, since, until)
  BY <1>5 DEF Released
<1>7. QED
  BY <1>3, <1>4, <1>6 DEF OwedFor, c

\* A snapshot takes nothing from what was owed before it, as long as the ring
\* remembers the window where that begins.
LEMMA OwedAfterPush ==
  ASSUME NEW b \in Buffer, NEW ps \in Periods, NEW since \in Int, NEW until \in Int,
         NEW staked \in Nat, NEW amount \in Nat, NEW clock \in Nat, until < clock,
         Oldest(Push(b, amount, clock)).startedAt <= since
  PROVE  Owed(Push(b, amount, clock), ps, since, until, staked) = Owed(b, ps, since, until, staked)
<1> DEFINE c == Push(b, amount, clock)
           n == RingLen - 1
           e == OwedFor(c, ps, since, until, staked)
           f == OwedFor(b, ps, since, until, staked)
           T == {m \in Nat : m <= n => SumFunctionOnSet(e, 0 .. m) = SumFunctionOnSet(f, 0 .. m - 1)}
<1>0. /\ n \in Nat /\ Index = 0 .. n /\ 0 \in Index /\ n \in Index
      /\ Owed(c, ps, since, until, staked) = SumFunctionOnSet(e, 0 .. n)
      /\ Owed(b, ps, since, until, staked) = SumFunctionOnSet(f, 0 .. n)
  <2>1. c \in Buffer
    BY PushType
  <2> HIDE DEF c, e, f
  <2>2. /\ Owed(c, ps, since, until, staked) = SumFunctionOnSet(e, 0 .. n)
        /\ Owed(b, ps, since, until, staked) = SumFunctionOnSet(f, 0 .. n)
    BY <2>1, OwedByAge DEF e, f
  <2>3. QED
    BY <2>2 DEF Index
<1>1. \A k \in Index : /\ SumFunctionOnSet(e, 0 .. k - 1) \in Nat /\ e[k] \in Nat
                       /\ SumFunctionOnSet(e, 0 .. k) = SumFunctionOnSet(e, 0 .. k - 1) + e[k]
  <2>1. c \in Buffer
    BY PushType
  <2> HIDE DEF c
  <2>2. QED
    BY <2>1, OneMoreAge
<1>2. \A k \in Index : /\ SumFunctionOnSet(f, 0 .. k - 1) \in Nat /\ f[k] \in Nat
                       /\ SumFunctionOnSet(f, 0 .. k) = SumFunctionOnSet(f, 0 .. k - 1) + f[k]
  BY OneMoreAge
<1>3. e[0] = 0 /\ f[n] = 0
  <2>0. /\ \A k \in Index : Nth(c, k) = IF k = 0 THEN [staked |-> amount, startedAt |-> clock]
                                        ELSE Nth(b, k - 1)
        /\ c \in Buffer
    BY PushAges, PushType
  <2> HIDE DEF c
  <2>1. WindowSlots(c, 0, since, until) = {}
    BY <1>0, <2>0 DEF WindowSlots
  <2>2. e[0] = 0
    BY <1>0, <2>0, <2>1, NothingOwedFor
  <2>3. WindowSlots(b, n, since, until) = {}
    <3>1. Nth(c, n) = Oldest(c) /\ Oldest(c).startedAt <= since
      BY <2>0, EndsOfRing DEF c
    <3>2. CASE n = 0
      <4>1. clock <= since
        BY <1>0, <2>0, <3>1, <3>2
      <4>2. QED
        BY <4>1 DEF WindowSlots
    <3>3. CASE n > 0
      <4>1. Nth(b, n - 1).startedAt <= since /\ n - 1 \in Index
        BY <1>0, <2>0, <3>1, <3>3
      <4>2. Nth(b, n - 1).startedAt \in Nat
        BY <4>1, NthType DEF Snapshot, Slot
      <4>3. WindowSlots(b, n, since, until)
              \subseteq {s \in since .. until : s < Nth(b, n - 1).startedAt}
        BY <3>3 DEF WindowSlots
      <4> DEFINE at == Nth(b, n - 1).startedAt
      <4> HIDE DEF at
      <4>4. {s \in since .. until : s < at} = {}
        BY <4>1, <4>2 DEF at
      <4>5. QED
        BY <4>3, <4>4 DEF at
    <3>4. QED
      BY <1>0, <3>2, <3>3
  <2>4. f[n] = 0
    BY <1>0, <2>3, NothingOwedFor
  <2>5. QED
    BY <2>2, <2>4
<1>4. \A k \in Index, j \in Index : k = j + 1 => e[k] = f[j]
  BY OwedForAfterPush
<1>5. T = Nat
  <2> HIDE DEF e, f, n
  <2>1. 0 \in T
    <3>1. 0 .. 0 - 1 = {}
      OBVIOUS
    <3>2. SumFunctionOnSet(e, {}) = 0 /\ SumFunctionOnSet(f, {}) = 0
      <4>1. IsFiniteSet(Index)
        BY IndexIsFinite
      <4>2. (\A k \in Index : e[k] \in Nat) /\ (\A k \in Index : f[k] \in Nat)
        BY <1>1, <1>2
      <4>3. QED
        BY <4>1, <4>2, SumUnfolds
    <3>3. SumFunctionOnSet(e, 0 .. 0) = SumFunctionOnSet(e, 0 .. 0 - 1) + e[0]
      BY <1>0, <1>1
    <3>4. SumFunctionOnSet(e, 0 .. 0) = SumFunctionOnSet(f, 0 .. 0 - 1)
      BY <1>3, <3>1, <3>2, <3>3
    <3>5. QED
      BY <3>4
  <2>2. ASSUME NEW m \in T PROVE m + 1 \in T
    <3>1. SUFFICES ASSUME m + 1 <= n
                   PROVE  SumFunctionOnSet(e, 0 .. m + 1) = SumFunctionOnSet(f, 0 .. (m + 1) - 1)
      BY <2>2
    <3>2. m \in Nat /\ m \in Index /\ m + 1 \in Index /\ (m + 1) - 1 = m
      BY <1>0, <3>1
    <3>3. SumFunctionOnSet(e, 0 .. m) = SumFunctionOnSet(f, 0 .. m - 1)
      BY <1>0, <3>1, <3>2
    <3>4. SumFunctionOnSet(e, 0 .. m + 1) = SumFunctionOnSet(e, 0 .. m) + e[m + 1]
      BY <1>1, <3>2
    <3>5. SumFunctionOnSet(f, 0 .. m) = SumFunctionOnSet(f, 0 .. m - 1) + f[m]
      BY <1>2, <3>2
    <3>6. e[m + 1] = f[m]
      BY <1>4, <3>2
    <3>7. QED
      BY <3>2, <3>3, <3>4, <3>5, <3>6
  <2>3. QED
    <3>1. T \subseteq Nat
      OBVIOUS
    <3>2. \A m \in T : m + 1 \in T
      BY <2>2
    <3> HIDE DEF T
    <3>3. QED
      BY <2>1, <3>1, <3>2, SetInduction
<1> HIDE DEF e, f, n
<1>6. SumFunctionOnSet(e, 0 .. n) = SumFunctionOnSet(f, 0 .. n - 1)
  BY <1>0, <1>5
<1>7. SumFunctionOnSet(f, 0 .. n) = SumFunctionOnSet(f, 0 .. n - 1) + 0 /\ SumFunctionOnSet(f, 0 .. n - 1) \in Nat
  BY <1>0, <1>2, <1>3
<1>8. QED
  BY <1>0, <1>6, <1>7 DEF c

\* What is owed of an interval, which may be empty.
Accrued(b, ps, since, until, staked) ==
  IF since <= until THEN Owed(b, ps, since, until, staked) ELSE 0

\* It is a number of tokens; without a stake it is none.
LEMMA AccruedType ==
  ASSUME NEW b \in Buffer, NEW ps \in Periods, NEW since \in Int, NEW until \in Int,
         NEW staked \in Nat
  PROVE  /\ Accrued(b, ps, since, until, staked) \in Nat
         /\ staked = 0 => Accrued(b, ps, since, until, staked) = 0
<1>1. Owed(b, ps, since, until, staked) \in Nat
  BY OwedIsEarned
<1>2. staked = 0 => Owed(b, ps, since, until, staked) = 0
  BY NothingOwed
<1>3. QED
  BY <1>1, <1>2 DEF Accrued

\* The code's answer, when it is asked for such an interval.
LEMMA AccruedIsPaid ==
  ASSUME NEW b \in Buffer, NEW current, RingInOrder(b, current), NEW ps \in Periods,
         NEW now, OrderAt(ps, now), NEW since \in Nat, NEW until \in Int, NEW staked \in Nat,
         \/ until \in Nat /\ since <= until
         \/ \E a \in Index : until < Nth(b, a).startedAt /\ Nth(b, a).startedAt <= since
  PROVE  EligibleHarvest(b, ps, since, until, staked).tokens = Accrued(b, ps, since, until, staked)
<1>1. CASE until \in Nat /\ since <= until
  <2>1. IsPaid(EligibleHarvest(b, ps, since, until, staked), b, ps, since, until, staked)
    BY <1>1, HarvestIsExact
  <2>2. QED
    BY <1>1, <2>1 DEF IsPaid, Accrued
<1>2. CASE \E a \in Index : until < Nth(b, a).startedAt /\ Nth(b, a).startedAt <= since
  <2>1. PICK a \in Index : until < Nth(b, a).startedAt /\ Nth(b, a).startedAt <= since
    BY <1>2
  <2>2. EligibleHarvest(b, ps, since, until, staked).tokens = 0
    <3>1. b \in Buffer /\ RingInOrder(b, current) /\ ps \in Periods
      OBVIOUS
    <3>2. since \in Nat /\ until \in Int /\ staked \in Nat /\ a \in Index
      OBVIOUS
    <3>3. QED
      BY ONLY <2>1, <3>1, <3>2, NothingIsDue
  <2>3. Nth(b, a).startedAt \in Nat
    BY NthType DEF Snapshot, Slot
  <2>4. ~(since <= until)
    BY <2>1, <2>3
  <2>5. QED
    BY <2>2, <2>4 DEF Accrued
<1>3. QED
  BY <1>1, <1>2

\* A longer interval pays at least what its parts pay, and at most one token more.
LEMMA AccruedSplits ==
  ASSUME NEW b \in Buffer, NEW current, RingInOrder(b, current), NEW ps \in Periods,
         NEW staked \in Nat, NEW since \in Nat, NEW mid \in Nat, NEW until \in Int,
         since <= mid, mid <= until
  PROVE  LET parts == Accrued(b, ps, since, mid, staked) + Accrued(b, ps, mid + 1, until, staked)
             whole == Accrued(b, ps, since, until, staked)
         IN  parts <= whole /\ whole <= parts + 1
<1> DEFINE next == mid + 1
           A == Owed(b, ps, since, mid, staked)
           B == Owed(b, ps, next, until, staked)
           C == Owed(b, ps, since, until, staked)
<1>1. Accrued(b, ps, since, mid, staked) = A /\ Accrued(b, ps, since, until, staked) = C
  BY DEF Accrued
<1>2. Accrued(b, ps, next, until, staked) = IF mid < until THEN B ELSE 0
  BY DEF Accrued
<1>3. A \in Nat /\ B \in Nat /\ C \in Nat
  <2>1. next \in Int /\ since \in Int /\ mid \in Int
    OBVIOUS
  <2> HIDE DEF next
  <2>2. QED
    BY <2>1, OwedIsEarned
<1>4. CASE mid < until
  <2>1. until \in Nat
    BY <1>4
  <2>2. A + B <= C /\ C <= A + B + 1
    BY <1>4, <2>1, OwedSplits
  <2> HIDE DEF A, B, C, next
  <2>3. QED
    BY <1>1, <1>2, <1>4, <2>2 DEF next
<1>5. CASE ~(mid < until)
  <2>1. mid = until
    BY <1>5
  <2>2. A = C
    BY <2>1
  <2> HIDE DEF A, B, C, next
  <2>3. Accrued(b, ps, mid + 1, until, staked) = 0
    BY <1>2, <1>5 DEF next
  <2>4. QED
    BY <1>1, <1>3, <2>2, <2>3
<1>6. QED
  BY <1>4, <1>5

\* A longer interval pays no less.
LEMMA AccruedGrows ==
  ASSUME NEW b \in Buffer, NEW current, RingInOrder(b, current), NEW ps \in Periods,
         NEW staked \in Nat, NEW since \in Nat, NEW mid \in Int, NEW until \in Int, mid <= until
  PROVE  Accrued(b, ps, since, mid, staked) <= Accrued(b, ps, since, until, staked)
<1> DEFINE A == Accrued(b, ps, since, mid, staked)
           B == Accrued(b, ps, mid + 1, until, staked)
           C == Accrued(b, ps, since, until, staked)
<1>1. A \in Nat /\ B \in Nat /\ C \in Nat
  BY AccruedType
<1>2. CASE since <= mid
  <2>1. mid \in Nat
    BY <1>2
  <2>2. A + B <= C
    BY <1>2, <2>1, AccruedSplits
  <2> HIDE DEF A, B, C
  <2>3. A <= C
    BY <1>1, <2>2
  <2>4. QED
    BY <2>3 DEF A, C
<1>3. CASE ~(since <= mid)
  <2>1. A = 0
    BY <1>3 DEF Accrued
  <2> HIDE DEF A, C
  <2>2. A <= C
    BY <1>1, <2>1
  <2>3. QED
    BY <2>2 DEF A, C
<1>4. QED
  BY <1>2, <1>3

-----------------------------------------------------------------------------
(* A new period and the rates before it.                                   *)

\* A new period keeps the rates of all slots of the past, but for those of the
\* last period if that one is dropped.
LEMMA RatesAreKept ==
  ASSUME NEW ps \in Periods, NEW now \in Nat, now > 0, OrderAt(ps, now),
         NEW p \in Period, NEW oldest, AcceptsPeriod(ps, now, p, oldest), p.startsAt >= now,
         NEW s \in Int, s < now,
         \/ ~Used(ps[PeriodsLen]) \/ ps[PeriodsLen].endsAt < s
         \/ \E j \in 1 .. PeriodsLen : SetPeriod(ps, now, p)[j] = ps[PeriodsLen]
  PROVE  TpsAt(SetPeriod(ps, now, p), s) = TpsAt(ps, s)
<1> DEFINE qs == SetPeriod(ps, now, p)
           S == 1 .. PeriodsLen
<1>1. qs \in Periods /\ OrderAt(qs, now)
  BY SetPeriodType, SetPeriodKeepsOrder
<1>2. TpsAt(qs, s) \in Nat /\ TpsAt(ps, s) \in Nat /\ TpsAt(qs, s) <= TpsAt(ps, s)
  <2>1. s < p.startsAt
    BY DEF Period
  <2>2. QED
    <3>1. TpsAt(qs, s) \in Nat /\ TpsAt(ps, s) \in Nat
      BY <1>1, RateType
    <3>2. TpsAt(qs, s) <= TpsAt(ps, s)
      BY <2>1, RatesBeforePeriod
    <3>3. QED
      BY <3>1, <3>2
<1>3. CASE ~\E i \in S : Covers(ps[i], s)
  <2>1. TpsAt(ps, s) = 0
    BY <1>3 DEF TpsAt
  <2>2. QED
    BY <1>2, <2>1
<1>4. CASE \E i \in S : Covers(ps[i], s)
  <2>1. PICK i \in S : Covers(ps[i], s)
    BY <1>4
  <2>2. ps[i] \in Period /\ ps[i] # NoPeriod /\ s \in ps[i].startsAt .. ps[i].endsAt /\ Used(ps[i])
    <3>1. ps[i] \in Period
      BY DEF Periods
    <3>2. QED
      BY <2>1, <3>1 DEF Covers, Used, NoPeriod, Period
  <2>3. TpsAt(ps, s) = ps[i].tps
    BY <2>2, RateInPeriod
  <2>4. \E j \in S : qs[j] = ps[i]
    <3>1. CASE IsScheduled(ps, now)
      <4>1. i # 1
        <5>1. ps[1].startsAt > now
          BY <3>1 DEF IsScheduled
        <5>2. QED
          BY <2>2, <5>1 DEF Period
      <4>2. qs = [ps EXCEPT ![1] = p]
        BY <3>1 DEF SetPeriod
      <4>3. QED
        BY <4>1, <4>2 DEF Periods
    <3>2. CASE i = PeriodsLen
      <4>1. ~(ps[i].endsAt < s)
        BY <2>2 DEF Period
      <4>2. QED
        BY <2>2, <3>2, <4>1
    <3>3. CASE ~IsScheduled(ps, now) /\ i # PeriodsLen
      <4>1. qs = [k \in S |-> IF k = 1 THEN p ELSE ps[k - 1]]
        BY <3>3 DEF SetPeriod
      <4>2. i + 1 \in S /\ i + 1 # 1 /\ (i + 1) - 1 = i
        BY <3>3
      <4>3. qs[i + 1] = ps[i]
        BY <4>1, <4>2
      <4>4. QED
        BY <4>2, <4>3
    <3>4. QED
      BY <3>1, <3>2, <3>3
  <2>5. PICK j \in S : qs[j] = ps[i]
    BY <2>4
  <2> HIDE DEF qs
  <2>6. TpsAt(qs, s) = qs[j].tps
    BY <1>1, <2>2, <2>5, RateInPeriod
  <2>7. QED
    BY <2>3, <2>5, <2>6 DEF qs
<1>5. QED
  BY <1>3, <1>4
=============================================================================
