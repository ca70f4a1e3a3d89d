---------------------------- MODULE SourceProofs ----------------------------
(***************************************************************************)
(* Theorems about what is fetched from the sources.                        *)
(*                                                                         *)
(* Discovery, for any day and hour, any models that are configured as the  *)
(* code needs them, any lengths of cycles and any number of faults: a      *)
(* cycle finds every file that is there and in its window, and a file that *)
(* appears while a cycle will still look for it is downloaded.             *)
(*                                                                         *)
(* ObservationFeeds, for any stations, feeds, reports and failures.  A TAF *)
(* in the table is never ahead of what its source shows, nor of what is    *)
(* left of the batch in hand: the handler works on one poll at a time.  So *)
(* heads only go forward, and with them everything a client is given.      *)
(***************************************************************************)
EXTENDS Discovery, ObservationFeeds, FiniteSetTheorems, WellFoundedInduction, TLAPS

-----------------------------------------------------------------------------
(* Whole numbers *)

\* Division with remainder.
LEMMA DivMod ==
    ASSUME NEW a \in Int, NEW d \in Nat \ {0}
    PROVE  /\ a \div d \in Int /\ a % d \in 0 .. d - 1
           /\ a = d * (a \div d) + (a % d)
OBVIOUS

\* What leaves no remainder is a multiple.
LEMMA Multiple ==
    ASSUME NEW a \in Int, NEW d \in Nat \ {0}, a % d = 0
    PROVE  a \div d \in Int /\ a = d * (a \div d)
BY DivMod

\* Products with a natural keep the order, and the order of products is theirs.
LEMMA TimesMonotone ==
    ASSUME NEW d \in Nat, NEW a \in Int, NEW b \in Int, a <= b
    PROVE  d * a <= d * b
OBVIOUS

LEMMA TimesLess ==
    ASSUME NEW d \in Nat \ {0}, NEW a \in Int, NEW b \in Int, d * a < d * b
    PROVE  a < b
OBVIOUS

\* Quotient and remainder are the only such pair.
LEMMA Quotient ==
    ASSUME NEW d \in Nat \ {0}, NEW q \in Int, NEW r \in 0 .. d - 1
    PROVE  (d * q + r) \div d = q /\ (d * q + r) % d = r
OBVIOUS

\* Later times are in later folders, or the same.
LEMMA DivMonotone ==
    ASSUME NEW d \in Nat \ {0}, NEW a \in Int, NEW b \in Int, a <= b
    PROVE  a \div d <= b \div d
OBVIOUS

\* The quotient is the greatest number of times that d goes into a.
LEMMA DivGreatest ==
    ASSUME NEW d \in Nat \ {0}, NEW a \in Int
    PROVE  /\ d * (a \div d) <= a
           /\ \A q \in Int : d * q <= a => q <= a \div d
           /\ a >= 0 => a \div d \in Nat
<1>1. a \div d \in Int /\ d * (a \div d) <= a /\ a < d * ((a \div d) + 1)
  OBVIOUS
<1>2. ASSUME NEW q \in Int, d * q <= a
      PROVE  q <= a \div d
  <2>1. d * q < d * ((a \div d) + 1)
    BY <1>1, <1>2
  <2> QED
    BY <1>1, <2>1, TimesLess
<1>3. a >= 0 => a \div d \in Nat
  <2>1. d * 0 <= a => 0 <= a \div d
    BY <1>2
  <2> QED
    BY <1>1, <2>1
<1> QED
  BY <1>1, <1>2, <1>3

\* So many folders on, at the same place in it.
LEMMA DivShift ==
    ASSUME NEW d \in Nat \ {0}, NEW a \in Int, NEW k \in Int
    PROVE  (a + d * k) \div d = a \div d + k /\ (a + d * k) % d = a % d
<1> DEFINE q == a \div d
           r == a % d
<1>1. q \in Int /\ r \in 0 .. d - 1 /\ a = d * q + r
  BY DivMod
<1> HIDE DEF q, r
<1>2. a + d * k = d * (q + k) + r
  BY <1>1
<1>3. q + k \in Int
  BY <1>1
<1>4. (a + d * k) \div d = q + k /\ (a + d * k) % d = r
  BY <1>1, <1>2, <1>3, Quotient
<1> QED
  BY <1>4 DEF q, r

\* A set of naturals has a least element, a bounded one a greatest: Min and Max
\* are what their names say.
LEMMA LeastOf ==
    ASSUME NEW S \in SUBSET Nat, S # {}
    PROVE  Min(S) \in S /\ \A u \in S : Min(S) <= u
<1>1. PICK x \in S : \A y \in S : ~(<<y, x>> \in OpToRel(<, Nat))
  BY WFMin, NatLessThanWellFounded, Zenon
<1>2. \A y \in S : x <= y
  <2>1. SUFFICES ASSUME NEW y \in S
                 PROVE  x <= y
    OBVIOUS
  <2>2. x \in Nat /\ y \in Nat
    OBVIOUS
  <2>3. ~(y < x)
    BY <1>1, <2>2 DEF OpToRel
  <2> QED
    BY <2>2, <2>3
<1> QED
  BY <1>2, Zenon DEF Min

LEMMA GreatestOf ==
    ASSUME NEW n \in Nat, NEW S \in SUBSET (0 .. n), S # {}
    PROVE  Max(S) \in S /\ \A u \in S : u <= Max(S)
<1> DEFINE Left == {n - t : t \in S}
<1>1. \A t \in S : t \in Int /\ n - t \in Nat
  OBVIOUS
<1>2. Left \in SUBSET Nat /\ Left # {}
  BY <1>1
<1>3. PICK x \in Left : \A y \in Left : x <= y
  BY <1>2, LeastOf
<1>4. PICK t \in S : x = n - t
  BY <1>3
<1>5. \A u \in S : u <= t
  BY <1>1, <1>3, <1>4
<1> QED
  BY <1>1, <1>5 DEF Max

-----------------------------------------------------------------------------
(* What a cycle looks for *)

\* The hours at which a model runs are hours of a day.
LEMMA CycleOfDay ==
    ASSUME NEW s, Configured(s), s.kind = "forecast",
           NEW c \in s.cycles
    PROVE  /\ c \in 0 .. (Day \div Hour) - 1 /\ (Day \div Hour) \in Nat
           /\ c * Hour \in Nat /\ c * Hour < Day
<1> Hour \in Nat \ {0} /\ Day \in Nat \ {0}
  BY TimeAssumption
<1>1. c \in 0 .. (Day \div Hour) - 1
  BY DEF Configured
<1>2. Hour * (Day \div Hour) <= Day /\ (Day \div Hour) \in Nat
  BY DivMod
<1>3. Hour * c <= Hour * ((Day \div Hour) - 1)
  BY <1>1, <1>2, TimesMonotone
<1> QED
  BY <1>1, <1>2, <1>3

\* The last run that began delay_hours ago: it is one of the day's and did so.
LEMMA LastRun ==
    ASSUME NEW s, Configured(s), s.kind = "forecast",
           NEW time \in Int
    PROVE  LET before == time - s.delay
               last == LatestCycle(s, time)
           IN  \E c \in s.cycles :
                   /\ last = (before \div Day) * Day + c * Hour
                   /\ last \in Int /\ last <= before
                   /\ \A o \in s.cycles : o <= (before % Day) \div Hour => o <= c
<1> DEFINE before == time - s.delay
           passed == {c \in s.cycles : c <= (before % Day) \div Hour}
<1>1. Hour \in Nat \ {0} /\ Day \in Nat \ {0}
  BY TimeAssumption
<1>2. 0 \in s.cycles /\ s.delay \in Nat
  BY DEF Configured
<1>3. before \in Int
  BY <1>2
<1>4. /\ before \div Day \in Int /\ before % Day \in 0 .. Day - 1
      /\ before = Day * (before \div Day) + (before % Day)
  BY <1>1, <1>3, DivMod
<1>5. (before % Day) \div Hour \in Nat /\ Hour * ((before % Day) \div Hour) <= before % Day
  <2> DEFINE r == before % Day
  <2>1. r \in Nat
    BY <1>4
  <2> HIDE DEF r
  <2>2. r \div Hour \in Nat /\ Hour * (r \div Hour) <= r
    BY <1>1, <2>1, DivGreatest
  <2> QED
    BY <2>2 DEF r
<1> HIDE DEF before
<1>6. passed # {} /\ passed \in SUBSET (0 .. (before % Day) \div Hour)
  <2>1. 0 \in passed
    BY <1>2, <1>5
  <2>2. \A c \in passed : c \in Nat
    BY CycleOfDay
  <2> QED
    BY <1>5, <2>1, <2>2
<1>7. Max(passed) \in passed /\ \A o \in passed : o <= Max(passed)
  BY <1>5, <1>6, GreatestOf
<1>8. PICK c \in passed : c = Max(passed)
  BY <1>7
<1>9. LatestCycle(s, time) = (before \div Day) * Day + c * Hour
  BY <1>6, <1>8 DEF LatestCycle, before
<1>10. c \in s.cycles /\ c \in Nat /\ c <= (before % Day) \div Hour
  BY <1>6
<1>11. Hour * c <= before % Day
  <2> DEFINE r == before % Day
             n == r \div Hour
  <2>1. r \in Int /\ n \in Int /\ Hour * n <= r /\ c \in Int /\ c <= n
    BY <1>4, <1>5, <1>10
  <2> HIDE DEF r, n
  <2>2. Hour * c <= Hour * n
    BY <1>1, <2>1, TimesMonotone
  <2>3. Hour * c \in Int /\ Hour * n \in Int
    BY <1>1, <2>1
  <2>4. Hour * c <= r
    BY <2>1, <2>2, <2>3
  <2> QED
    BY <2>4 DEF r
<1>12. \A o \in s.cycles : o <= (before % Day) \div Hour => o <= c
  BY <1>7, <1>8
<1>13. /\ (before \div Day) * Day + c * Hour \in Int
       /\ (before \div Day) * Day + c * Hour <= before
  BY <1>1, <1>3, <1>4, <1>10, <1>11
<1> QED
  BY <1>9, <1>10, <1>12, <1>13 DEF before

\* Model runs begin at times, and the times are those of files.
LEMMA RunsAreTimes ==
    ASSUME NEW s, Configured(s), s.kind = "forecast"
    PROVE  Runs(s) \in SUBSET Nat
<1>1. Hour \in Nat \ {0} /\ Day \in Nat \ {0} /\ Horizon \in Nat
  BY TimeAssumption
<1>2. Horizon \div Day \in Int
  BY <1>1, DivMod
<1>3. ASSUME NEW d \in 0 .. Horizon \div Day + 1, NEW c \in s.cycles
      PROVE  d * Day + c * Hour \in Nat
  <2>1. d * Day \in Nat
    BY <1>1, <1>2
  <2> QED
    BY <2>1, CycleOfDay
<1> QED
  BY <1>3 DEF Runs

\* A forecast is found while its run is the last that began delay_hours ago.
LEMMA ForecastFound ==
    ASSUME NEW s, Configured(s), s.kind = "forecast",
           NEW f \in SourceFiles(s), NEW time \in 0 .. Horizon,
           time >= FirstAsked(s, f), time <= LastAsked(s, f)
    PROVE  f[1] = LatestCycle(s, time) /\ f[2] \in s.steps
<1> DEFINE before == time - s.delay
           last == LatestCycle(s, time)
           later == {t \in Runs(s) : t > f[1]}
           D == before \div Day
           r == before % Day
<1>1. Hour \in Nat \ {0} /\ Day \in Nat \ {0} /\ Horizon \in Nat
  BY TimeAssumption
<1>2. s.delay \in Nat
  BY DEF Configured
<1>3. before \in Int /\ before <= Horizon
  BY <1>1, <1>2
<1>4. D \in Int /\ r \in 0 .. Day - 1 /\ before = Day * D + r
  BY <1>1, <1>3, DivMod
<1>5. f[1] \in Runs(s) /\ f[2] \in s.steps
  BY DEF SourceFiles, Times
<1>6. PICK d \in 0 .. Horizon \div Day + 1, c \in s.cycles : f[1] = d * Day + c * Hour
  BY <1>5 DEF Runs
<1>7. d \in Nat /\ c \in Nat /\ c * Hour \in Nat /\ c * Hour < Day
  <2>1. Horizon \div Day \in Int
    BY <1>1, DivMod
  <2> QED
    BY <2>1, CycleOfDay
<1>8. f[1] <= before
  BY <1>2, <1>5, RunsAreTimes DEF FirstAsked
<1>9. PICK C \in s.cycles :
          /\ last = D * Day + C * Hour /\ last \in Int /\ last <= before
          /\ \A o \in s.cycles : o <= r \div Hour => o <= C
  BY LastRun
<1>10. C \in Nat /\ C * Hour \in Nat /\ C * Hour < Day
  BY CycleOfDay
<1>11. last <= f[1]
  <2>1. D \in 0 .. Horizon \div Day + 1
    <3>1. d * Day \in Nat /\ Day * 0 <= before
      BY <1>1, <1>3, <1>6, <1>7, <1>8
    <3>2. D \in Nat
      BY <1>1, <1>3, <3>1, DivGreatest
    <3>3. D <= Horizon \div Day /\ Horizon \div Day \in Int
      BY <1>1, <1>3, DivMonotone
    <3> QED
      BY <3>2, <3>3
  <2>2. last \in Runs(s)
    BY <1>9, <2>1 DEF Runs
  <2>3. SUFFICES ASSUME last > f[1]
                 PROVE  FALSE
    BY <1>5, <1>9, RunsAreTimes
  <2>4. later # {} /\ later \in SUBSET Nat /\ last \in later
    BY <2>2, <2>3, RunsAreTimes
  <2>5. Min(later) \in Nat /\ Min(later) <= last
    BY <2>4, LeastOf
  <2>6. time <= Min(later) + s.delay - 1
    BY <2>4 DEF LastAsked
  <2> QED
    BY <1>2, <1>9, <2>5, <2>6
<1>12. f[1] <= last
  <2>1. d <= D
    <3>1. Day * d <= before
      BY <1>1, <1>3, <1>6, <1>7, <1>8
    <3> QED
      BY <1>1, <1>3, <1>7, <3>1, DivGreatest
  <2> HIDE DEF D, last, before
  <2>2. CASE d = D
    <3>1. Hour * c <= r
      BY <1>1, <1>4, <1>6, <1>7, <1>8, <2>2
    <3>2. c <= r \div Hour
      <4>1. r \in Int /\ c \in Int
        BY <1>4, <1>7
      <4> HIDE DEF r
      <4> QED
        BY <1>1, <3>1, <4>1, DivGreatest
    <3>3. c <= C
      BY <1>9, <3>2
    <3>4. Hour * c <= Hour * C
      BY <1>1, <1>7, <1>10, <3>3, TimesMonotone
    <3> QED
      <4> HIDE DEF r
      <4> QED
        BY <1>1, <1>4, <1>6, <1>7, <1>9, <1>10, <2>2, <3>4
  <2>3. CASE d < D
    <3>1. Day * (d + 1) <= Day * D
      <4>1. d + 1 \in Int /\ d + 1 <= D
        BY <1>4, <1>7, <2>3
      <4> QED
        BY <1>1, <1>4, <4>1, TimesMonotone
    <3> QED
      BY <1>1, <1>4, <1>6, <1>7, <1>9, <1>10, <3>1
  <2> QED
    BY <1>4, <1>7, <2>1, <2>2, <2>3
<1> QED
  <2>1. f[1] \in Int
    BY <1>5, RunsAreTimes
  <2> QED
    BY <1>5, <1>9, <1>11, <1>12, <2>1

\* Products of LIS are found for every time between lookback and delay_hours
\* ago: the list begins at one of their times, and goes by their steps.
LEMMA ProductFound ==
    ASSUME NEW s, Configured(s), s.kind = "lis",
           NEW f \in SourceFiles(s), NEW time \in 0 .. Horizon,
           time >= FirstAsked(s, f), time <= LastAsked(s, f)
    PROVE  f[1] \in LisTimes(s, time) /\ f[2] \in s.steps
<1> DEFINE e == time - s.delay - s.lookback
           D == e \div Day
           r == e % Day
           m == Day \div s.every
           n == r \div s.every
           k == f[1] \div s.every
           first == s.every * (m * D + n)
<1>1. Day \in Nat \ {0} /\ Hour \in Nat \ {0} /\ Horizon \in Nat
  BY TimeAssumption
<1>2. /\ s.delay \in Nat /\ s.lookback \in Nat
      /\ s.every \in Nat \ {0} /\ s.every > Hour /\ Day % s.every = 0
  BY DEF Configured
<1>3. f[1] \in 0 .. Horizon /\ f[1] % s.every = 0 /\ f[2] \in s.steps
  BY DEF SourceFiles, Times
<1>4. e \in Int /\ e <= f[1] /\ f[1] <= time - s.delay
  BY <1>1, <1>2, <1>3 DEF FirstAsked, LastAsked
<1>5. D \in Int /\ r \in 0 .. Day - 1 /\ e = Day * D + r
  BY <1>1, <1>4, DivMod
<1>6. m \in Int /\ Day = s.every * m
  <2>1. Day \in Int /\ s.every \in Nat \ {0} /\ Day % s.every = 0
    BY <1>1, <1>2
  <2> QED
    BY <2>1, Multiple
<1>7. k \in Int /\ f[1] = s.every * k
  <2>1. f[1] \in Int /\ s.every \in Nat \ {0} /\ f[1] % s.every = 0
    BY <1>1, <1>2, <1>3
  <2> QED
    BY <2>1, Multiple
<1>8. r \in Int
  BY <1>5
<1> HIDE DEF D, r, k, m, e
<1>9. n \in Int /\ s.every * n <= r
  BY <1>2, <1>8, DivMod, DivGreatest
<1>10. SnapToStep(e, s.every) = D * Day + n * s.every
  BY <1>1, <1>2 DEF SnapToStep, D, r
<1> HIDE DEF n
<1>11. m * D + n \in Int /\ D * Day + n * s.every = first
  BY <1>2, <1>5, <1>6, <1>9
<1>12. first \in Int /\ first <= e
  BY <1>1, <1>2, <1>4, <1>5, <1>9, <1>11
<1>13. (f[1] - first) % s.every = 0
  <2>1. k - (m * D + n) \in Int /\ f[1] - first = s.every * (k - (m * D + n)) + 0
    BY <1>2, <1>7, <1>11
  <2>2. 0 \in 0 .. s.every - 1
    BY <1>2
  <2> QED
    BY <1>2, <2>1, <2>2, Quotient
<1> HIDE DEF first
<1>14. f[1] \in first .. time - s.delay
  BY <1>2, <1>3, <1>4, <1>12
<1> QED
  BY <1>3, <1>10, <1>11, <1>13, <1>14 DEF LisTimes, e

\* A listing returns a file that has fewer than limit predecessors, because the
\* observations between the first key and it are that few.
LEMMA Listed ==
    ASSUME NEW s, s.every \in Nat \ {0}, s.limit \in Nat, s.steps = {0}, Horizon \in Nat,
           s.kind # "forecast",
           NEW folder \in SUBSET SourceFiles(s), NEW from \in Int,
           NEW f \in folder, f[1] >= from,
           \A g \in folder : g[1] >= from => f[1] - g[1] < s.limit * s.every
    PROVE  f \in Listing(folder, from, s.limit)
<1> DEFINE keys == {g \in folder : g[1] >= from}
           before == {g \in keys : g[1] < f[1]}
           Place(g) == f[1] \div s.every - g[1] \div s.every
           place == [g \in before |-> Place(g)]
<1>1. \A g \in folder : /\ g = <<g[1], 0>> /\ g[1] \in Nat /\ g[1] \div s.every \in Int
                        /\ g[1] = s.every * (g[1] \div s.every)
  <2>1. SUFFICES ASSUME NEW g \in folder
                 PROVE  /\ g = <<g[1], 0>> /\ g[1] \in Nat /\ g[1] \div s.every \in Int
                        /\ g[1] = s.every * (g[1] \div s.every)
    OBVIOUS
  <2>2. g = <<g[1], 0>> /\ g[1] \in 0 .. Horizon /\ g[1] % s.every = 0
    BY DEF SourceFiles, Times
  <2> QED
    BY <2>2, Multiple
<1>2. \A g \in before : Place(g) \in 1 .. s.limit - 1
  <2>1. SUFFICES ASSUME NEW g \in before
                 PROVE  Place(g) \in 1 .. s.limit - 1
    OBVIOUS
  <2> DEFINE i == f[1] \div s.every
             j == g[1] \div s.every
  <2>2. i \in Int /\ j \in Int /\ f[1] = s.every * i /\ g[1] = s.every * j
    BY <1>1
  <2>3. g[1] < f[1] /\ f[1] - g[1] < s.limit * s.every
    OBVIOUS
  <2> HIDE DEF i, j
  <2>4. j < i
    BY <2>2, <2>3, TimesLess
  <2>5. s.every * (i - j) < s.every * s.limit /\ i - j \in Int
    BY <2>2, <2>3
  <2>6. i - j < s.limit
    BY <2>5, TimesLess
  <2> QED
    BY <2>2, <2>4, <2>6 DEF i, j
<1>3. place \in Injection(before, 1 .. s.limit - 1)
  <2>1. place \in [before -> 1 .. s.limit - 1]
    BY <1>2
  <2>2. ASSUME NEW g \in before, NEW h \in before, place[g] = place[h]
        PROVE  g = h
    <3>1. f[1] \div s.every \in Int /\ g[1] \div s.every \in Int /\ h[1] \div s.every \in Int
      BY <1>1
    <3>2. Place(g) = Place(h)
      BY <2>2
    <3>3. g[1] \div s.every = h[1] \div s.every
      BY <3>1, <3>2
    <3> QED
      BY <1>1, <3>3
  <2> QED
    BY <2>1, <2>2 DEF Injection, IsInjective
<1>4. s.limit >= 1
  <2>1. f[1] - f[1] = 0 /\ 0 < s.limit * s.every
    BY <1>1
  <2> QED
    BY <2>1
<1>5. IsFiniteSet(1 .. s.limit - 1) /\ Cardinality(1 .. s.limit - 1) < s.limit
  <2>1. /\ IsFiniteSet(1 .. s.limit - 1)
        /\ Cardinality(1 .. s.limit - 1) = IF 1 > s.limit - 1 THEN 0 ELSE s.limit - 1 - 1 + 1
    <3>1. 1 \in Int /\ s.limit - 1 \in Int
      OBVIOUS
    <3> QED
      BY <3>1, FS_Interval, Zenon
  <2> QED
    BY <1>4, <2>1
<1>6. IsFiniteSet(before) /\ Cardinality(before) <= Cardinality(1 .. s.limit - 1)
  BY <1>3, <1>5, FS_Injection
<1>7. Cardinality(before) < s.limit
  <2>1. Cardinality(before) \in Nat /\ Cardinality(1 .. s.limit - 1) \in Nat
    BY <1>5, <1>6, FS_CardinalityType
  <2> QED
    BY <1>5, <1>6, <2>1
<1> QED
  <2>1. f \in keys
    OBVIOUS
  <2>2. Listing(folder, from, s.limit) =
            {h \in keys : Cardinality({g \in keys : g[1] < h[1]}) < s.limit}
    BY DEF Listing
  <2> HIDE DEF keys
  <2>3. Cardinality({g \in keys : g[1] < f[1]}) < s.limit
    BY <1>7
  <2> QED
    BY <2>1, <2>2, <2>3, Zenon

\* What the times of an observation are.
LEMMA ObservationTime ==
    ASSUME NEW s, Configured(s), s.kind \in {"mrms", "goes"},
           NEW f \in SourceFiles(s)
    PROVE  /\ f[1] \in 0 .. Horizon /\ f[1] \in Int /\ Horizon \in Nat
           /\ s.every \in Nat \ {0} /\ s.limit \in Nat /\ s.lookback \in Nat /\ s.steps = {0}
           /\ FirstAsked(s, f) = f[1]
           /\ LastAsked(s, f) = f[1] + s.lookback
<1>1. Horizon \in Nat
  BY TimeAssumption
<1>2. s.every \in Nat \ {0} /\ s.limit \in Nat /\ s.lookback \in Nat /\ s.steps = {0}
  BY DEF Configured
<1>3. f[1] \in 0 .. Horizon
  BY DEF SourceFiles, Times
<1>4. FirstAsked(s, f) = f[1] /\ LastAsked(s, f) = f[1] + s.lookback
  BY DEF FirstAsked, LastAsked
<1> QED
  BY <1>1, <1>2, <1>3, <1>4

\* An image is in the folder of its hour, which is among those of the lookback.
LEMMA ImageFound ==
    ASSUME NEW s, Configured(s), s.kind = "goes",
           NEW there \in SUBSET SourceFiles(s), NEW f \in there, NEW time \in 0 .. Horizon,
           time >= FirstAsked(s, f), time <= LastAsked(s, f)
    PROVE  f \in GoesListed(s, time, there)
<1> DEFINE Folder(h) == {g \in there : g[1] \div Hour = h}
           A == time \div Hour
           T == f[1] \div Hour
           m == s.lookback \div Hour
           i == A - T
           folder == Folder((time - i * Hour) \div Hour)
<1>1. Hour \in Nat \ {0}
  BY TimeAssumption
<1>2. /\ f[1] \in 0 .. Horizon /\ f[1] \in Int /\ time \in Int /\ Horizon \in Nat
      /\ s.every \in Nat \ {0} /\ s.limit \in Nat /\ s.lookback \in Nat /\ s.steps = {0}
      /\ time >= f[1] /\ time <= f[1] + s.lookback
  BY ObservationTime
<1>3. s.lookback % Hour = 0 /\ s.limit * s.every >= Hour
  BY DEF Configured
<1>4. m \in Int /\ s.lookback = Hour * m
  <2>1. s.lookback \in Int /\ Hour \in Nat \ {0} /\ s.lookback % Hour = 0
    BY <1>1, <1>2, <1>3
  <2> QED
    BY <2>1, Multiple
<1>5. A \in Int /\ T \in Int
  BY <1>1, <1>2, DivMod
<1>6. i \in 0 .. m
  <2>1. T <= A
    BY <1>1, <1>2, DivMonotone
  <2>2. A <= (f[1] + Hour * m) \div Hour
    <3>1. f[1] + Hour * m \in Int /\ time <= f[1] + Hour * m
      BY <1>1, <1>2, <1>4
    <3> QED
      BY <1>1, <3>1, DivMonotone
  <2>3. (f[1] + Hour * m) \div Hour = T + m
    <3>1. f[1] \in Int /\ m \in Int
      BY <1>2, <1>4
    <3> HIDE DEF m
    <3> QED
      BY <1>1, <3>1, DivShift
  <2> HIDE DEF A, T, m
  <2> QED
    BY <1>4, <1>5, <2>1, <2>2, <2>3
<1>7. (time - i * Hour) \div Hour = T
  <2>1. time - i * Hour = time + Hour * (T - A) /\ T - A \in Int
    <3> HIDE DEF A, T
    <3> QED
      BY <1>1, <1>5
  <2>2. (time + Hour * (T - A)) \div Hour = A + (T - A)
    BY <1>1, <2>1, DivShift
  <2> HIDE DEF A, T
  <2> QED
    BY <1>5, <2>1, <2>2
<1>8. f \in folder /\ folder \in SUBSET SourceFiles(s)
  BY <1>7
<1>9. \A g \in folder : f[1] - g[1] < s.limit * s.every
  <2>1. SUFFICES ASSUME NEW g \in folder
                 PROVE  f[1] - g[1] < s.limit * s.every
    OBVIOUS
  <2>2. g[1] \in Int /\ g[1] \div Hour = T
    BY <1>7, <1>8, ObservationTime
  <2>3. Hour * T <= g[1] /\ f[1] < Hour * T + Hour
    <3>1. Hour * (g[1] \div Hour) <= g[1]
      BY <1>1, <2>2, DivGreatest
    <3>2. f[1] = Hour * T + (f[1] % Hour) /\ f[1] % Hour \in 0 .. Hour - 1
      <4>1. f[1] \in Int
        BY <1>2
      <4> QED
        BY <1>1, <4>1, DivMod
    <3> QED
      BY <1>1, <1>5, <2>2, <3>1, <3>2
  <2> HIDE DEF T
  <2>4. Hour * T \in Int
    BY <1>1, <1>5
  <2> QED
    BY <1>1, <1>2, <1>3, <2>2, <2>3, <2>4
<1>10. f \in Listing(folder, 0, s.limit)
  <2> HIDE DEF folder
  <2>1. f[1] >= 0 /\ 0 \in Int /\ s.kind # "forecast"
    BY <1>2
  <2>2. \A g \in folder : g[1] >= 0 => f[1] - g[1] < s.limit * s.every
    BY <1>9
  <2> QED
    BY <1>2, <1>8, <2>1, <2>2, Listed
<1> HIDE DEF A, T, m, i
<1>11. f \in UNION {Listing(Folder((time - o * Hour) \div Hour), 0, s.limit) :
                       o \in 0 .. s.lookback \div Hour}
  BY <1>6, <1>10, Zenon DEF m
<1> QED
  BY <1>2, <1>11 DEF GoesListed

\* A radar image is in the folder of its day, which is today or that of the
\* earliest time, and the listing begins before it.
LEMMA RadarFound ==
    ASSUME NEW s, Configured(s), s.kind = "mrms",
           NEW there \in SUBSET SourceFiles(s), NEW f \in there, NEW time \in 0 .. Horizon,
           time >= FirstAsked(s, f), time <= LastAsked(s, f)
    PROVE  f \in MrmsListed(s, time, there)
<1> DEFINE earliest == time - s.lookback
           Folder(d) == {g \in there : g[1] \div Day = d}
           Start(d) == IF d = earliest \div Day THEN earliest ELSE (time \div Day) * Day
           A == time \div Day
           E == earliest \div Day
           T == f[1] \div Day
<1>1. Day \in Nat \ {0}
  BY TimeAssumption
<1>2. /\ f[1] \in 0 .. Horizon /\ f[1] \in Int /\ time \in Int /\ Horizon \in Nat
      /\ s.every \in Nat \ {0} /\ s.limit \in Nat /\ s.lookback \in Nat /\ s.steps = {0}
      /\ time >= f[1] /\ time <= f[1] + s.lookback
  BY ObservationTime
<1>3. s.lookback <= Day /\ s.limit * s.every > s.lookback
  BY DEF Configured
<1>4. earliest \in Int /\ earliest <= f[1] /\ time <= earliest + Day
  BY <1>1, <1>2, <1>3
<1>5. A \in Int /\ E \in Int /\ T \in Int
  <2>1. time \in Int /\ earliest \in Int /\ f[1] \in Int
    BY <1>2, <1>4
  <2> HIDE DEF earliest
  <2> QED
    BY <1>1, <2>1, DivMod
<1>6. T \in {A, E} /\ E <= A
  <2>1. E <= T /\ T <= A
    <3>1. /\ time \in Int /\ earliest \in Int /\ f[1] \in Int
          /\ earliest <= f[1] /\ f[1] <= time
      BY <1>2, <1>4
    <3> HIDE DEF earliest
    <3> QED
      BY <1>1, <3>1, DivMonotone
  <2>2. A <= E + 1
    <3>1. A <= (earliest + Day * 1) \div Day
      BY <1>1, <1>4, DivMonotone
    <3>2. (earliest + Day * 1) \div Day = E + 1
      BY <1>1, <1>4, DivShift
    <3> QED
      BY <3>1, <3>2
  <2> HIDE DEF A, E, T
  <2> QED
    BY <1>5, <2>1, <2>2
<1>7. Start(T) \in Int /\ earliest <= Start(T) /\ Start(T) <= f[1]
  <2>1. CASE T = E
    BY <1>4, <2>1
  <2>2. CASE T # E
    <3>1. T = A /\ Start(T) = A * Day
      BY <1>6, <2>2
    <3>2. Day * T <= f[1]
      <4>1. f[1] \in Int
        BY <1>2
      <4> QED
        BY <1>1, <4>1, DivGreatest
    <3>3. earliest <= Day * A
      <4>1. earliest = Day * E + (earliest % Day) /\ earliest % Day \in 0 .. Day - 1
        BY <1>1, <1>4, DivMod
      <4> HIDE DEF A, E, earliest
      <4>2. E + 1 <= A /\ E + 1 \in Int
        BY <1>5, <1>6, <2>2, <3>1
      <4>3. Day * (E + 1) <= Day * A
        BY <1>1, <1>5, <4>2, TimesMonotone
      <4> QED
        BY <1>1, <1>4, <1>5, <4>1, <4>3
    <3> HIDE DEF A, E, T, earliest, Start
    <3> QED
      BY <1>1, <1>5, <3>1, <3>2, <3>3
  <2> QED
    BY <2>1, <2>2
<1>8. f \in Folder(T) /\ Folder(T) \in SUBSET SourceFiles(s)
  OBVIOUS
<1>9. \A g \in Folder(T) : g[1] >= Start(T) => f[1] - g[1] < s.limit * s.every
  <2>1. SUFFICES ASSUME NEW g \in Folder(T), g[1] >= Start(T)
                 PROVE  f[1] - g[1] < s.limit * s.every
    OBVIOUS
  <2>2. g[1] \in Int
    BY <1>8, ObservationTime
  <2>3. f[1] - g[1] <= s.lookback
    <3> HIDE DEF Start
    <3> QED
      BY <1>2, <1>7, <2>1, <2>2
  <2> QED
    BY <1>2, <1>3, <2>2, <2>3
<1>10. f \in Listing(Folder(T), Start(T), s.limit)
  <2> HIDE DEF Folder, Start
  <2> QED
    BY <1>2, <1>7, <1>8, <1>9, Listed
<1> HIDE DEF T
<1>11. f \in UNION {Listing(Folder(d), Start(d), s.limit) : d \in {time \div Day, earliest \div Day}}
  <2> HIDE DEF Folder, Start, earliest
  <2> QED
    BY <1>6, <1>10 DEF A, E
<1> QED
  BY <1>2, <1>4, <1>11 DEF MrmsListed

\* A file that is there while a runner looks for it is found.
LEMMA Found ==
    ASSUME NEW s, Configured(s),
           NEW there \in SUBSET SourceFiles(s), NEW f \in there, NEW time \in 0 .. Horizon,
           time >= FirstAsked(s, f), time <= LastAsked(s, f)
    PROVE  f \in Discovered(s, time, there)
<1>1. f \in SourceFiles(s) /\ f = <<f[1], f[2]>>
  BY DEF SourceFiles
<1>2. CASE s.kind = "forecast"
  <2>1. f[1] = LatestCycle(s, time) /\ f[2] \in s.steps
    BY <1>1, <1>2, ForecastFound
  <2>2. f \in Forecasts(s, time)
    BY <1>1, <2>1 DEF Forecasts
  <2> QED
    BY <1>2, <2>2 DEF Discovered
<1>3. CASE s.kind = "lis"
  <2>1. f[1] \in LisTimes(s, time) /\ f[2] \in s.steps
    BY <1>1, <1>3, ProductFound
  <2>2. f \in LisTimes(s, time) \X s.steps
    BY <1>1, <2>1
  <2> QED
    BY <1>3, <2>2 DEF Discovered
<1>4. CASE s.kind = "mrms"
  <2>1. f \in MrmsListed(s, time, there)
    BY <1>4, RadarFound
  <2> QED
    BY <1>4, <2>1 DEF Discovered
<1>5. CASE s.kind = "goes"
  <2>1. f \in GoesListed(s, time, there)
    BY <1>5, ImageFound
  <2> QED
    BY <1>5, <2>1 DEF Discovered
<1> QED
  BY <1>2, <1>3, <1>4, <1>5 DEF Configured

\* The window in which a file is looked for is one of times.
LEMMA WindowTimes ==
    ASSUME NEW s, Configured(s), NEW f \in SourceFiles(s)
    PROVE  /\ f[1] \in Nat
           /\ FirstAsked(s, f) \in Nat /\ LastAsked(s, f) \in Int
           /\ Gap(s) \in Nat /\ Gap(s) = s.poll + MaxBusy
           /\ s.poll \in Nat /\ MaxBusy \in Nat /\ MaxFaults \in Nat /\ Horizon \in Nat
<1>1. /\ s.delay \in Nat /\ s.lookback \in Nat /\ s.poll \in Nat
      /\ MaxBusy \in Nat /\ MaxFaults \in Nat /\ Horizon \in Nat
  BY TimeAssumption DEF Configured
<1>2. f[1] \in Nat
  <2>1. CASE s.kind = "forecast"
    BY <2>1, RunsAreTimes DEF SourceFiles, Times
  <2>2. CASE s.kind # "forecast"
    BY <1>1, <2>2 DEF SourceFiles, Times
  <2> QED
    BY <2>1, <2>2
<1>3. FirstAsked(s, f) \in Nat
  BY <1>1, <1>2 DEF FirstAsked
<1>4. LastAsked(s, f) \in Int
  <2>1. CASE s.kind = "forecast"
    <3> DEFINE later == {t \in Runs(s) : t > f[1]}
    <3>1. later # {} => Min(later) \in Nat
      BY <2>1, RunsAreTimes, LeastOf
    <3>2. LastAsked(s, f) = IF later = {} THEN Horizon ELSE Min(later) + s.delay - 1
      BY <2>1 DEF LastAsked
    <3> HIDE DEF later
    <3> QED
      BY <1>1, <3>1, <3>2
  <2>2. CASE s.kind # "forecast"
    BY <1>1, <1>3, <2>2 DEF LastAsked
  <2> QED
    BY <2>1, <2>2
<1> QED
  BY <1>1, <1>2, <1>3, <1>4 DEF Gap

-----------------------------------------------------------------------------
(* How much time is left *)

LookTypes ==
    /\ source \in Sources /\ file \in SourceFiles(source)
    /\ now \in 0 .. Horizon /\ clock \in 0 .. now
    /\ cycle \in {"idle", "looking", "fetching"}
    /\ timer \in Nat /\ faults \in 0 .. MaxFaults
    /\ appeared \in BOOLEAN /\ taken \in BOOLEAN
    /\ downloaded \in BOOLEAN /\ owed \in BOOLEAN

\* A cycle ends in time, and so does the sleep after it.
CyclesEnd ==
    /\ cycle = "idle" => timer <= source.poll
    /\ cycle # "idle" => now + timer <= clock + MaxBusy

OwedThere == (owed => appeared) /\ (appeared => file[1] <= now)

FirstLook == FirstAsked(source, file)
LastLook == LastAsked(source, file)
Apart == Gap(source)

\* This cycle fetches the file if no request fails.
SureOf ==
    /\ clock <= LastLook
    /\ \/ cycle = "looking" /\ clock >= FirstLook
       \/ cycle = "fetching" /\ taken

\* The latest time for a cycle to begin so that it comes in time, although every
\* fault that is left costs one.
Room == LastLook - (MaxFaults - faults) * Apart

NextBegins == now + timer + (IF cycle = "idle" THEN 0 ELSE source.poll)

\* An owed file gets a cycle that begins in its window and meets no fault: the
\* next one that is not too early begins in time, or this one is enough.
InTime ==
    (owed /\ ~downloaded) =>
        /\ FirstLook + Apart <= Room
        /\ NextBegins <= (IF SureOf THEN Room + Apart ELSE Room)

LookInv == LookTypes /\ CyclesEnd /\ OwedThere /\ InTime

\* It holds when the downloader starts.
LEMMA InitLook ==
    ASSUME LookInit
    PROVE  LookInv
<1>1. Configured(source)
  BY SourcesAssumption DEF LookInit
<1>2. /\ source.poll \in Nat /\ MaxBusy \in Nat /\ MaxFaults \in Nat
      /\ Starts \in SUBSET (0 .. Horizon) /\ Horizon \in Nat
  BY <1>1, TimeAssumption DEF Configured
<1>3. LookTypes
  <2>1. now \in 0 .. Horizon /\ clock = now
    BY <1>2 DEF LookInit
  <2>2. clock \in 0 .. now
    BY <2>1
  <2>3. timer = 0 /\ faults = 0 /\ 0 \in 0 .. MaxFaults
    BY <1>2 DEF LookInit
  <2>4. cycle = "idle" /\ source \in Sources /\ file \in SourceFiles(source)
    BY DEF LookInit
  <2>5. /\ appeared \in BOOLEAN /\ taken \in BOOLEAN
        /\ downloaded \in BOOLEAN /\ owed \in BOOLEAN
    BY DEF LookInit
  <2> QED
    BY <2>1, <2>2, <2>3, <2>4, <2>5 DEF LookTypes
<1> QED
  BY <1>2, <1>3 DEF LookInit, LookInv, CyclesEnd, OwedThere, InTime

\* What the numbers of a state are.
LEMMA LookNumbers ==
    ASSUME LookTypes
    PROVE  /\ Configured(source)
           /\ file[1] \in Nat /\ FirstLook \in Nat /\ LastLook \in Int
           /\ Apart \in Nat /\ Apart = source.poll + MaxBusy
           /\ source.poll \in Nat /\ MaxBusy \in Nat /\ MaxFaults \in Nat /\ Horizon \in Nat
           /\ (MaxFaults - faults) * Apart \in Nat /\ Room \in Int
           /\ Room <= LastLook
<1>1. Configured(source) /\ file \in SourceFiles(source)
  BY SourcesAssumption DEF LookTypes
<1>2. /\ file[1] \in Nat /\ FirstLook \in Nat /\ LastLook \in Int
      /\ Apart \in Nat /\ Apart = source.poll + MaxBusy
      /\ source.poll \in Nat /\ MaxBusy \in Nat /\ MaxFaults \in Nat /\ Horizon \in Nat
  BY <1>1, WindowTimes DEF FirstLook, LastLook, Apart
<1>3. MaxFaults - faults \in Nat
  BY <1>2 DEF LookTypes
<1>4. (MaxFaults - faults) * Apart \in Nat
  BY <1>2, <1>3
<1> QED
  BY <1>1, <1>2, <1>4 DEF Room

\* No step changes the model, the file or its window.
LEMMA LookFrame ==
    ASSUME LookNext \/ UNCHANGED lookVars
    PROVE  /\ source' = source /\ file' = file
           /\ FirstLook' = FirstLook /\ LastLook' = LastLook /\ Apart' = Apart
           /\ faults' = faults => Room' = Room
<1>1. source' = source /\ file' = file
  BY DEF LookNext, lookVars, Appear, Begin, Look,
         End, Crash, Tick, Over
<1> QED
  BY <1>1 DEF FirstLook, LastLook, Apart, Room

\* Each step keeps the types ...
LEMMA LookTypesNext ==
    ASSUME LookTypes, LookNext \/ UNCHANGED lookVars
    PROVE  LookTypes'
<1>1. /\ source.poll \in Nat /\ MaxBusy \in Nat /\ MaxFaults \in Nat /\ Horizon \in Nat
      /\ source' = source /\ file' = file
  BY LookNumbers, LookFrame
<1>2. CASE Appear
  BY <1>1, <1>2 DEF LookTypes, Appear, runVars
<1>3. CASE Begin
  BY <1>1, <1>3 DEF LookTypes, Begin
<1>4. CASE Look
  BY <1>1, <1>4 DEF LookTypes, Look
<1>5. CASE End
  <2>1. /\ cycle' = "idle" /\ timer' = source.poll /\ taken' = FALSE
        /\ now' = now /\ appeared' = appeared /\ clock' = clock /\ owed' = owed
    BY <1>5 DEF End
  <2>2. faults' \in 0 .. MaxFaults
    BY <1>1, <1>5 DEF LookTypes, End
  <2>3. downloaded' \in BOOLEAN
    BY <1>5, Zenon DEF LookTypes, End
  <2> QED
    BY <1>1, <2>1, <2>2, <2>3 DEF LookTypes
<1>6. CASE Crash
  <2>1. /\ cycle' = "idle" /\ timer' = 0 /\ taken' = FALSE
        /\ now' = now /\ appeared' = appeared /\ clock' = clock
        /\ downloaded' = downloaded /\ owed' = owed
    BY <1>6 DEF Crash
  <2>2. faults' \in 0 .. MaxFaults
    BY <1>1, <1>6 DEF LookTypes, Crash
  <2> QED
    BY <1>1, <2>1, <2>2 DEF LookTypes
<1>7. CASE Tick
  BY <1>1, <1>7 DEF LookTypes, Tick
<1>8. CASE Over \/ UNCHANGED lookVars
  BY <1>8 DEF LookTypes, Over, lookVars, runVars
<1> QED
  BY <1>2, <1>3, <1>4, <1>5, <1>6, <1>7, <1>8 DEF LookNext

\* ... and the lengths of cycles and sleeps.
LEMMA CyclesEndNext ==
    ASSUME LookTypes, CyclesEnd, OwedThere, LookNext \/ UNCHANGED lookVars
    PROVE  CyclesEnd' /\ OwedThere'
<1>1. /\ source.poll \in Nat /\ MaxBusy \in Nat /\ file[1] \in Nat
      /\ source' = source /\ file' = file
  BY LookNumbers, LookFrame
<1>2. now \in Int /\ clock \in Int /\ clock <= now /\ timer \in Nat
  BY LookNumbers DEF LookTypes
<1>3. CASE Appear
  BY <1>1, <1>2, <1>3 DEF CyclesEnd, OwedThere, Appear, runVars
<1>4. CASE Begin
  <2>1. /\ cycle' = "looking" /\ clock' = now /\ timer' \in 0 .. MaxBusy
        /\ now' = now /\ appeared' = appeared /\ owed' = owed
    BY <1>4 DEF Begin
  <2>2. CyclesEnd'
    <3>1. PICK t \in 0 .. MaxBusy : timer' = t
      BY <2>1
    <3>2. now + t <= now + MaxBusy
      BY <1>1, <1>2
    <3> QED
      BY <2>1, <3>1, <3>2 DEF CyclesEnd
  <2>3. OwedThere'
    BY <1>1, <2>1 DEF OwedThere
  <2> QED
    BY <2>2, <2>3
<1>5. CASE Look
  BY <1>1, <1>2, <1>5 DEF CyclesEnd, OwedThere, Look
<1>6. CASE End
  BY <1>1, <1>2, <1>6 DEF CyclesEnd, OwedThere, End
<1>7. CASE Crash
  BY <1>1, <1>2, <1>7 DEF CyclesEnd, OwedThere, Crash
<1>8. CASE Tick
  BY <1>1, <1>2, <1>8 DEF CyclesEnd, OwedThere, Tick
<1>9. CASE Over \/ UNCHANGED lookVars
  BY <1>9 DEF CyclesEnd, OwedThere, Over, lookVars, runVars
<1> QED
  BY <1>3, <1>4, <1>5, <1>6, <1>7, <1>8, <1>9 DEF LookNext

\* Each step keeps the time that is left.
LEMMA InTimeNext ==
    ASSUME LookInv, LookNext \/ UNCHANGED lookVars
    PROVE  InTime'
<1> USE DEF LookInv
<1>1. /\ FirstLook \in Int /\ LastLook \in Int /\ Room \in Int /\ Room <= LastLook
      /\ Apart \in Nat /\ Apart = source.poll + MaxBusy
      /\ source.poll \in Nat /\ MaxBusy \in Nat /\ MaxFaults \in Nat
  BY LookNumbers
<1>2. /\ now \in Int /\ clock \in Int /\ clock <= now /\ timer \in Nat
      /\ faults \in Int /\ faults <= MaxFaults
  BY <1>1 DEF LookTypes
<1>3. /\ source' = source /\ file' = file
      /\ FirstLook' = FirstLook /\ LastLook' = LastLook /\ Apart' = Apart
      /\ faults' = faults => Room' = Room
  BY LookFrame
<1>4. NextBegins \in Int /\ now <= NextBegins
  BY <1>1, <1>2 DEF NextBegins
\* A fault leaves room for one cycle less to come.
<1>5. ASSUME faults' = faults + 1
      PROVE  Room' = Room + Apart
  <2> DEFINE k == MaxFaults - faults
  <2>1. Room = LastLook - k * Apart /\ k \in Int
    BY <1>1, <1>2 DEF Room
  <2>2. Room' = LastLook - (k - 1) * Apart
    <3>1. MaxFaults - faults' = k - 1
      BY <1>1, <1>2, <1>5
    <3> QED
      BY <1>3, <3>1 DEF Room
  <2> HIDE DEF k
  <2>3. (k - 1) * Apart = k * Apart - Apart /\ k * Apart \in Int
    <3>1. Apart \in Int /\ k \in Int
      BY <1>1, <2>1
    <3> HIDE DEF Apart
    <3> QED
      BY <3>1
  <2> QED
    BY <1>1, <2>1, <2>2, <2>3
<1>6. SUFFICES ASSUME owed', ~downloaded'
               PROVE  /\ FirstLook + Apart <= Room'
                      /\ NextBegins' <= (IF SureOf' THEN Room' + Apart ELSE Room')
  BY <1>3 DEF InTime
<1>7. CASE Appear
  <2>1. /\ cycle' = cycle /\ clock' = clock /\ timer' = timer /\ taken' = taken
        /\ now' = now /\ faults' = faults
        /\ Max({now, FirstLook}) + (MaxFaults - faults + 1) * Apart <= LastLook
    BY <1>6, <1>7 DEF Appear, runVars, FirstLook, LastLook, Apart
  <2>2. Room' = Room /\ NextBegins' = NextBegins
    BY <1>3, <2>1 DEF NextBegins
  <2>3. (MaxFaults - faults + 1) * Apart = (LastLook - Room) + Apart
    <3> DEFINE k == MaxFaults - faults
    <3>1. Room = LastLook - k * Apart /\ k \in Int
      BY <1>1, <1>2 DEF Room
    <3> HIDE DEF k
    <3>2. (k + 1) * Apart = (LastLook - Room) + Apart
      BY <1>1, <3>1
    <3> QED
      BY <3>2 DEF k
  <2>4. Max({now, FirstLook}) \in Int /\ now <= Max({now, FirstLook})
        /\ FirstLook <= Max({now, FirstLook})
    <3> DEFINE m == IF now >= FirstLook THEN now ELSE FirstLook
    <3>1. m \in {now, FirstLook} /\ \A u \in {now, FirstLook} : m >= u
      BY <1>1, <1>2
    <3>2. /\ Max({now, FirstLook}) \in {now, FirstLook}
          /\ \A u \in {now, FirstLook} : Max({now, FirstLook}) >= u
      <4> HIDE DEF m
      <4> QED
        BY <3>1, Zenon DEF Max
    <3> QED
      BY <1>1, <1>2, <3>2
  <2>5. now + Apart <= Room /\ FirstLook + Apart <= Room
    BY <1>1, <1>2, <2>1, <2>3, <2>4
  <2>6. NextBegins <= now + Apart
    BY <1>1, <1>2 DEF NextBegins, CyclesEnd, LookTypes
  <2> QED
    BY <1>1, <1>2, <1>4, <2>2, <2>5, <2>6
<1>8. CASE Begin
  <2>1. /\ cycle = "idle" /\ timer = 0 /\ cycle' = "looking" /\ clock' = now
        /\ timer' \in 0 .. MaxBusy /\ now' = now /\ taken' = taken
        /\ downloaded' = downloaded /\ faults' = faults /\ owed' = owed
    BY <1>8 DEF Begin
  <2>2. Room' = Room /\ FirstLook + Apart <= Room /\ now <= Room
    <3>1. ~SureOf /\ NextBegins = now
      BY <1>1, <1>2, <2>1 DEF SureOf, NextBegins
    <3> QED
      BY <1>3, <1>6, <2>1, <3>1 DEF InTime
  <2>3. NextBegins' <= now + Apart /\ NextBegins' \in Int
    <3>1. NextBegins' = now + timer' + source.poll
      BY <1>3, <2>1 DEF NextBegins
    <3> QED
      BY <1>1, <1>2, <2>1, <3>1
  <2>4. CASE now >= FirstLook
    <3>1. SureOf'
      BY <1>1, <1>2, <1>3, <2>1, <2>2, <2>4 DEF SureOf
    <3> QED
      BY <1>1, <1>2, <2>2, <2>3, <3>1
  <2>5. CASE now < FirstLook
    <3>1. NextBegins' <= Room'
      BY <1>1, <1>2, <2>2, <2>3, <2>5
    <3> QED
      BY <1>1, <2>2, <2>3, <3>1
  <2> QED
    BY <1>1, <1>2, <2>4, <2>5
<1>9. CASE Look
  <2>1. /\ cycle = "looking" /\ cycle' = "fetching" /\ clock' = clock /\ timer' = timer
        /\ now' = now /\ downloaded' = downloaded /\ faults' = faults /\ owed' = owed
        /\ taken' = (file \in Discovered(source, clock, There))
    BY <1>9 DEF Look
  <2>2. Room' = Room /\ NextBegins' = NextBegins
    BY <1>3, <2>1 DEF NextBegins
  <2>3. /\ FirstLook + Apart <= Room
        /\ NextBegins <= (IF SureOf THEN Room + Apart ELSE Room)
    BY <1>6, <2>1 DEF InTime
  <2>4. SureOf => SureOf'
    <3>1. SUFFICES ASSUME SureOf
                   PROVE  SureOf'
      OBVIOUS
    <3>2. clock <= LastLook /\ clock >= FirstLook
      BY <2>1, <3>1 DEF SureOf
    <3>3. file \in There /\ There \in SUBSET SourceFiles(source)
      BY <1>6, <2>1 DEF LookTypes, OwedThere, There
    <3>4. clock \in 0 .. Horizon
      BY LookNumbers DEF LookTypes
    <3>5. taken'
      BY <2>1, <3>2, <3>3, <3>4, Found, LookNumbers DEF FirstLook, LastLook
    <3> QED
      BY <1>3, <2>1, <3>2, <3>5 DEF SureOf
  <2> QED
    BY <1>1, <1>4, <2>2, <2>3, <2>4
<1>10. CASE End
  <2>1. /\ cycle = "fetching" /\ timer = 0 /\ cycle' = "idle" /\ timer' = source.poll
        /\ now' = now /\ clock' = clock /\ owed' = owed
        /\ \/ downloaded' = (downloaded \/ taken) /\ faults' = faults
           \/ taken /\ ~downloaded /\ faults' = faults + 1
    BY <1>10 DEF End
  <2>2. NextBegins' = NextBegins /\ ~SureOf' /\ ~downloaded
    <3>1. NextBegins = now + source.poll /\ NextBegins' = now + source.poll
      BY <1>1, <1>2, <1>3, <2>1 DEF NextBegins
    <3>2. ~SureOf'
      BY <2>1 DEF SureOf
    <3>3. ~downloaded
      BY <1>6, <2>1, Zenon
    <3> QED
      BY <3>1, <3>2, <3>3
  <2>3. /\ FirstLook + Apart <= Room
        /\ NextBegins <= (IF SureOf THEN Room + Apart ELSE Room)
    BY <1>6, <2>1, <2>2 DEF InTime
  <2>4. CASE faults' = faults /\ downloaded' = (downloaded \/ taken)
    <3>1. ~SureOf
      BY <1>6, <2>1, <2>4 DEF SureOf
    <3> QED
      BY <1>3, <2>2, <2>3, <2>4, <3>1
  <2>5. CASE faults' = faults + 1
    BY <1>1, <1>4, <1>5, <2>2, <2>3, <2>5
  <2> QED
    BY <2>1, <2>4, <2>5
<1>11. CASE Crash
  <2>1. /\ faults' = faults + 1 /\ cycle' = "idle" /\ timer' = 0
        /\ now' = now /\ downloaded' = downloaded /\ owed' = owed
    BY <1>11 DEF Crash
  <2>2. NextBegins' = now /\ ~SureOf'
    BY <1>2, <2>1 DEF NextBegins, SureOf
  <2>3. /\ FirstLook + Apart <= Room
        /\ NextBegins <= (IF SureOf THEN Room + Apart ELSE Room)
    BY <1>6, <2>1 DEF InTime
  <2> QED
    BY <1>1, <1>2, <1>4, <1>5, <2>1, <2>2, <2>3
<1>12. CASE Tick
  <2>1. /\ now' = now + 1 /\ timer' = timer - 1 /\ cycle' = cycle /\ clock' = clock
        /\ taken' = taken /\ downloaded' = downloaded /\ faults' = faults /\ owed' = owed
    BY <1>12 DEF Tick
  <2>2. NextBegins' = NextBegins /\ (SureOf' <=> SureOf) /\ Room' = Room
    BY <1>1, <1>2, <1>3, <2>1 DEF NextBegins, SureOf
  <2> QED
    BY <1>6, <2>1, <2>2 DEF InTime
<1>13. CASE Over \/ UNCHANGED lookVars
  <2>1. /\ now' = now /\ timer' = timer /\ cycle' = cycle /\ clock' = clock
        /\ taken' = taken /\ downloaded' = downloaded /\ faults' = faults /\ owed' = owed
    BY <1>13 DEF Over, lookVars, runVars
  <2>2. NextBegins' = NextBegins /\ (SureOf' <=> SureOf) /\ Room' = Room
    BY <1>3, <2>1 DEF NextBegins, SureOf
  <2> QED
    BY <1>6, <2>1, <2>2 DEF InTime
<1> QED
  BY <1>7, <1>8, <1>9, <1>10, <1>11, <1>12, <1>13 DEF LookNext

\* The invariant holds at all times, whatever requests fail and however often the
\* process dies and starts again (run_forever of the model runners).
THEOREM LookInvHolds == LookSpec => []LookInv
<1>1. LookInit => LookInv
  BY InitLook
<1>2. LookInv /\ [LookNext]_lookVars => LookInv'
  BY LookTypesNext, CyclesEndNext, InTimeNext DEF LookInv
<1> QED
  BY <1>1, <1>2, PTL DEF LookSpec

\* Each cycle of a forecast asks for a run that has begun, and no file that
\* appears while a cycle will still look for it is missed: across midnight, the
\* hour and the next run, for every configuration and any number of faults
\* (run_forever, the discover functions, latest_available_cycle).
THEOREM AlwaysCaughtInTime == LookSpec => []CaughtInTime
<1>1. LookInv => CaughtInTime
  <2>1. SUFFICES ASSUME LookInv
                 PROVE  LooksBack /\ NothingMissed
    BY DEF CaughtInTime
  <2>2. LookTypes /\ CyclesEnd /\ InTime
    BY <2>1 DEF LookInv
  <2>3. /\ Configured(source)
        /\ FirstLook \in Int /\ LastLook \in Int /\ Room \in Int /\ Room <= LastLook
        /\ Apart \in Nat /\ MaxBusy \in Nat /\ source.poll \in Nat
    BY <2>2, LookNumbers
  <2>4. now \in Int /\ clock \in Int /\ clock <= now /\ timer \in Nat
    BY <2>2, LookNumbers DEF LookTypes
  <2>5. LooksBack
    BY <2>3, <2>4, LastRun DEF LooksBack
  <2>6. ASSUME owed, ~downloaded
        PROVE  now <= LastLook + MaxBusy
    <3>1. NextBegins \in Int /\ now <= NextBegins
      BY <2>3, <2>4 DEF NextBegins
    <3>2. CASE SureOf
      <4>1. clock <= LastLook /\ cycle # "idle"
        BY <3>2 DEF SureOf
      <4>2. now <= clock + MaxBusy
        BY <2>2, <2>3, <2>4, <4>1 DEF CyclesEnd
      <4> QED
        BY <2>3, <2>4, <4>1, <4>2
    <3>3. CASE ~SureOf
      BY <2>2, <2>3, <2>4, <2>6, <3>1, <3>3 DEF InTime
    <3> QED
      BY <3>2, <3>3
  <2>7. NothingMissed
    BY <2>2, <2>3, <2>4, <2>6 DEF NothingMissed, LastLook, LookTypes
  <2> QED
    BY <2>5, <2>7
<1> QED
  BY <1>1, LookInvHolds, PTL

-----------------------------------------------------------------------------
(* Observations: what every step keeps *)


\* What has been posted is what the source showed, one report for a station.
BatchShown ==
    \A f \in Feeds : \A p \in batch[f] :
        /\ p[2] <= published[f][p[1]]
        /\ \A q \in batch[f] : (p[1] = q[1]) => (p = q)

\* The stations of an observation batch are in the table as far as its first
\* loop has come, and all of them when the second begins.
StationsFirst ==
    \A f \in ObsFeeds : \A p \in batch[f] :
        \/ p[1] \in located
        \/ at[f] = "locate" /\ p \in todo[f]

HeadsShown ==
    \A s \in Stations, i \in Issues :
        /\ heads[s][i] <= published[Taf][s]
        /\ (heads[s][i] # 0) => (IssueOf[heads[s][i]] = i)

HeadsBehind ==
    \A p \in batch[Taf] : \A i \in Issues : heads[p[1]][i] <= p[2]

\* The committed periods are those of the committed header.
PeriodsMatch ==
    \A s \in Stations, i \in Issues :
        heads[s][i] # 0 => periods[s][i] = PeriodsOf(heads[s][i])

\* The header a reader has in hand is still in the table, or an amendment of it.
ReaderBehind ==
    (reader # None) =>
        /\ IssueOf[reader.head] = reader.issue
        /\ reader.head <= heads[reader.station][reader.issue]
        /\ seen[reader.station] <= reader.head

SeenBehind ==
    \A s \in Stations : (seen[s] # 0) => \E i \in Issues : seen[s] <= heads[s][i]

Inv ==
    /\ TypeOK
    /\ BatchShown /\ StationsFirst
    /\ HeadsShown /\ HeadsBehind /\ PeriodsMatch
    /\ ReaderBehind /\ SeenBehind /\ ReadsWhole
--------------------------------------------------------------------------------
USE FeedAssumption, IssueAssumption, BoundAssumption, NoneAssumption

LEMMA ReportsPositive ==
    /\ \A v \in Reports : v \in Nat /\ v # 0
    /\ \A v \in Reports \cup {0} : v \in Nat
BY IssueAssumption

LEMMA InitInv == Init => Inv
<1> SUFFICES ASSUME Init PROVE Inv
  OBVIOUS
<1>1. TypeOK
  BY DEF Init, TypeOK, Feeds
<1>2. BatchShown /\ StationsFirst /\ HeadsBehind
  BY DEF Init, BatchShown, StationsFirst, HeadsBehind, Feeds
<1>3. HeadsShown /\ PeriodsMatch
  BY DEF Init, HeadsShown, PeriodsMatch, Feeds
<1>4. ReaderBehind /\ SeenBehind /\ ReadsWhole
  BY DEF Init, ReaderBehind, SeenBehind, ReadsWhole
<1> QED
  BY <1>1, <1>2, <1>3, <1>4 DEF Inv

LEMMA TypeStep == TypeOK /\ [Next]_vars => TypeOK'
<1> SUFFICES ASSUME TypeOK, [Next]_vars PROVE TypeOK'
  OBVIOUS
<1> USE DEF tables, handlers, reading, Answer, Enter, NextTaf
<1>1. ASSUME NEW f \in Feeds, NEW s \in Stations, Publish(f, s) PROVE TypeOK'
  <2>1. published[f][s] + 1 \in 1..NumReports[f][s]
    <3>1. published[f][s] \in Reports \cup {0}
      BY DEF TypeOK
    <3>2. published[f][s] \in Nat
      BY <3>1, ReportsPositive
    <3>3. NumReports[f][s] \in Nat
      BY BoundAssumption
    <3> QED
      BY <1>1, <3>2, <3>3 DEF Publish
  <2>2. published[f][s] + 1 \in Reports
    BY <2>1
  <2>3. published' \in [Feeds -> [Stations -> Reports \cup {0}]]
    BY <1>1, <2>2 DEF Publish, TypeOK
  <2> QED
    BY <1>1, <2>3 DEF Publish, TypeOK
<1>2. ASSUME NEW f \in Feeds, Poll(f) PROVE TypeOK'
  BY <1>2 DEF Poll, Current, TypeOK
<1>3. ASSUME NEW f \in Feeds, NEW p \in Posted, UpsertLocation(f, p) PROVE TypeOK'
  BY <1>3 DEF UpsertLocation, TypeOK, Posted
<1>4. ASSUME NEW f \in Feeds, Located(f) PROVE TypeOK'
  <2>1. CASE f = Taf
    <3>1. /\ at' = [at EXCEPT ![f] = "idle"] /\ batch' = [batch EXCEPT ![f] = {}]
          /\ todo' = [todo EXCEPT ![f] = {}] /\ at[f] = "locate"
          /\ UNCHANGED <<published, tables, tx, failures, reading>>
      BY <1>4, <2>1 DEF Located
    <3>2. tx' = None
      BY <2>1, <3>1 DEF TypeOK
    <3> HIDE DEF Answer
    <3> QED
      BY <3>1, <3>2 DEF TypeOK
  <2>2. CASE f # Taf
    <3>1. /\ at' = [at EXCEPT ![f] = "store"] /\ batch' = batch
          /\ todo' = [todo EXCEPT ![f] = batch[f]]
          /\ UNCHANGED <<published, tables, tx, failures, reading>>
      BY <1>4, <2>2 DEF Located
    <3> QED
      BY <2>2, <3>1 DEF TypeOK
  <2> QED
    BY <2>1, <2>2
<1>5. ASSUME NEW f \in Feeds, LocateFails(f) PROVE TypeOK'
  BY <1>5 DEF LocateFails, TypeOK
<1>6. ASSUME NEW f \in Feeds, NEW p \in Posted, InsertObservation(f, p) PROVE TypeOK'
  <2>1. <<f, p[1], IssueOf[p[2]]>> \in ObsFeeds \X Stations \X Issues
    BY <1>6 DEF InsertObservation, Posted, Issues, Feeds
  <2> QED
    BY <1>6, <2>1 DEF InsertObservation, TypeOK
<1>7. ASSUME NEW f \in Feeds, NEW p \in Posted, ObservationRejected(f, p) PROVE TypeOK'
  BY <1>7 DEF ObservationRejected, TypeOK
<1>8. ASSUME NEW f \in Feeds, InsertFails(f) PROVE TypeOK'
  BY <1>8 DEF InsertFails, TypeOK
<1>9. ASSUME NEW f \in Feeds, Inserted(f) PROVE TypeOK'
  BY <1>9 DEF Inserted, TypeOK
<1>10. ASSUME NEW p \in Posted, UpsertHeader(p) PROVE TypeOK'
  <2>1. tx' \in Transactions
    <3>1. p[1] \in Stations /\ IssueOf[p[2]] \in Issues
      BY DEF Posted, Issues
    <3>2. periods[p[1]][IssueOf[p[2]]] \in SUBSET PeriodRows
      BY <3>1 DEF TypeOK
    <3> QED
      BY <1>10, <3>2 DEF UpsertHeader, Transactions
  <2> QED
    BY <1>10, <2>1 DEF UpsertHeader, TypeOK, Transactions
<1>11. ASSUME NEW p \in Posted, HeaderRefused(p) PROVE TypeOK'
  BY <1>11 DEF HeaderRefused, TypeOK, Feeds
<1>12. CASE DeletePeriods
  BY <1>12 DEF DeletePeriods, TypeOK, Transactions
<1>13. ASSUME NEW k \in 1..NumPeriods, InsertPeriod(k) PROVE TypeOK'
  <2>1. tx \in Transactions
    BY <1>13 DEF InsertPeriod, TypeOK
  <2>2. <<tx.report[2], k>> \in PeriodRows
    BY <2>1 DEF Transactions, Posted, PeriodRows
  <2>3. tx' \in Transactions /\ tx'.report = tx.report
    BY <1>13, <2>1, <2>2 DEF InsertPeriod, Transactions
  <2> QED
    BY <1>13, <2>3 DEF InsertPeriod, TypeOK
<1>14. CASE Commit
  <2>1. tx \in Transactions
    BY <1>14 DEF Commit, TypeOK
  <2>2. heads' \in [Stations -> [Issues -> Reports \cup {0}]]
    BY <1>14, <2>1 DEF Commit, TypeOK, Transactions, Posted
  <2>3. periods' \in [Stations -> [Issues -> SUBSET PeriodRows]]
    BY <1>14, <2>1 DEF Commit, TypeOK, Transactions, Posted
  <2> QED
    BY <1>14, <2>2, <2>3 DEF Commit, TypeOK, Feeds
<1>15. CASE PeriodRejected
  BY <1>15 DEF PeriodRejected, TypeOK, Feeds
<1>16. ASSUME NEW p \in Posted, UpsertFails(p) PROVE TypeOK'
  BY <1>16 DEF UpsertFails, TypeOK, Feeds
<1>17. CASE TafsStored
  BY <1>17 DEF TafsStored, TypeOK, Feeds
<1>18. ASSUME NEW f \in Feeds, Cut(f) PROVE TypeOK'
  BY <1>18 DEF Cut, TypeOK
<1>19. ASSUME NEW s \in Asked, ReadHead(s) PROVE TypeOK'
  <2>1. PICK i \in Latest(s) :
          reader' = [station |-> s, issue |-> i, head |-> heads[s][i], rows |-> {},
                     step |-> "head"]
    BY <1>19 DEF ReadHead
  <2>2. reader' \in Readings
    BY <2>1 DEF Latest, TypeOK, Readings
  <2> QED
    BY <1>19, <2>2 DEF ReadHead, TypeOK
<1>20. CASE ReadPeriods
  <2>1. reader' \in Readings /\ seen' \in [Stations -> Reports \cup {0}]
    <3>1. reader \in Readings
      BY <1>20 DEF ReadPeriods, TypeOK
    <3>2. reader.station \in Stations /\ reader.issue \in Issues /\ reader.head \in Reports
      BY <3>1 DEF Readings
    <3>3. periods[reader.station][reader.issue] \in SUBSET PeriodRows
      BY <3>2 DEF TypeOK
    <3>4. reader' \in Readings
      BY <1>20, <3>1, <3>3 DEF ReadPeriods, Readings
    <3> QED
      BY <1>20, <3>2, <3>4 DEF ReadPeriods, TypeOK
  <2> QED
    BY <1>20, <2>1 DEF ReadPeriods, TypeOK
<1>21. CASE UNCHANGED vars
  BY <1>21 DEF vars, TypeOK
<1> QED
  BY <1>1, <1>2, <1>3, <1>4, <1>5, <1>6, <1>7, <1>8, <1>9, <1>10, <1>11, <1>12,
     <1>13, <1>14, <1>15, <1>16, <1>17, <1>18, <1>19, <1>20, <1>21
     DEF Next, Handle, HandleTaf, Fails, Read
--------------------------------------------------------------------------------
(***************************************************************************)
(* Which action writes what                                                *)
(***************************************************************************)
LEMMA WritesHeads == [Next]_vars => Commit \/ UNCHANGED <<heads, periods>>
BY DEF Next, Handle, HandleTaf, Fails, Read, vars, tables, handlers, reading,
       Publish, Poll, UpsertLocation, Located, LocateFails, InsertObservation,
       ObservationRejected, InsertFails, Inserted, UpsertHeader, HeaderRefused,
       DeletePeriods, InsertPeriod, PeriodRejected, UpsertFails, TafsStored, Cut,
       ReadHead, ReadPeriods

LEMMA WritesPublished ==
    [Next]_vars => \/ UNCHANGED published
                   \/ \E f \in Feeds, s \in Stations : Publish(f, s)
<1> SUFFICES ASSUME [Next]_vars
             PROVE  \/ UNCHANGED published
                    \/ \E f \in Feeds, s \in Stations : Publish(f, s)
  OBVIOUS
<1>1. ASSUME NEW f \in Feeds, Handle(f) PROVE UNCHANGED published
  BY <1>1 DEF Handle, HandleTaf, UpsertLocation, Located, InsertObservation,
       ObservationRejected, Inserted, UpsertHeader, HeaderRefused, DeletePeriods,
       InsertPeriod, Commit, PeriodRejected, TafsStored
<1>2. ASSUME NEW f \in Feeds, Poll(f) \/ Fails(f) PROVE UNCHANGED published
  BY <1>2 DEF Poll, Fails, LocateFails, InsertFails, Cut
<1>3. ASSUME NEW p \in Posted, UpsertFails(p) PROVE UNCHANGED published
  BY <1>3 DEF UpsertFails
<1>4. ASSUME Read \/ UNCHANGED vars PROVE UNCHANGED published
  BY <1>4 DEF Read, ReadHead, ReadPeriods, vars
<1> QED
  BY <1>1, <1>2, <1>3, <1>4 DEF Next

LEMMA WritesBatch ==
    [Next]_vars => \/ UNCHANGED batch
                   \/ \E f \in Feeds : Poll(f)
                   \/ \E f \in Feeds : batch' = [batch EXCEPT ![f] = {}]
<1> DEFINE Answered == \E f \in Feeds : batch' = [batch EXCEPT ![f] = {}]
<1> SUFFICES ASSUME [Next]_vars
             PROVE  UNCHANGED batch \/ (\E f \in Feeds : Poll(f)) \/ Answered
  OBVIOUS
<1>1. ASSUME NEW f \in Feeds, Handle(f) PROVE UNCHANGED batch \/ Answered
  BY <1>1 DEF Handle, HandleTaf, UpsertLocation, Located, InsertObservation, Answer,
       ObservationRejected, Inserted, UpsertHeader, HeaderRefused, DeletePeriods,
       InsertPeriod, Commit, PeriodRejected, TafsStored, handlers
<1>2. ASSUME NEW f \in Feeds, Fails(f) PROVE Answered
  BY <1>2 DEF Fails, LocateFails, InsertFails, Cut, Answer
<1>3. ASSUME NEW p \in Posted, UpsertFails(p) PROVE UNCHANGED batch
  BY <1>3 DEF UpsertFails
<1>4. ASSUME NEW f \in Feeds, NEW s \in Stations, Publish(f, s) PROVE UNCHANGED batch
  BY <1>4 DEF Publish, handlers
<1>5. ASSUME Read \/ UNCHANGED vars PROVE UNCHANGED batch
  BY <1>5 DEF Read, ReadHead, ReadPeriods, vars, handlers
<1> QED
  BY <1>1, <1>2, <1>3, <1>4, <1>5 DEF Next

LEMMA WritesReading ==
    [Next]_vars => \/ UNCHANGED reading
                   \/ \E s \in Asked : ReadHead(s)
                   \/ ReadPeriods
<1> SUFFICES ASSUME [Next]_vars, ~Read PROVE UNCHANGED reading
  BY DEF Read
<1>1. ASSUME NEW f \in Feeds, Handle(f) PROVE UNCHANGED reading
  BY <1>1 DEF Handle, HandleTaf, UpsertLocation, Located, InsertObservation, reading,
       ObservationRejected, Inserted, UpsertHeader, HeaderRefused, DeletePeriods,
       InsertPeriod, Commit, PeriodRejected, TafsStored
<1>2. ASSUME NEW f \in Feeds, Poll(f) \/ Fails(f) PROVE UNCHANGED reading
  BY <1>2 DEF Poll, Fails, LocateFails, InsertFails, Cut, reading
<1>3. ASSUME NEW p \in Posted, UpsertFails(p) PROVE UNCHANGED reading
  BY <1>3 DEF UpsertFails, reading
<1>4. ASSUME NEW f \in Feeds, NEW s \in Stations, Publish(f, s) PROVE UNCHANGED reading
  BY <1>4 DEF Publish, reading
<1>5. ASSUME UNCHANGED vars PROVE UNCHANGED reading
  BY <1>5 DEF vars, reading
<1> QED
  BY <1>1, <1>2, <1>3, <1>4, <1>5 DEF Next
--------------------------------------------------------------------------------
(***************************************************************************)
(* The batch and the stations                                              *)
(***************************************************************************)
LEMMA BatchStep == Inv /\ [Next]_vars => BatchShown'
<1> SUFFICES ASSUME Inv, [Next]_vars PROVE BatchShown'
  OBVIOUS
<1> USE DEF Inv
<1>1. CASE UNCHANGED <<batch, published>>
  BY <1>1 DEF BatchShown
<1>2. ASSUME NEW f \in Feeds, NEW s \in Stations, Publish(f, s) PROVE BatchShown'
  <2>1. /\ batch' = batch
        /\ published' = [published EXCEPT ![f][s] = @ + 1]
    BY <1>2 DEF Publish, handlers
  <2> SUFFICES ASSUME NEW g \in Feeds, NEW p \in batch[g] PROVE p[2] <= published'[g][p[1]]
    BY <2>1 DEF BatchShown
  <2>2. p[1] \in Stations /\ p[2] \in Reports /\ published[g][p[1]] \in Reports \cup {0}
    BY DEF TypeOK, Posted
  <2>3. p[2] <= published[g][p[1]]
    BY DEF BatchShown
  <2>4. published'[g][p[1]] \in {published[g][p[1]], published[g][p[1]] + 1}
    BY <2>1, <2>2 DEF TypeOK
  <2> QED
    <3>1. p[2] \in Nat /\ published[g][p[1]] \in Nat
      BY <2>2, ReportsPositive
    <3> QED
      BY <2>3, <2>4, <3>1
<1>3. ASSUME NEW f \in Feeds, Poll(f) PROVE BatchShown'
  <2>1. published' = published /\ batch' = [batch EXCEPT ![f] = Current(f)]
    BY <1>3 DEF Poll
  <2>2. \A p, q \in Current(f) :
           /\ p[2] <= published[f][p[1]]
           /\ (p[1] = q[1]) => (p = q)
    <3> SUFFICES ASSUME NEW p \in Current(f), NEW q \in Current(f)
                 PROVE  p[2] <= published[f][p[1]] /\ ((p[1] = q[1]) => (p = q))
      OBVIOUS
    <3>1. p = <<p[1], p[2]>> /\ q = <<q[1], q[2]>> /\ p[2] \in Reports
      BY DEF Current, Posted
    <3>2. published[f][p[1]] = p[2] /\ published[f][q[1]] = q[2]
      BY DEF Current
    <3> QED
      BY <3>1, <3>2, ReportsPositive
  <2> QED
    BY <2>1, <2>2 DEF BatchShown, TypeOK
<1>4. ASSUME NEW f \in Feeds, batch' = [batch EXCEPT ![f] = {}], UNCHANGED published
      PROVE BatchShown'
  BY <1>4 DEF BatchShown, TypeOK
<1>5. ASSUME NEW f \in Feeds, NEW s \in Stations, Publish(f, s) PROVE UNCHANGED batch
  BY <1>5 DEF Publish, handlers
<1> QED
  BY <1>1, <1>2, <1>3, <1>4, WritesPublished, WritesBatch

LEMMA StationsStep == Inv /\ [Next]_vars => StationsFirst'
<1> SUFFICES ASSUME Inv, [Next]_vars,
                    NEW f \in ObsFeeds, NEW p \in batch'[f]
             PROVE  p[1] \in located' \/ (at'[f] = "locate" /\ p \in todo'[f])
  BY DEF StationsFirst
<1> DEFINE Goal == p[1] \in located' \/ (at'[f] = "locate" /\ p \in todo'[f])
<1>0. f \in Feeds /\ f # Taf
  BY DEF Feeds
<1>1. (p \in batch[f]) => (p[1] \in located \/ (at[f] = "locate" /\ p \in todo[f]))
  BY DEF Inv, StationsFirst
<1>2. at \in [Feeds -> {"idle", "locate", "store"}] /\ batch \in [Feeds -> SUBSET Posted]
      /\ todo \in [Feeds -> SUBSET Posted]
  BY DEF Inv, TypeOK
<1> USE DEF tables, handlers, reading
<1>3. ASSUME NEW g \in Feeds, Answer(g), UNCHANGED located PROVE Goal
  BY <1>0, <1>1, <1>2, <1>3 DEF Answer
<1>4. ASSUME UNCHANGED <<located, at, batch>>, todo'[f] = todo[f] PROVE Goal
  BY <1>1, <1>4
<1>5. ASSUME NEW g \in Feeds, Poll(g) PROVE Goal
  BY <1>0, <1>1, <1>2, <1>5 DEF Poll, Enter
<1>6. ASSUME NEW g \in Feeds, NEW q \in Posted, UpsertLocation(g, q) PROVE Goal
  BY <1>0, <1>1, <1>2, <1>6 DEF UpsertLocation
<1>7. ASSUME NEW g \in Feeds, Located(g) PROVE Goal
  <2>1. CASE g = Taf
    BY <1>3, <1>7, <2>1 DEF Located
  <2>2. CASE g # Taf
    <3>1. /\ at[g] = "locate" /\ todo[g] = {}
          /\ at' = [at EXCEPT ![g] = "store"] /\ UNCHANGED <<batch, located>>
          /\ todo' = [todo EXCEPT ![g] = batch'[g]]
      BY <1>7, <2>2 DEF Located, Enter
    <3> QED
      BY <1>0, <1>1, <1>2, <3>1
  <2> QED
    BY <2>1, <2>2
<1>8. ASSUME NEW g \in Feeds, LocateFails(g) \/ InsertFails(g) \/ Inserted(g) \/ Cut(g)
      PROVE  Goal
  BY <1>3, <1>8 DEF LocateFails, InsertFails, Inserted, Cut
<1>9. ASSUME NEW g \in Feeds, NEW q \in Posted, ObservationRejected(g, q) PROVE Goal
  BY <1>3, <1>9 DEF ObservationRejected
<1>10. ASSUME NEW g \in Feeds, NEW q \in Posted, InsertObservation(g, q) PROVE Goal
  BY <1>0, <1>1, <1>2, <1>10 DEF InsertObservation
<1>11. ASSUME NEW q \in Posted, UpsertHeader(q) \/ HeaderRefused(q) \/ UpsertFails(q)
       PROVE  Goal
  BY <1>0, <1>2, <1>4, <1>11 DEF UpsertHeader, HeaderRefused, UpsertFails, NextTaf
<1>12. CASE DeletePeriods \/ Commit \/ PeriodRejected
  BY <1>0, <1>2, <1>4, <1>12 DEF DeletePeriods, Commit, PeriodRejected, NextTaf
<1>13. ASSUME NEW k \in 1..NumPeriods, InsertPeriod(k) PROVE Goal
  BY <1>4, <1>13 DEF InsertPeriod
<1>14. CASE TafsStored
  BY <1>0, <1>1, <1>2, <1>14 DEF TafsStored, Enter
<1>15. CASE Read
  BY <1>4, <1>15 DEF Read, ReadHead, ReadPeriods
<1>16. ASSUME NEW g \in Feeds, NEW t \in Stations, Publish(g, t) PROVE Goal
  BY <1>4, <1>16 DEF Publish
<1>17. CASE UNCHANGED vars
  BY <1>4, <1>17 DEF vars
<1> QED
  BY <1>5, <1>6, <1>7, <1>8, <1>9, <1>10, <1>11, <1>12, <1>13, <1>14, <1>15, <1>16,
     <1>17 DEF Next, Handle, HandleTaf, Fails
--------------------------------------------------------------------------------
(***************************************************************************)
(* The forecasts                                                           *)
(***************************************************************************)
\* What Commit commits: the report in hand, which is none older than the one it
\* replaces and none newer than what the source shows.
LEMMA CommitWrites ==
    ASSUME Inv, Commit
    PROVE  \E p \in batch[Taf] :
             /\ p \in Posted /\ IssueOf[p[2]] \in Issues
             /\ heads' = [heads EXCEPT ![p[1]][IssueOf[p[2]]] = p[2]]
             /\ periods' = [periods EXCEPT ![p[1]][IssueOf[p[2]]] = PeriodsOf(p[2])]
             /\ UNCHANGED <<published, batch, reader, seen>>
<1>1. tx # None /\ tx \in Transactions /\ tx.report \in todo[Taf]
  BY DEF Inv, Commit, TypeOK
<1>2. tx.report \in batch[Taf] /\ tx.report \in Posted
  BY <1>1 DEF Inv, TypeOK, Feeds, Transactions
<1>3. IssueOf[tx.report[2]] \in Issues
  BY <1>2 DEF Posted, Issues
<1> QED
  BY <1>2, <1>3 DEF Commit, reading, NextTaf

LEMMA HeadsGrow ==
    ASSUME Inv, [Next]_vars, NEW s \in Stations, NEW i \in Issues
    PROVE  heads[s][i] <= heads'[s][i]
<1>1. heads \in [Stations -> [Issues -> Reports \cup {0}]] /\ heads[s][i] \in Nat
  <2>1. heads \in [Stations -> [Issues -> Reports \cup {0}]]
    BY DEF Inv, TypeOK
  <2>2. heads[s][i] \in Reports \cup {0}
    BY <2>1
  <2> QED
    BY <2>1, <2>2, ReportsPositive
<1>2. CASE UNCHANGED heads
  BY <1>1, <1>2
<1>3. CASE Commit
  <2>1. PICK p \in batch[Taf] :
             /\ p \in Posted /\ IssueOf[p[2]] \in Issues
             /\ heads' = [heads EXCEPT ![p[1]][IssueOf[p[2]]] = p[2]]
    BY <1>3, CommitWrites
  <2>2. heads[p[1]][IssueOf[p[2]]] <= p[2]
    BY <2>1 DEF Inv, HeadsBehind
  <2>3. p[1] \in Stations
    BY <2>1 DEF Posted
  <2> QED
    BY <1>1, <2>1, <2>2, <2>3
<1> QED
  BY <1>2, <1>3, WritesHeads

LEMMA HeadsShownStep == Inv /\ [Next]_vars => HeadsShown'
<1> SUFFICES ASSUME Inv, [Next]_vars, NEW s \in Stations, NEW i \in Issues
             PROVE  /\ heads'[s][i] <= published'[Taf][s]
                    /\ (heads'[s][i] # 0) => (IssueOf[heads'[s][i]] = i)
  BY DEF HeadsShown
<1>1. heads \in [Stations -> [Issues -> Reports \cup {0}]]
  BY DEF Inv, TypeOK
<1>2. heads[s][i] \in Nat /\ published[Taf][s] \in Nat
  <2>1. heads[s][i] \in Reports \cup {0} /\ published[Taf][s] \in Reports \cup {0}
    BY DEF Inv, TypeOK, Feeds
  <2> QED
    BY <2>1, ReportsPositive
<1>3. heads[s][i] <= published[Taf][s] /\ ((heads[s][i] # 0) => (IssueOf[heads[s][i]] = i))
  BY DEF Inv, HeadsShown
<1>4. CASE Commit
  <2>1. PICK p \in batch[Taf] :
             /\ p \in Posted /\ IssueOf[p[2]] \in Issues
             /\ heads' = [heads EXCEPT ![p[1]][IssueOf[p[2]]] = p[2]]
             /\ published' = published
    BY <1>4, CommitWrites
  <2>2. p[1] \in Stations /\ p[2] <= published[Taf][p[1]]
    BY <2>1 DEF Inv, BatchShown, Posted, Feeds
  <2>3. CASE s = p[1] /\ i = IssueOf[p[2]]
    BY <1>1, <2>1, <2>2, <2>3
  <2>4. CASE ~(s = p[1] /\ i = IssueOf[p[2]])
    BY <1>1, <1>3, <2>1, <2>2, <2>4
  <2> QED
    BY <2>3, <2>4
<1>5. CASE UNCHANGED <<heads, published>>
  BY <1>3, <1>5
<1>6. ASSUME NEW f \in Feeds, NEW t \in Stations, Publish(f, t)
      PROVE  heads' = heads /\ published[Taf][s] <= published'[Taf][s]
  <2>1. heads' = heads /\ published' = [published EXCEPT ![f][t] = @ + 1]
    BY <1>6 DEF Publish, tables
  <2>2. published'[Taf][s] \in {published[Taf][s], published[Taf][s] + 1}
    BY <2>1 DEF Inv, TypeOK, Feeds
  <2> QED
    BY <1>2, <2>1, <2>2
<1>7. ASSUME NEW f \in Feeds, NEW t \in Stations, Publish(f, t)
      PROVE  published'[Taf][s] \in Nat
  BY <1>2, <1>7 DEF Publish, Inv, TypeOK, Feeds
<1> QED
  BY <1>2, <1>3, <1>4, <1>5, <1>6, <1>7, WritesHeads, WritesPublished

LEMMA HeadsBehindStep == Inv /\ [Next]_vars => HeadsBehind'
<1> SUFFICES ASSUME Inv, [Next]_vars, NEW q \in batch'[Taf], NEW i \in Issues
             PROVE  heads'[q[1]][i] <= q[2]
  BY DEF HeadsBehind
<1>1. /\ heads \in [Stations -> [Issues -> Reports \cup {0}]]
      /\ batch \in [Feeds -> SUBSET Posted] /\ Taf \in Feeds
  BY DEF Inv, TypeOK, Feeds
<1>2. (q \in batch[Taf]) => (heads[q[1]][i] <= q[2])
  BY DEF Inv, HeadsBehind
<1>3. CASE Commit
  <2>1. PICK p \in batch[Taf] :
             /\ p \in Posted /\ IssueOf[p[2]] \in Issues
             /\ heads' = [heads EXCEPT ![p[1]][IssueOf[p[2]]] = p[2]]
             /\ batch' = batch
    BY <1>3, CommitWrites
  <2>2. p[1] \in Stations /\ p[2] \in Nat
    BY <2>1, ReportsPositive DEF Posted
  <2>3. (p[1] = q[1]) => (p = q)
    BY <2>1, <1>1 DEF Inv, BatchShown
  <2>4. CASE q[1] = p[1] /\ i = IssueOf[p[2]]
    BY <1>1, <2>1, <2>2, <2>3, <2>4
  <2>5. CASE ~(q[1] = p[1] /\ i = IssueOf[p[2]])
    BY <1>1, <1>2, <2>1, <2>2, <2>5
  <2> QED
    BY <2>4, <2>5
<1>4. CASE heads' = heads /\ q \in batch[Taf]
  BY <1>2, <1>4
<1>5. ASSUME NEW f \in Feeds, Poll(f), q \notin batch[Taf] PROVE heads'[q[1]][i] <= q[2]
  <2>1. heads' = heads /\ batch' = [batch EXCEPT ![f] = Current(f)]
    BY <1>5 DEF Poll, tables
  <2>2. q \in Current(Taf)
    BY <1>1, <1>5, <2>1
  <2>3. q[1] \in Stations /\ published[Taf][q[1]] = q[2]
    BY <2>2 DEF Current, Posted
  <2> QED
    BY <2>1, <2>3 DEF Inv, HeadsShown
<1>6. CASE q \notin batch[Taf]
  <2>1. \E f \in Feeds : Poll(f)
    BY <1>1, <1>6, WritesBatch
  <2> QED
    BY <1>5, <1>6, <2>1
<1> QED
  BY <1>3, <1>4, <1>6, WritesHeads

LEMMA PeriodsStep == Inv /\ [Next]_vars => PeriodsMatch'
<1> SUFFICES ASSUME Inv, [Next]_vars, NEW s \in Stations, NEW i \in Issues, heads'[s][i] # 0
             PROVE  periods'[s][i] = PeriodsOf(heads'[s][i])
  BY DEF PeriodsMatch
<1>1. /\ heads \in [Stations -> [Issues -> Reports \cup {0}]]
      /\ periods \in [Stations -> [Issues -> SUBSET PeriodRows]]
  BY DEF Inv, TypeOK
<1>2. (heads[s][i] # 0) => (periods[s][i] = PeriodsOf(heads[s][i]))
  BY DEF Inv, PeriodsMatch
<1>3. CASE Commit
  <2>1. PICK p \in batch[Taf] :
             /\ p \in Posted /\ IssueOf[p[2]] \in Issues
             /\ heads' = [heads EXCEPT ![p[1]][IssueOf[p[2]]] = p[2]]
             /\ periods' = [periods EXCEPT ![p[1]][IssueOf[p[2]]] = PeriodsOf(p[2])]
    BY <1>3, CommitWrites
  <2>2. p[1] \in Stations
    BY <2>1 DEF Posted
  <2>3. CASE s = p[1] /\ i = IssueOf[p[2]]
    BY <1>1, <2>1, <2>2, <2>3
  <2>4. CASE ~(s = p[1] /\ i = IssueOf[p[2]])
    BY <1>1, <1>2, <2>1, <2>2, <2>4
  <2> QED
    BY <2>3, <2>4
<1>4. CASE UNCHANGED <<heads, periods>>
  BY <1>2, <1>4
<1> QED
  BY <1>3, <1>4, WritesHeads
--------------------------------------------------------------------------------
(***************************************************************************)
(* The reader                                                              *)
(***************************************************************************)
\* The header with the latest issue time is the newest there is.
LEMMA LatestIsNewest ==
    ASSUME Inv, NEW s \in Stations, NEW i \in Latest(s), NEW j \in Issues
    PROVE  heads[s][j] <= heads[s][i]
<1>1. i \in Issues /\ heads[s][i] # 0 /\ ((heads[s][j] # 0) => (j <= i))
  BY DEF Latest
<1>2. heads[s][i] \in Reports \cup {0} /\ heads[s][j] \in Reports \cup {0}
  BY <1>1 DEF Inv, TypeOK
<1>3. heads[s][i] \in Nat /\ heads[s][j] \in Nat
  BY <1>2, ReportsPositive
<1>4. CASE heads[s][j] = 0
  BY <1>3, <1>4
<1>5. CASE heads[s][j] # 0 /\ j = i
  BY <1>3, <1>5
<1>6. CASE heads[s][j] # 0 /\ j # i
  <2>1. /\ heads[s][i] \in Reports /\ heads[s][j] \in Reports
        /\ IssueOf[heads[s][i]] = i /\ IssueOf[heads[s][j]] = j
    BY <1>1, <1>2, <1>6 DEF Inv, HeadsShown
  <2>2. i \in Nat /\ j \in Nat /\ j <= i
    BY <1>1, <1>6, <2>1, IssueAssumption
  <2>3. (heads[s][i] <= heads[s][j]) => (i <= j)
    <3>1. (heads[s][i] <= heads[s][j]) => (IssueOf[heads[s][i]] <= IssueOf[heads[s][j]])
      BY <2>1, IssueAssumption, Zenon
    <3> QED
      BY <2>1, <3>1
  <2> QED
    BY <1>3, <1>6, <2>2, <2>3
<1> QED
  BY <1>4, <1>5, <1>6

LEMMA SeenStep == Inv /\ [Next]_vars => SeenBehind'
<1> SUFFICES ASSUME Inv, [Next]_vars, NEW s \in Stations, seen'[s] # 0
             PROVE  \E i \in Issues : seen'[s] <= heads'[s][i]
  BY DEF SeenBehind
<1>0. /\ \A i \in Issues : heads[s][i] \in Reports \cup {0} /\ heads'[s][i] \in Reports \cup {0}
      /\ seen[s] \in Reports \cup {0}
  BY TypeStep DEF Inv, TypeOK
<1>1. /\ \A i \in Issues : heads[s][i] \in Nat /\ heads'[s][i] \in Nat
      /\ seen[s] \in Nat
  BY <1>0, ReportsPositive
<1>2. CASE seen'[s] = seen[s]
  <2>1. PICK i \in Issues : seen[s] <= heads[s][i]
    BY <1>2 DEF Inv, SeenBehind
  <2> QED
    BY <1>1, <1>2, <2>1, HeadsGrow
<1>3. CASE ReadPeriods /\ seen'[s] # seen[s]
  <2>1. reader # None /\ reader \in Readings
    BY <1>3 DEF ReadPeriods, Inv, TypeOK
  <2>2. s = reader.station /\ seen'[s] = reader.head
    BY <1>3 DEF ReadPeriods, Inv, TypeOK
  <2>3. reader.issue \in Issues /\ reader.head <= heads[s][reader.issue] /\ reader.head \in Reports
    BY <2>1, <2>2 DEF Inv, ReaderBehind, Readings
  <2>4. heads[s][reader.issue] <= heads'[s][reader.issue] /\ reader.head \in Nat
    BY <2>3, HeadsGrow, ReportsPositive
  <2> QED
    BY <1>1, <2>2, <2>3, <2>4
<1>4. ASSUME NEW t \in Asked, ReadHead(t) PROVE seen' = seen
  BY <1>4 DEF ReadHead
<1> QED
  BY <1>2, <1>3, <1>4, WritesReading DEF reading

LEMMA ReaderStep == Inv /\ [Next]_vars => ReaderBehind'
<1> SUFFICES ASSUME Inv, [Next]_vars, reader' # None
             PROVE  /\ IssueOf[reader'.head] = reader'.issue
                    /\ reader'.head <= heads'[reader'.station][reader'.issue]
                    /\ seen'[reader'.station] <= reader'.head
  BY DEF ReaderBehind
<1>1. \A s \in Stations, i \in Issues : heads[s][i] \in Nat /\ heads'[s][i] \in Nat
  <2>1. \A s \in Stations, i \in Issues :
          heads[s][i] \in Reports \cup {0} /\ heads'[s][i] \in Reports \cup {0}
    BY TypeStep DEF Inv, TypeOK
  <2> QED
    BY <2>1, ReportsPositive
<1>2. ASSUME reader # None
      PROVE  /\ reader.station \in Stations /\ reader.issue \in Issues /\ reader.head \in Nat
             /\ IssueOf[reader.head] = reader.issue
             /\ reader.head <= heads[reader.station][reader.issue]
             /\ heads[reader.station][reader.issue] <= heads'[reader.station][reader.issue]
             /\ seen[reader.station] <= reader.head
  <2>1. reader \in Readings
    BY <1>2 DEF Inv, TypeOK
  <2>2. reader.station \in Stations /\ reader.issue \in Issues /\ reader.head \in Reports
    BY <2>1 DEF Readings
  <2> QED
    BY <1>2, <2>2, HeadsGrow, ReportsPositive DEF Inv, ReaderBehind
<1>3. CASE UNCHANGED reading
  BY <1>1, <1>2, <1>3 DEF reading
<1>4. ASSUME NEW s \in Asked, ReadHead(s)
      PROVE  /\ IssueOf[reader'.head] = reader'.issue
             /\ reader'.head <= heads'[reader'.station][reader'.issue]
             /\ seen'[reader'.station] <= reader'.head
  <2>1. PICK i \in Latest(s) :
          reader' = [station |-> s, issue |-> i, head |-> heads[s][i], rows |-> {},
                     step |-> "head"]
    BY <1>4 DEF ReadHead
  <2>2. seen' = seen /\ heads' = heads /\ s \in Stations /\ i \in Issues /\ heads[s][i] # 0
    BY <1>4, <2>1, BoundAssumption DEF ReadHead, Latest, tables
  <2>3. IssueOf[heads[s][i]] = i
    BY <2>2 DEF Inv, HeadsShown
  <2>4. seen[s] \in Nat
    <3>1. seen[s] \in Reports \cup {0}
      BY <2>2 DEF Inv, TypeOK
    <3> QED
      BY <3>1, ReportsPositive
  <2>5. seen[s] <= heads[s][i]
    <3>1. CASE seen[s] = 0
      BY <1>1, <2>2, <3>1
    <3>2. CASE seen[s] # 0
      <4>1. PICK j \in Issues : seen[s] <= heads[s][j]
        BY <2>2, <3>2 DEF Inv, SeenBehind
      <4>2. heads[s][j] <= heads[s][i]
        BY <2>2, LatestIsNewest
      <4> QED
        BY <1>1, <2>2, <2>4, <4>1, <4>2
    <3> QED
      BY <3>1, <3>2
  <2> QED
    BY <1>1, <2>1, <2>2, <2>3, <2>5
<1>5. CASE ReadPeriods
  <2>1. /\ reader # None /\ reader \in Readings
        /\ reader'.station = reader.station /\ reader'.issue = reader.issue
        /\ reader'.head = reader.head
        /\ seen' = [seen EXCEPT ![reader.station] = reader.head]
    BY <1>5 DEF ReadPeriods, Inv, TypeOK, Readings
  <2>2. seen'[reader.station] = reader.head
    BY <1>2, <2>1 DEF Inv, TypeOK
  <2> QED
    BY <1>1, <1>2, <2>1, <2>2
<1> QED
  BY <1>3, <1>4, <1>5, WritesReading

LEMMA WholeStep == Inv /\ [Next]_vars => ReadsWhole'
<1> SUFFICES ASSUME Inv, [Next]_vars PROVE ReadsWhole'
  OBVIOUS
<1>1. CASE UNCHANGED reading
  BY <1>1 DEF reading, Inv, ReadsWhole
<1>2. ASSUME NEW s \in Asked, ReadHead(s) PROVE ReadsWhole'
  BY <1>2 DEF ReadHead, ReadsWhole
<1>3. CASE ReadPeriods
  <2>1. reader # None /\ reader \in Readings
    BY <1>3 DEF ReadPeriods, Inv, TypeOK
  <2> DEFINE v == heads[reader.station][reader.issue]
  <2>2. reader.station \in Stations /\ reader.issue \in Issues /\ reader.head \in Reports
    BY <2>1 DEF Readings
  <2>3. v \in Reports \cup {0} /\ reader.head <= v
    BY <2>1, <2>2 DEF Inv, TypeOK, ReaderBehind
  <2>4. v # 0
    <3>1. reader.head \in Nat /\ reader.head # 0
      BY <2>2, ReportsPositive
    <3>2. reader.head <= v
      BY <2>3
    <3> QED
      BY <3>1, <3>2
  <2>5. IssueOf[v] = reader.issue /\ periods[reader.station][reader.issue] = PeriodsOf(v)
    BY <2>2, <2>4 DEF Inv, HeadsShown, PeriodsMatch
  <2>6. /\ reader'.rows = periods[reader.station][reader.issue]
        /\ reader'.issue = reader.issue /\ reader'.head = reader.head
    BY <1>3, <2>1 DEF ReadPeriods, Readings
  <2>7. v >= reader.head /\ v \in Reports
    BY <2>2, <2>3, <2>4, ReportsPositive
  <2> HIDE DEF v
  <2> QED
    BY <2>5, <2>6, <2>7 DEF ReadsWhole
<1> QED
  BY <1>1, <1>2, <1>3, WritesReading
--------------------------------------------------------------------------------
(***************************************************************************)
(* The theorems                                                            *)
(***************************************************************************)
\* Inv holds of every behaviour, fair or not.
THEOREM InvHolds == Spec => []Inv
<1>1. Init => Inv
  BY InitInv
<1>2. Inv /\ [Next]_vars => Inv'
  <2> SUFFICES ASSUME Inv, [Next]_vars PROVE Inv'
    OBVIOUS
  <2>1. TypeOK'
    BY TypeStep DEF Inv
  <2>2. BatchShown' /\ StationsFirst'
    BY BatchStep, StationsStep
  <2>3. HeadsShown' /\ HeadsBehind' /\ PeriodsMatch'
    BY HeadsShownStep, HeadsBehindStep, PeriodsStep
  <2>4. ReaderBehind' /\ SeenBehind' /\ ReadsWhole'
    BY ReaderStep, SeenStep, WholeStep
  <2> QED
    BY <2>1, <2>2, <2>3, <2>4 DEF Inv
<1> QED
  BY <1>1, <1>2, PTL DEF Spec

\* Whatever fails and is cut off, a handler that sleeps has no batch and no
\* transaction left, and the tables hold what their schema allows.
THEOREM TypesCorrect == Spec => []TypeOK
<1>1. Inv => TypeOK
  BY DEF Inv
<1> QED
  BY <1>1, InvHolds, PTL

\* get_latest_taf never answers with a mixture of two TAFs' periods, or with none.
THEOREM AnswersWhole == Spec => []ReadsWhole
<1>1. Inv => ReadsWhole
  BY DEF Inv
<1> QED
  BY <1>1, InvHolds, PTL

\* A client of get_latest_taf never goes back to an older TAF.
THEOREM AnswersForward == Spec => []ReadsForward
<1>1. Inv => ReadsForward
  BY DEF Inv, ReaderBehind, ReadsForward
<1> QED
  BY <1>1, InvHolds, PTL

\* The observation handler inserts nothing whose station is not in the table.
THEOREM StationsBeforeReports == Spec => []LocatedFirst
<1>1. Inv => LocatedFirst
  BY DEF Inv, StationsFirst, LocatedFirst
<1> QED
  BY <1>1, InvHolds, PTL
--------------------------------------------------------------------------------
(***************************************************************************)
(* The refinement: storing a TAF, asking and answering are the steps of     *)
(* ServedTafs, everything else is a stutter.                                *)
(***************************************************************************)
LEMMA StoredTypes ==
    ASSUME Inv, NEW s \in Stations
    PROVE  Stored(s) \subseteq 0..published[Taf][s]
<1>1. published[Taf][s] \in Nat
  <2>1. published[Taf][s] \in Reports \cup {0}
    BY DEF Inv, TypeOK, Feeds
  <2> QED
    BY <2>1, ReportsPositive
<1>2. ASSUME NEW i \in Issues PROVE heads[s][i] \in 0..published[Taf][s]
  <2>1. heads[s][i] \in Reports \cup {0} /\ heads[s][i] <= published[Taf][s]
    BY DEF Inv, TypeOK, HeadsShown
  <2>2. heads[s][i] \in Nat
    BY <2>1, ReportsPositive
  <2> QED
    BY <1>1, <2>1, <2>2
<1> QED
  BY <1>1, <1>2 DEF Stored

LEMMA NewestStored ==
    ASSUME Inv, NEW s \in Asked
    PROVE  Newest[s] \in Stored(s) /\ \A w \in Stored(s) : w <= Newest[s]
<1>1. s \in Stations
  BY BoundAssumption
<1>2. published[Taf][s] \in Nat
  <2>1. published[Taf][s] \in Reports \cup {0}
    BY <1>1 DEF Inv, TypeOK, Feeds
  <2> QED
    BY <2>1, ReportsPositive
<1>3. Stored(s) \in SUBSET (0..published[Taf][s]) /\ Stored(s) # {}
  BY <1>1, StoredTypes DEF Stored
<1>4. Max(Stored(s)) \in Stored(s) /\ \A u \in Stored(s) : u <= Max(Stored(s))
  BY <1>2, <1>3, GreatestOf
<1>5. Newest[s] = CHOOSE v \in Stored(s) : \A w \in Stored(s) : w <= v
  BY DEF Newest
<1> QED
  BY <1>4, <1>5, Zenon

\* The newest TAF is the one that LatestIsNewest finds.
LEMMA NewestIsHead ==
    ASSUME Inv, NEW s \in Asked, NEW i \in Latest(s)
    PROVE  Newest[s] = heads[s][i]
<1>1. s \in Stations /\ i \in Issues
  BY BoundAssumption DEF Latest
<1>2. heads[s][i] \in Stored(s)
  BY <1>1 DEF Stored
<1>3. \A w \in Stored(s) : w \in Nat
  BY <1>1, StoredTypes
<1>4. \A w \in Stored(s) : w <= heads[s][i]
  <2>1. \A j \in Issues : heads[s][j] <= heads[s][i]
    BY <1>1, LatestIsNewest
  <2>2. heads[s][i] \in Nat
    BY <1>2, <1>3
  <2> QED
    BY <2>1, <2>2 DEF Stored
<1>5. Newest[s] \in Stored(s) /\ heads[s][i] <= Newest[s]
  BY <1>2, NewestStored
<1> QED
  BY <1>2, <1>3, <1>4, <1>5

LEMMA NewestSame ==
    ASSUME NEW s \in Asked, heads'[s] = heads[s]
    PROVE  Newest'[s] = Newest[s]
<1>1. Stored(s)' = Stored(s)
  BY DEF Stored
<1> QED
  BY <1>1 DEF Newest

\* A commit makes the report in hand the newest of its station.
LEMMA CommitStores ==
    ASSUME Inv, Commit
    PROVE  [Tafs!Next]_(Tafs!vars)
<1>1. PICK p \in batch[Taf] :
           /\ p \in Posted /\ IssueOf[p[2]] \in Issues
           /\ heads' = [heads EXCEPT ![p[1]][IssueOf[p[2]]] = p[2]]
           /\ UNCHANGED <<reader, seen>>
  BY CommitWrites
<1> DEFINE s == p[1]
<1> DEFINE v == p[2]
<1> DEFINE i == IssueOf[v]
<1>2. s \in Stations /\ v \in Reports /\ v \in Nat /\ i \in Issues
  BY <1>1, ReportsPositive DEF Posted
<1>3. heads' = [heads EXCEPT ![s][i] = v] /\ reader' = reader
  BY <1>1
<1>4. \A j \in Issues : heads[s][j] <= v
  BY <1>1 DEF Inv, HeadsBehind
<1> HIDE DEF s, v, i
<1>5. heads \in [Stations -> [Issues -> Reports \cup {0}]]
  BY DEF Inv, TypeOK
<1>6. \A t \in Stations : (t # s) => (heads'[t] = heads[t])
  BY <1>2, <1>3, <1>5
<1>7. heads'[s][i] = v /\ \A j \in Issues : heads'[s][j] \in {heads[s][j], v}
  BY <1>2, <1>3, <1>5
<1>8. (reader # None) => (reader.station \in Asked /\ reader.issue \in Issues)
  <2>1. (reader # None) => (reader \in Readings)
    BY DEF Inv, TypeOK
  <2> QED
    BY <2>1 DEF Readings
<1>9. CASE s \notin Asked
  <2>1. \A t \in Asked : Newest'[t] = Newest[t]
    BY <1>6, <1>9, NewestSame, BoundAssumption
  <2>2. Newest' = Newest
    BY <2>1 DEF Newest
  <2>3. (reader # None) => (heads'[reader.station] = heads[reader.station])
    BY <1>6, <1>8, <1>9, BoundAssumption
  <2>4. Request' = Request
    BY <1>3, <2>3 DEF Request
  <2> QED
    BY <2>2, <2>4 DEF Tafs!vars
<1>10. CASE s \in Asked
  <2>1. Newest[s] <= v
    <3>1. Newest[s] \in Stored(s)
      BY <1>10, NewestStored
    <3> QED
      BY <1>2, <1>4, <3>1 DEF Stored
  <2>2. Newest'[s] = v
    <3>1. v \in Stored(s)' /\ \A w \in Stored(s)' : w \in Nat /\ w <= v
      <4>1. ASSUME NEW j \in Issues PROVE heads'[s][j] \in Nat /\ heads'[s][j] <= v
        <5>1. heads[s][j] \in Reports \cup {0}
          BY <1>2, <1>5
        <5>2. heads[s][j] \in Nat /\ heads[s][j] <= v
          BY <1>4, <5>1, ReportsPositive
        <5>3. heads'[s][j] = heads[s][j] \/ heads'[s][j] = v
          BY <1>7
        <5> QED
          BY <1>2, <5>2, <5>3
      <4> QED
        BY <1>2, <1>7, <4>1 DEF Stored
    <3>2. \A w \in Stored(s)' : (\A u \in Stored(s)' : u <= w) => (w = v)
      BY <1>2, <3>1
    <3>3. Newest'[s] = CHOOSE w \in Stored(s)' : \A u \in Stored(s)' : u <= w
      BY <1>10 DEF Newest
    <3> QED
      BY <3>1, <3>2, <3>3, Zenon
  <2>3. Newest' = [Newest EXCEPT ![s] = v]
    <3>1. \A t \in Asked : (t # s) => (Newest'[t] = Newest[t])
      BY <1>6, NewestSame, BoundAssumption
    <3>2. /\ DOMAIN Newest = Asked
          /\ Newest' = [t \in Asked |-> Newest'[t]]
      BY DEF Newest
    <3>3. [Newest EXCEPT ![s] = v] = [t \in Asked |-> IF t = s THEN v ELSE Newest[t]]
      BY <3>2, Zenon
    <3>4. \A t \in Asked : Newest'[t] = IF t = s THEN v ELSE Newest[t]
      BY <2>2, <3>1
    <3> QED
      BY <3>2, <3>3, <3>4, Zenon
  <2>4. \/ Request' = Request
        \/ /\ Request.step = "asked" /\ Request.station = s
           /\ Request' = [Request EXCEPT !.taken = v]
    <3>1. CASE reader # None /\ reader.step = "head" /\ reader.station = s /\ reader.issue = i
      <4>1. Request = [step |-> "asked", station |-> s, taken |-> heads[s][i]]
        BY <3>1 DEF Request
      <4>2. Request' = [step |-> "asked", station |-> s, taken |-> v]
        BY <1>3, <1>7, <3>1 DEF Request
      <4> QED
        BY <4>1, <4>2
    <3>2. CASE ~(reader # None /\ reader.step = "head" /\ reader.station = s /\ reader.issue = i)
      <4>1. (reader # None /\ reader.step = "head") =>
                heads'[reader.station][reader.issue] = heads[reader.station][reader.issue]
        BY <1>2, <1>3, <1>5, <1>8, <3>2, BoundAssumption
      <4> QED
        BY <1>3, <4>1 DEF Request
    <3> QED
      BY <3>1, <3>2
  <2>5. Tafs!Store(s)
    BY <1>2, <2>1, <2>3, <2>4 DEF Tafs!Store
  <2> QED
    BY <1>10, <2>5 DEF Tafs!Next
<1> QED
  BY <1>9, <1>10

LEMMA TafsInit == Init => Tafs!Init
<1> SUFFICES ASSUME Init PROVE Tafs!Init
  OBVIOUS
<1>1. \A s \in Asked : Stored(s) \subseteq {0} /\ 0 \in Stored(s)
  BY BoundAssumption DEF Init, Stored
<1>2. \A s \in Asked : Newest[s] = 0
  <2>1. ASSUME NEW s \in Asked PROVE Newest[s] = 0
    <3>1. Stored(s) = {0}
      BY <1>1
    <3>2. Newest[s] = CHOOSE v \in {0} : \A w \in {0} : w <= v
      BY <3>1 DEF Newest
    <3> QED
      BY <3>2
  <2> QED
    BY <2>1
<1>3. Newest = [s \in Asked |-> Newest[s]]
  BY DEF Newest
<1>4. Newest = [s \in Asked |-> 0]
  BY <1>2, <1>3, Zenon
<1>5. Request = [step |-> "none"]
  BY DEF Init, Request
<1> QED
  BY <1>4, <1>5 DEF Tafs!Init

LEMMA TafsAsk ==
    ASSUME Inv, NEW s \in Asked, ReadHead(s)
    PROVE  Tafs!Ask(s)
<1>1. PICK i \in Latest(s) :
        reader' = [station |-> s, issue |-> i, head |-> heads[s][i], rows |-> {},
                   step |-> "head"]
  BY DEF ReadHead
<1>2. heads' = heads /\ s \in Stations /\ i \in Issues /\ heads[s][i] # 0
  BY BoundAssumption DEF ReadHead, Latest, tables
<1>3. Newest[s] = heads[s][i]
  BY NewestIsHead
<1>4. Newest' = Newest
  BY <1>2 DEF Newest, Stored
<1>5. reader' # None
  <2>1. heads[s][i] \in Reports
    BY <1>2 DEF Inv, TypeOK
  <2>2. reader' \in Readings
    BY <1>1, <1>2, <2>1 DEF Readings
  <2> QED
    BY <2>2, NoneAssumption
<1>6. Request' = [step |-> "asked", station |-> s, taken |-> heads[s][i]]
  BY <1>1, <1>2, <1>5 DEF Request
<1>7. Request.step # "asked"
  BY DEF ReadHead, Request
<1> QED
  BY <1>2, <1>3, <1>4, <1>6, <1>7 DEF Tafs!Ask

LEMMA TafsGive ==
    ASSUME Inv, ReadPeriods
    PROVE  Tafs!Give
<1>1. reader # None /\ reader.step = "head" /\ reader \in Readings
  BY DEF ReadPeriods, Inv, TypeOK
<1> DEFINE v == heads[reader.station][reader.issue]
<1>2. /\ reader.station \in Stations /\ reader.station \in Asked
      /\ reader.issue \in Issues /\ reader.head \in Reports
  BY <1>1, BoundAssumption DEF Readings
<1>3. v # 0
  <2>1. reader.head \in Nat /\ reader.head # 0
    BY <1>2, ReportsPositive
  <2>2. reader.head <= v
    BY <1>1 DEF Inv, ReaderBehind
  <2> QED
    BY <2>1, <2>2
<1>4. periods[reader.station][reader.issue] = {v} \X (1..NumPeriods)
  BY <1>2, <1>3 DEF Inv, PeriodsMatch, PeriodsOf
<1>5. /\ reader' = [reader EXCEPT !.rows = periods[reader.station][reader.issue],
                                  !.step = "answered"]
      /\ heads' = heads
  BY DEF ReadPeriods, tables
<1>6. /\ reader'.station = reader.station /\ reader'.step = "answered"
      /\ reader'.rows = {v} \X (1..NumPeriods)
  BY <1>1, <1>4, <1>5 DEF Readings
<1>7. reader' # None
  <2> DEFINE rows == periods[reader.station][reader.issue]
  <2>0. rows \in SUBSET PeriodRows
    BY <1>2 DEF Inv, TypeOK
  <2> HIDE DEF rows
  <2>1. [reader EXCEPT !.rows = rows, !.step = "answered"] \in Readings
    BY <1>1, <2>0 DEF Readings
  <2>2. reader' \in Readings
    BY <1>5, <2>1 DEF rows
  <2> QED
    BY <2>2, NoneAssumption
<1>8. Request = [step |-> "asked", station |-> reader.station, taken |-> v]
  BY <1>1 DEF Request
<1>9. Request' = [step |-> "answered", station |-> reader.station,
                  rows |-> {v} \X (1..NumPeriods)]
  BY <1>6, <1>7 DEF Request
<1>10. Newest' = Newest
  BY <1>5 DEF Newest, Stored
<1> HIDE DEF v
<1> QED
  BY <1>8, <1>9, <1>10 DEF Tafs!Give

LEMMA TafsNext == Inv /\ [Next]_vars => [Tafs!Next]_(Tafs!vars)
<1> SUFFICES ASSUME Inv, [Next]_vars PROVE [Tafs!Next]_(Tafs!vars)
  OBVIOUS
<1>1. CASE Commit
  BY <1>1, CommitStores
<1>2. ASSUME NEW s \in Asked, ReadHead(s) PROVE Tafs!Next
  BY <1>2, TafsAsk DEF Tafs!Next
<1>3. CASE ReadPeriods
  BY <1>3, TafsGive DEF Tafs!Next
<1>4. CASE UNCHANGED <<heads, reading>>
  <2>1. heads' = heads /\ reader' = reader
    BY <1>4 DEF reading
  <2> QED
    BY <2>1 DEF Tafs!vars, Newest, Stored, Request
<1> QED
  BY <1>1, <1>2, <1>3, <1>4, WritesHeads, WritesReading

\* The periods that get_latest_taf answers with are those of the newest TAF that
\* was stored at one instant between its two queries, for any stations that are
\* asked for and whatever fails.
THEOREM ImplementsTafs == Spec => ServesNewestTaf
<1>1. Init => Tafs!Init
  BY TafsInit
<1>2. Inv /\ [Next]_vars => [Tafs!Next]_(Tafs!vars)
  BY TafsNext
<1> QED
  BY <1>1, <1>2, InvHolds, PTL DEF Spec, ServesNewestTaf, Tafs!Spec
=============================================================================
