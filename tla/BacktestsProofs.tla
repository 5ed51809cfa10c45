-------------------------- MODULE BacktestsProofs ---------------------------
(***************************************************************************)
(* What a finished download returns, and what the two simulations make of  *)
(* it, proved for chunks and histories of any length, any number of coins, *)
(* any thresholds and any rates.                                           *)
(***************************************************************************)
EXTENDS Backtests, SumLemmas

-----------------------------------------------------------------------------
(* The download.                                                           *)

(* No file is from the future, and a window of funding rates is over when  *)
(* it is asked for.                                                        *)
FileAsAsked(f) == f.at <= now /\ (f.loader = "funding" => f.to <= f.at)

OneRowPerBar == \A r, s \in got : r.bar = s.bar => r = s

(* Each row was read from a file that is still there.                      *)
RowFromFile(r) ==
  \E f \in files : f.loader = loader /\ Covers(f, r.bar) /\ f.at = r.at

HasRow(b) == \E r \in got : r.bar = b

(* The bars before the next window have their rows, or none was known when *)
(* their file was written.                                                 *)
Obtained(b) == HasRow(b) \/ (loader = "candles" /\ EarlyFile(b))

Loaded ==
  /\ OneRowPerBar
  /\ \A r \in got : RowFromFile(r)
  /\ \A b \in Int : till - Span <= b /\ b < till /\ (step = "loading" => b < cursor) => Obtained(b)
  /\ step = "done" /\ loader = "candles" => \A r \in got : r.bar \in History

CacheInv ==
  /\ CacheTypeOK
  /\ till <= now
  /\ \A f \in files : FileAsAsked(f)
  /\ step \in {"loading", "done"} => Loaded

-----------------------------------------------------------------------------
LEMMA Apart ==
  ASSUME NEW x \in Int, NEW c \in Int, c <= x
  PROVE  \A b \in Int : ~(x <= b /\ b < c)
  OBVIOUS

(* Windows begin at or before the history they are the first of.           *)
LEMMA FirstWindowBegins ==
  ASSUME CacheTypeOK, NEW end \in Int
  PROVE  FirstWindow(end) \in Int /\ FirstWindow(end) <= end - Span
<1>1. end - Span \in Int /\ Chunk \in Nat /\ Chunk > 0
  BY CacheAssumption
<1>2. \A x \in Int : x % Chunk \in Int /\ 0 <= x % Chunk
  BY <1>1
<1> QED
  BY <1>1, <1>2 DEF FirstWindow

(* What Merge makes of the rows, when the file is one for the next window. *)
LEMMA MergeLoads ==
  ASSUME CacheTypeOK, step = "loading", Loaded, till <= now,
         cursor < till, NEW f \in File, FileAsAsked(f), Names(f), Merge(f),
         f \in files', files \subseteq files', files' \subseteq File,
         cursor' = WindowEnd,
         UNCHANGED <<now, step, loader, till>>
  PROVE  got' \subseteq Row /\ cursor' \in Int /\ Loaded'
<1> USE DEF CacheTypeOK, File, Row
<1>1. Rows(f) \subseteq Row /\ \A r \in Rows(f) : r.at = f.at /\ Covers(f, r.bar)
  BY DEF Rows
<1>2. got' \subseteq Row /\ got \subseteq got'
  BY <1>1 DEF Merge
<1>3. cursor' \in Int /\ cursor' = f.to
  BY CacheAssumption DEF WindowEnd, Names
<1>4. OneRowPerBar'
  BY <1>1 DEF Merge, OneRowPerBar, Loaded
<1>5. \A r \in got' : RowFromFile(r)'
  <2> SUFFICES ASSUME NEW r \in got' PROVE RowFromFile(r)'
    OBVIOUS
  <2>1. CASE r \in got
    BY <2>1 DEF Loaded, RowFromFile, Covers
  <2>2. CASE r \in Rows(f)
    BY <2>2, <1>1 DEF RowFromFile, Covers, Names
  <2> QED
    BY <2>1, <2>2 DEF Merge
<1>6. ASSUME NEW b \in Int, till - Span <= b, b < till, b < cursor'
      PROVE  Obtained(b)'
  <2>1. CASE b < cursor
    <3>1. Obtained(b)
      BY <2>1, <1>6 DEF Loaded
    <3> QED
      BY <3>1, <1>2 DEF Obtained, HasRow, EarlyFile, Covers
  <2>2. CASE cursor <= b
    <3>1. Covers(f, b)
      BY <2>2, <1>3, <1>6 DEF Covers, Names
    <3>2. CASE b <= f.at
      <4>1. [bar |-> b, at |-> f.at] \in Rows(f)
        BY <3>1, <3>2, <2>2, <1>3, <1>6 DEF Rows, Names
      <4>2. HasRow(b)'
        BY <4>1 DEF Merge, HasRow
      <4> QED
        BY <4>2 DEF Obtained
    <3>3. CASE f.at < b
      <4>1. loader = "candles"
        BY <3>3, <1>3, <1>6 DEF FileAsAsked, Names, Loaders
      <4>2. EarlyFile(b)'
        BY <4>1, <3>1, <3>3 DEF EarlyFile, Names, Covers
      <4> QED
        BY <4>1, <4>2 DEF Obtained
    <3> QED
      BY <3>2, <3>3
  <2> QED
    BY <2>1, <2>2
<1> QED
  BY <1>2, <1>3, <1>4, <1>5, <1>6 DEF Loaded

-----------------------------------------------------------------------------
LEMMA CacheStep ==
  ASSUME CacheInv, [CacheNext]_cacheVars
  PROVE  CacheInv'
<1> USE DEF CacheTypeOK, File, Row
<1>0. Span \in Nat /\ Span > 0 /\ Chunk \in Nat /\ Chunk > 0
  BY CacheAssumption
<1>1. CASE Start
  <2>1. till' \in Int /\ cursor' \in Int /\ cursor' <= till' - Span
    BY <1>1, FirstWindowBegins DEF Start, CacheInv
  <2>2. got' = {} /\ step' = "loading"
    BY <1>1 DEF Start
  <2>3. till' - Span \in Int
    BY <1>0, <2>1
  <2>4. Loaded'
    BY <2>1, <2>2, <2>3, Apart DEF Loaded, OneRowPerBar
  <2> QED
    BY <1>1, <2>1, <2>2, <2>4 DEF Start, CacheInv, FileAsAsked
<1>2. CASE ReadFile
  <2>1. PICK f \in files : Names(f) /\ Merge(f)
    BY <1>2 DEF ReadFile
  <2>2. got' \subseteq Row /\ cursor' \in Int /\ Loaded'
    BY <1>2, <2>1, MergeLoads DEF ReadFile, CacheInv
  <2> QED
    BY <1>2, <2>2 DEF ReadFile, CacheInv, FileAsAsked
<1>3. CASE ReadRaises
  BY <1>3 DEF ReadRaises, CacheInv, FileAsAsked
<1>4. CASE Fetch
  <2>1. Window(TRUE) \in File /\ FileAsAsked(Window(TRUE)) /\ Names(Window(TRUE))
    BY <1>0, <1>4 DEF Fetch, CacheInv, Window, WindowEnd, FileAsAsked, Names
  <2>2. files' = files \cup {Window(TRUE)} /\ Merge(Window(TRUE))
    BY <1>4 DEF Fetch
  <2>3. got' \subseteq Row /\ cursor' \in Int /\ Loaded'
    BY <1>4, <2>1, <2>2, MergeLoads DEF Fetch, CacheInv
  <2> QED
    BY <1>4, <2>1, <2>2, <2>3 DEF Fetch, CacheInv, FileAsAsked
<1>5. CASE KilledWriting
  <2>1. Window(FALSE) \in File /\ FileAsAsked(Window(FALSE))
    BY <1>0, <1>5 DEF KilledWriting, CacheInv, Window, WindowEnd, FileAsAsked
  <2> QED
    BY <1>5, <2>1 DEF KilledWriting, CacheInv, FileAsAsked
<1>6. CASE Fail
  BY <1>6 DEF Fail, CacheInv, FileAsAsked
<1>7. CASE Finish
  <2>1. got' \subseteq got
    BY <1>7 DEF Finish
  <2>2. OneRowPerBar' /\ \A r \in got' : RowFromFile(r)'
    BY <1>7, <2>1 DEF Finish, CacheInv, Loaded, OneRowPerBar, RowFromFile, Covers
  <2>3. ASSUME NEW b \in Int, till - Span <= b, b < till
        PROVE  Obtained(b)'
    <3>1. Obtained(b)
      BY <1>7, <2>3 DEF Finish, CacheInv, Loaded
    <3>2. CASE HasRow(b)
      BY <1>7, <2>3, <3>2 DEF Finish, Obtained, HasRow
    <3>3. CASE EarlyFile(b) /\ loader = "candles"
      BY <1>7, <3>3 DEF Finish, Obtained, EarlyFile, Covers
    <3> QED
      BY <3>1, <3>2, <3>3 DEF Obtained
  <2>4. loader = "candles" => \A r \in got' : r.bar \in till - Span .. till - 1
    BY <1>7 DEF Finish, CacheInv
  <2>5. Loaded'
    BY <1>7, <2>2, <2>3, <2>4 DEF Finish, Loaded, History
  <2> QED
    BY <1>7, <2>1, <2>5 DEF Finish, CacheInv, FileAsAsked
<1>8. CASE TimePasses
  BY <1>8
  DEF TimePasses, script, CacheInv, FileAsAsked, Loaded, OneRowPerBar, RowFromFile, Covers,
      Obtained, HasRow, EarlyFile, History
<1>9. CASE UNCHANGED cacheVars
  BY <1>9
  DEF cacheVars, script, CacheInv, FileAsAsked, Loaded, OneRowPerBar, RowFromFile, Covers,
      Obtained, HasRow, EarlyFile, History
<1> QED
  BY <1>1, <1>2, <1>3, <1>4, <1>5, <1>6, <1>7, <1>8, <1>9 DEF CacheNext

(* What a finished load returns is explained by the files.                 *)
LEMMA LoadExplained == CacheInv => HistoryExplained
<1> SUFFICES ASSUME CacheInv, step = "done" PROVE HistoryExplained
  BY DEF HistoryExplained
<1> USE DEF CacheInv, CacheTypeOK, File, Row
<1>1. ASSUME NEW b \in History
      PROVE  FinalRow(b) \/ (loader = "candles" /\ EarlyFile(b))
  <2>1. b \in Int /\ Obtained(b)
    BY <1>1, CacheAssumption DEF History, Loaded
  <2>2. ASSUME NEW r \in got, r.bar = b, loader = "candles", r.at <= b
        PROVE  EarlyFile(b)
    BY <2>2 DEF Loaded, RowFromFile, EarlyFile
  <2> QED
    BY <2>1, <2>2 DEF Obtained, HasRow, FinalRow, Loaders
<1> QED
  BY <1>1 DEF HistoryExplained, Loaded, OneRowPerBar

(* The simulators leave the files and the rows alone.                      *)
LEMMA CacheKept == CacheInv /\ [Next]_vars => CacheInv'
<1> SUFFICES ASSUME CacheInv, [Next]_vars PROVE CacheInv'
  OBVIOUS
<1>1. [CacheNext]_cacheVars
  BY DEF Next, Load, RunCandles, RunFunding, vars
<1> QED BY <1>1, CacheStep

LEMMA CacheStart == Init => CacheInv
  BY CacheAssumption DEF Init, CacheInit, CacheInv, CacheTypeOK

(* Every finished download is explained by the files, run after run, while *)
(* the simulators walk over what earlier ones returned.                    *)
THEOREM DownloadsExplained == Spec => []HistoryExplained
  BY CacheStart, CacheKept, LoadExplained, PTL DEF Spec

-----------------------------------------------------------------------------
(* Sorting.                                                                *)

(* Every finite set of integers that has one has a greatest one.           *)
LEMMA GreatestInt ==
  ASSUME NEW T \in SUBSET Int, IsFiniteSet(T), T # {}
  PROVE  \E m \in T : \A x \in T : x <= m
  <1> DEFINE N == {n \in Nat : \A U \in SUBSET Int : IsFiniteSet(U) /\ Cardinality(U) = n + 1 =>
                     \E m \in U : \A x \in U : x <= m}
  <1>1. 0 \in N
    <2> SUFFICES ASSUME NEW U \in SUBSET Int, IsFiniteSet(U), Cardinality(U) = 0 + 1
                 PROVE  \E m \in U : \A x \in U : x <= m
      OBVIOUS
    <2>1. PICK m : U = {m}
      BY FS_Singleton
    <2> QED BY <2>1
  <1>2. ASSUME NEW n \in Nat, n \in N PROVE n + 1 \in N
    <2> SUFFICES ASSUME NEW U \in SUBSET Int, IsFiniteSet(U), Cardinality(U) = (n + 1) + 1
                 PROVE  \E m \in U : \A x \in U : x <= m
      OBVIOUS
    <2>1. U # {}
      BY FS_EmptySet
    <2>2. PICK e \in U : TRUE
      BY <2>1
    <2>3. IsFiniteSet(U \ {e}) /\ Cardinality(U \ {e}) = n + 1
      <3>1. n + 1 \in Nat
        OBVIOUS
      <3> QED BY <2>2, <3>1, FS_RemoveElement, OneLess
    <2>4. PICK m \in U \ {e} : \A x \in U \ {e} : x <= m
      BY <1>2, <2>3
    <2>5. CASE e <= m
      BY <2>4, <2>5
    <2>6. CASE ~ (e <= m)
      <3>1. e \in Int /\ m \in Int /\ \A x \in U : x \in Int
        BY <2>2, <2>4
      <3>2. \A x \in U : x <= e
        BY <2>4, <2>6, <3>1
      <3> QED BY <2>2, <3>2
    <2> QED BY <2>5, <2>6
  <1>3. Nat \subseteq N
    <2> HIDE DEF N
    <2> QED BY <1>1, <1>2, NatSetInduction
  <1>4. Cardinality(T) \in Nat /\ Cardinality(T) # 0
    BY FS_CardinalityType, FS_EmptySet
  <1>5. Cardinality(T) - 1 \in Nat /\ Cardinality(T) = (Cardinality(T) - 1) + 1
    BY <1>4
  <1> QED BY <1>3, <1>5

Increasing(s) == \A i, j \in DOMAIN s : i < j => s[i] < s[j]

(* Every finite set of integers can be sorted: the greatest comes last.    *)
LEMMA SortExists ==
  ASSUME NEW T \in SUBSET Int, IsFiniteSet(T)
  PROVE  \E s \in [1..Cardinality(T) -> T] : Increasing(s)
  <1> DEFINE N == {n \in Nat : \A U \in SUBSET Int : IsFiniteSet(U) /\ Cardinality(U) = n =>
                     \E s \in [1..n -> U] : Increasing(s)}
  <1>1. 0 \in N
    <2> SUFFICES ASSUME NEW U \in SUBSET Int PROVE \E s \in [1..0 -> U] : Increasing(s)
      OBVIOUS
    <2> DEFINE s == [i \in 1..0 |-> 0]
    <2>1. s \in [1..0 -> U] /\ Increasing(s)
      BY DEF Increasing
    <2> QED BY <2>1
  <1>2. ASSUME NEW n \in Nat, n \in N PROVE n + 1 \in N
    <2> SUFFICES ASSUME NEW U \in SUBSET Int, IsFiniteSet(U), Cardinality(U) = n + 1
                 PROVE  \E s \in [1..(n + 1) -> U] : Increasing(s)
      OBVIOUS
    <2>1. U # {}
      BY FS_EmptySet
    <2>2. PICK m \in U : \A x \in U : x <= m
      BY <2>1, GreatestInt
    <2>3. IsFiniteSet(U \ {m}) /\ Cardinality(U \ {m}) = n
      BY <2>2, FS_RemoveElement, OneLess
    <2>4. PICK s \in [1..n -> U \ {m}] : Increasing(s)
      BY <1>2, <2>3
    <2> DEFINE r == [i \in 1..(n + 1) |-> IF i = n + 1 THEN m ELSE s[i]]
    <2>5. \A i \in 1..n : s[i] \in U /\ s[i] < m
      <3> TAKE i \in 1..n
      <3>1. s[i] \in U /\ s[i] # m
        BY <2>4
      <3>2. s[i] \in Int /\ m \in Int /\ s[i] <= m
        BY <2>2, <3>1
      <3> QED BY <3>1, <3>2
    <2>6. r \in [1..(n + 1) -> U]
      BY <2>2, <2>5
    <2>7. ASSUME NEW i \in 1..(n + 1), NEW j \in 1..(n + 1), i < j PROVE r[i] < r[j]
      <3>1. i \in 1..n /\ i # n + 1
        BY <2>7
      <3>2. CASE j = n + 1
        BY <2>5, <3>1, <3>2
      <3>3. CASE j # n + 1
        <4>1. j \in 1..n
          BY <3>3
        <4>2. s[i] < s[j]
          BY <2>4, <2>7, <3>1, <4>1 DEF Increasing
        <4> QED BY <3>1, <3>3, <4>2
      <3> QED BY <3>2, <3>3
    <2>8. Increasing(r)
      BY <2>7 DEF Increasing
    <2> HIDE DEF r
    <2> QED BY <2>6, <2>8
  <1>3. Nat \subseteq N
    <2> HIDE DEF N
    <2> QED BY <1>1, <1>2, NatSetInduction
  <1> QED BY <1>3, FS_CardinalityType

(* A list of times in order.                                               *)
Ordered(s) ==
  /\ s \in Seq(Int)
  /\ \A i, j \in 1..Len(s) : i < j => s[i] < s[j]

(* Sorted lists all the times, in order.                                   *)
LEMMA SortedIs ==
  ASSUME NEW T \in SUBSET Int, IsFiniteSet(T)
  PROVE  /\ Ordered(Sorted(T))
         /\ \A k \in 1..Len(Sorted(T)) : Sorted(T)[k] \in T
         /\ \A x \in T : \E k \in 1..Len(Sorted(T)) : Sorted(T)[k] = x
  <1> DEFINE n == Cardinality(T)
             s == Sorted(T)
  <1>1. n \in Nat
    BY FS_CardinalityType
  <1>2. s \in [1..n -> T] /\ Increasing(s)
    BY SortExists DEF Sorted, Increasing
  <1>3. IsFiniteSet(1..n) /\ Cardinality(1..n) = n
    <2>1. IsFiniteSet(1..n) /\ Cardinality(1..n) = IF 1 > n THEN 0 ELSE n - 1 + 1
      BY <1>1, FS_Interval
    <2> HIDE DEF n
    <2> QED BY <1>1, <2>1
  <1> HIDE DEF n, s
  <1>4. s \in Seq(Int) /\ Len(s) = n
    <2>1. s \in [1..n -> Int]
      BY <1>2
    <2>2. s \in Seq(Int)
      BY <1>1, <2>1
    <2> QED BY <1>1, <2>1, <2>2
  <1>5. \A i, j \in 1..n : i # j => s[i] # s[j]
    <2> TAKE i, j \in 1..n
    <2>1. s[i] \in Int /\ s[j] \in Int
      BY <1>2
    <2>2. (i < j => s[i] < s[j]) /\ (j < i => s[j] < s[i])
      BY <1>2 DEF Increasing
    <2> QED BY <1>1, <2>1, <2>2
  <1>6. s \in Injection(1..n, T)
    BY <1>2, <1>5 DEF Injection, IsInjective
  <1>7. s \in Surjection(1..n, T)
    BY <1>3, <1>6, FS_Injection DEF n
  <1>8. \A x \in T : \E k \in 1..n : s[k] = x
    BY <1>7 DEF Surjection
  <1>9. Ordered(s)
    BY <1>2, <1>4 DEF Ordered, Increasing
  <1> QED BY <1>2, <1>4, <1>8, <1>9 DEF s

(* Where a list in order spans more time than rows, a time is missing.     *)
LEMMA GapBetween ==
  ASSUME NEW s, Ordered(s), NEW i \in 1..Len(s), NEW j \in 1..Len(s), i < j,
         s[j] - s[i] > j - i
  PROVE  \E b \in (s[i] + 1)..(s[j] - 1) : \A k \in 1..Len(s) : s[k] # b
  <1> SUFFICES ASSUME \A b \in (s[i] + 1)..(s[j] - 1) : \E k \in 1..Len(s) : s[k] = b
               PROVE  FALSE
    OBVIOUS
  <1>0. Len(s) \in Nat /\ \A k \in 1..Len(s) : s[k] \in Int
    BY DEF Ordered
  <1> DEFINE N == {d \in Nat : i + d <= j => s[i + d] = s[i] + d}
  <1>1. 0 \in N
    BY <1>0
  <1>2. ASSUME NEW d \in Nat, d \in N PROVE d + 1 \in N
    <2> SUFFICES ASSUME i + (d + 1) <= j PROVE s[i + (d + 1)] = s[i] + (d + 1)
      OBVIOUS
    <2> DEFINE p == i + d
               q == i + (d + 1)
    <2>1. p \in 1..Len(s) /\ q \in 1..Len(s) /\ p < q /\ p <= j /\ q <= j /\ q = p + 1
      BY <1>0
    <2>2. s[p] = s[i] + d
      BY <1>2, <2>1
    <2> HIDE DEF p, q
    <2>3. s[p] < s[q] /\ s[q] <= s[j]
      <3>1. q = j \/ s[q] < s[j]
        BY <2>1 DEF Ordered
      <3>2. s[p] < s[q]
        BY <2>1 DEF Ordered
      <3>3. s[q] \in Int /\ s[j] \in Int
        BY <1>0, <2>1
      <3> QED BY <3>1, <3>2, <3>3
    <2>4. s[p] \in Int /\ s[q] \in Int /\ s[i] \in Int /\ s[j] \in Int
      BY <1>0, <2>1
    <2>5. s[q] = s[p] + 1
      <3> SUFFICES ASSUME s[q] # s[p] + 1 PROVE FALSE
        OBVIOUS
      <3>1. s[p] + 1 \in (s[i] + 1)..(s[j] - 1) /\ s[p] + 1 < s[q]
        BY <2>2, <2>3, <2>4
      <3>2. PICK k \in 1..Len(s) : s[k] = s[p] + 1
        BY <3>1
      <3>3. CASE k <= p
        <4>1. k = p \/ s[k] < s[p]
          BY <1>0, <2>1, <3>3 DEF Ordered
        <4> QED BY <2>4, <3>2, <4>1
      <3>4. CASE k >= q
        <4>1. k = q \/ s[q] < s[k]
          BY <1>0, <2>1, <3>4 DEF Ordered
        <4>2. s[k] \in Int
          BY <1>0
        <4> QED BY <2>4, <3>1, <3>2, <4>1, <4>2
      <3>5. k \in Int /\ p \in Int /\ q = p + 1
        BY <2>1
      <3> QED BY <3>3, <3>4, <3>5
    <2>6. s[q] = s[i] + (d + 1)
      BY <2>2, <2>4, <2>5
    <2> QED BY <2>6 DEF q
  <1>3. Nat \subseteq N
    <2> HIDE DEF N
    <2> QED BY <1>1, <1>2, NatSetInduction
  <1>4. j - i \in Nat /\ i + (j - i) = j
    BY <1>0
  <1>5. s[j] = s[i] + (j - i)
    BY <1>3, <1>4
  <1> QED BY <1>0, <1>4, <1>5

-----------------------------------------------------------------------------
(* The walk over the candles.                                              *)

(* A trade's ends are rows of its coin, and those of the present walk lie  *)
(* before the present bar and before the open position.                    *)
Positioned(r) ==
  \E i, j \in 1..Len(candles[r.coin]) :
    /\ i < j /\ r.entry = candles[r.coin][i] /\ r.exit = candles[r.coin][j]
    /\ r.held = j - i /\ r.held <= TimeStop + 1
    /\ r.coin = coin => j <= t /\ (Holding => j <= position.entry)

WalkTypes ==
  /\ \A c \in Coins : Ordered(candles[c])
  /\ todo \subseteq Coins /\ coin \in Coins \cup {NoCoin} /\ coin \notin todo
  /\ t \in Nat
  /\ coin # NoCoin => t <= Len(candles[coin])
  /\ position \in [side : {"none", "long", "short"}, entry : Nat]
  /\ Holding => coin # NoCoin /\ position.entry < t /\ Held <= TimeStop + 1

Tallies ==
  /\ IsFiniteSet(trades)
  /\ skipped \in Nat /\ signals \in Nat /\ dropped \in Nat

TradesOf == \A r \in trades : r.coin \in Coins \ todo /\ Positioned(r)

WalkInv == WalkTypes /\ Tallies /\ TradesOf /\ WalkAccounted

(* The thresholds, one by one.                                             *)
LEMMA Thresholds ==
  /\ TimeStop \in Nat /\ ZEntry \in Nat /\ ZTarget \in Nat /\ ZStop \in Nat
  /\ NoCoin \notin Coins /\ Scores \subseteq Int
  BY SimulatorAssumption

(* The walk and the live strategy agree on a position, bar by bar.         *)
LEMMA AgreesWithLive == WalkTypes => LeavesAsLive
  <1> SUFFICES ASSUME WalkTypes, AtBar, Holding, NEW i \in Indicators,
                      i.known, ~Disputed(position.side, i.z)
               PROVE  Reason(position.side, Held, i) # "none"
                        <=> LiveLeaves(position.side, Held, i.z)
    BY DEF LeavesAsLive
  <1> DEFINE side == position.side
             z == i.z
             v == Signed(side, z)
             stops == v <= -ZStop
             meets == v >= ZTarget
             late == Held > TimeStop
  <1>1. z \in Int /\ side \in {"long", "short"}
    BY Thresholds DEF Indicators, WalkTypes, Holding
  <1>2. Reason(side, Held, i) # "none" <=> stops \/ meets \/ late
    BY DEF Reason
  <1>3. LiveLeaves(side, Held, z) <=> (IF z < 0 THEN -z ELSE z) > ZStop \/ meets \/ late
    BY DEF LiveLeaves
  <1>4. v = z \/ v = -z
    BY DEF Signed
  <1>5. v # -ZStop /\ ~(ZStop < v /\ v < ZTarget)
    BY DEF Disputed
  <1> HIDE DEF v, late, side, z
  <1>6. (IF z < 0 THEN -z ELSE z) > ZStop <=> v < -ZStop \/ v > ZStop
    BY <1>1, <1>4, Thresholds
  <1>7. v \in Int
    BY <1>1, <1>4
  <1>8. v > ZStop => meets
    BY <1>5, <1>7, Thresholds
  <1>9. stops <=> v < -ZStop
    BY <1>5, <1>7, Thresholds
  <1> QED BY <1>2, <1>3, <1>6, <1>8, <1>9 DEF z, side

(* A simulation starts with nothing done.                                  *)
LEMMA WalkStarts ==
  ASSUME NEW frames, RunSimulation(frames), \A c \in Coins : Ordered(frames[c])
  PROVE  WalkInv'
  <1>1. /\ candles' = frames /\ todo' \subseteq Coins
        /\ coin' = NoCoin /\ t' = 0 /\ position' = Flat
        /\ trades' = {} /\ skipped' = 0 /\ signals' = 0 /\ dropped' = 0
    BY DEF RunSimulation
  <1>2. ~ Holding'
    BY <1>1 DEF Holding, Flat
  <1>3. WalkTypes'
    <2>1. NoCoin \notin todo'
      BY <1>1, Thresholds
    <2>2. Flat \in [side : {"none", "long", "short"}, entry : Nat]
      BY DEF Flat
    <2> QED BY <1>1, <1>2, <2>1, <2>2 DEF WalkTypes
  <1>4. Tallies' /\ TradesOf'
    BY <1>1, FS_EmptySet DEF Tallies, TradesOf
  <1>5. WalkAccounted'
    <2>1. Cardinality(trades') = 0
      BY <1>1, FS_EmptySet
    <2> QED BY <1>1, <1>2, <2>1 DEF WalkAccounted
  <1> QED BY <1>3, <1>4, <1>5 DEF WalkInv

(* A trade that was placed stays where it is as the walk goes on.          *)
LEMMA PositionedKept ==
  ASSUME NEW r, Positioned(r), candles' = candles, t \in Nat, t' \in Nat,
         \A c \in Coins : Ordered(candles[c]), r.coin \in Coins,
         r.coin = coin' =>
           /\ r.coin = coin /\ t <= t'
           /\ Holding' => (Holding /\ position' = position) \/ position'.entry = t
  PROVE  Positioned(r)'
  <1>1. PICK i, j \in 1..Len(candles[r.coin]) :
          /\ i < j /\ r.entry = candles[r.coin][i] /\ r.exit = candles[r.coin][j]
          /\ r.held = j - i /\ r.held <= TimeStop + 1
          /\ r.coin = coin => j <= t /\ (Holding => j <= position.entry)
    BY DEF Positioned
  <1>2. Len(candles[r.coin]) \in Nat
    BY DEF Ordered
  <1>3. ASSUME r.coin = coin' PROVE j <= t' /\ (Holding' => j <= position'.entry)
    <2>1. r.coin = coin /\ j <= t /\ j \in Int
      BY <1>1, <1>2, <1>3
    <2>2. j <= t'
      BY <1>3, <2>1
    <2> QED BY <1>1, <1>3, <2>1, <2>2
  <1> QED BY <1>1, <1>3 DEF Positioned

(* The open position, counted.                                             *)
OpenNow == IF Holding THEN 1 ELSE 0

(* A bar that closes no position.                                          *)
LEMMA BarWithoutTrade ==
  ASSUME WalkInv, AtBar, NextBar, trades' = trades, skipped' \in Nat, signals' \in Nat,
         \/ position' = position /\ (Holding => Held <= TimeStop)
         \/ /\ ~ Holding
            /\ \E side \in {"long", "short"} : position' = [side |-> side, entry |-> t],
         signals' = signals + (skipped' - skipped) + (OpenNow' - OpenNow)
  PROVE  WalkInv'
  <1>1. /\ t' = t + 1 /\ candles' = candles /\ todo' = todo /\ coin' = coin
        /\ dropped' = dropped
    BY DEF NextBar
  <1>2. /\ t \in Nat /\ coin \in Coins /\ coin # NoCoin /\ t < Len(candles[coin])
        /\ Len(candles[coin]) \in Nat /\ TimeStop \in Nat
    BY Thresholds DEF AtBar, WalkInv, WalkTypes, Ordered
  <1>3. /\ position' \in [side : {"none", "long", "short"}, entry : Nat]
        /\ Holding' => position'.entry < t' /\ Held' <= TimeStop + 1
        /\ Holding' => (Holding /\ position' = position) \/ position'.entry = t
    <2>1. CASE position' = position /\ (Holding => Held <= TimeStop)
      <3>1. position'.entry = position.entry /\ position.entry \in Nat /\ (Holding' <=> Holding)
        BY <2>1 DEF WalkInv, WalkTypes, Holding
      <3>2. ASSUME Holding PROVE position.entry < t + 1 /\ (t + 1) - position.entry <= TimeStop + 1
        <4>1. position.entry < t /\ t - position.entry <= TimeStop
          BY <2>1, <3>2 DEF WalkInv, WalkTypes, Held
        <4> QED BY <1>2, <3>1, <4>1
      <3> QED BY <1>1, <2>1, <3>1, <3>2 DEF WalkInv, WalkTypes, Held
    <2>2. CASE /\ ~ Holding
               /\ \E side \in {"long", "short"} : position' = [side |-> side, entry |-> t]
      <3>1. PICK side \in {"long", "short"} : position' = [side |-> side, entry |-> t]
        BY <2>2
      <3>2. position'.entry = t /\ position' \in [side : {"none", "long", "short"}, entry : Nat]
        BY <1>2, <3>1
      <3>3. t < t + 1 /\ (t + 1) - t <= TimeStop + 1
        BY <1>2
      <3> QED BY <1>1, <3>2, <3>3 DEF Held
    <2> QED BY <2>1, <2>2
  <1>4. WalkTypes'
    <2>1. t' \in Nat /\ t' <= Len(candles[coin])
      BY <1>1, <1>2
    <2> QED BY <1>1, <1>2, <1>3, <2>1 DEF WalkInv, WalkTypes
  <1>5. Tallies'
    BY <1>1 DEF WalkInv, Tallies
  <1>6. TradesOf'
    <2> SUFFICES ASSUME NEW r \in trades PROVE (r.coin \in Coins \ todo /\ Positioned(r))'
      BY DEF TradesOf
    <2>1. r.coin \in Coins \ todo /\ Positioned(r)
      BY DEF WalkInv, TradesOf
    <2>2. t <= t' /\ t' \in Nat
      BY <1>1, <1>2
    <2>3. Positioned(r)'
      BY <1>1, <1>2, <1>3, <2>1, <2>2, PositionedKept DEF WalkInv, WalkTypes
    <2> QED BY <1>1, <2>1, <2>3
  <1>7. WalkAccounted'
    <2> DEFINE n == Cardinality(trades)
    <2>1. n \in Int
      BY FS_CardinalityType DEF WalkInv, Tallies
    <2>2. signals = n + skipped + dropped + OpenNow
      BY DEF WalkInv, WalkAccounted, OpenNow
    <2>3. OpenNow \in Int /\ OpenNow' \in Int
      BY DEF OpenNow
    <2>4. /\ signals \in Nat /\ skipped \in Nat /\ dropped \in Nat
          /\ signals' \in Nat /\ skipped' \in Nat
      BY DEF WalkInv, Tallies
    <2> HIDE DEF n
    <2>5. signals' = n + skipped' + dropped + OpenNow'
      BY <2>1, <2>2, <2>3, <2>4
    <2> QED BY <1>1, <2>5 DEF WalkInv, WalkAccounted, OpenNow, n
  <1> QED BY <1>4, <1>5, <1>6, <1>7 DEF WalkInv

(* The trade that ends at a bar begins after every earlier one of the coin *)
(* ended.                                                                  *)
LEMMA BarWithTrade ==
  ASSUME WalkInv, NEW i \in Indicators, Exit(i)
  PROVE  WalkInv'
  <1>0. PICK new : new = [coin |-> coin, side |-> position.side, entry |-> Time(position.entry),
                          exit |-> Time(t), held |-> Held,
                          reason |-> Reason(position.side, Held, i)]
    OBVIOUS
  <1> DEFINE p == position.entry + 1
             q == t + 1
  <1>1. /\ AtBar /\ Holding /\ trades' = trades \cup {new} /\ position' = Flat
        /\ t' = t + 1 /\ candles' = candles /\ todo' = todo /\ coin' = coin
        /\ dropped' = dropped /\ skipped' = skipped /\ signals' = signals
    BY <1>0 DEF Exit, NextBar
  <1>2. /\ t \in Nat /\ coin \in Coins /\ coin # NoCoin /\ t < Len(candles[coin])
        /\ Len(candles[coin]) \in Nat /\ TimeStop \in Nat
        /\ position.entry \in Nat /\ position.entry < t /\ Held <= TimeStop + 1
        /\ coin \notin todo /\ Ordered(candles[coin])
    <2>1. /\ t \in Nat /\ coin # NoCoin /\ t < Len(candles[coin])
          /\ position.entry \in Nat /\ position.entry < t /\ Held <= TimeStop + 1
          /\ coin \notin todo /\ coin \in Coins
      BY <1>1 DEF AtBar, WalkInv, WalkTypes
    <2>2. Ordered(candles[coin])
      BY <2>1 DEF WalkInv, WalkTypes
    <2>3. Len(candles[coin]) \in Nat
      BY <2>2 DEF Ordered
    <2> QED BY <2>1, <2>2, <2>3, Thresholds
  <1>3. ~ Holding'
    BY <1>1 DEF Holding, Flat
  <1>4. /\ p \in 1..Len(candles[coin]) /\ q \in 1..Len(candles[coin]) /\ p < q
        /\ new.coin = coin /\ new.entry = candles[coin][p] /\ new.exit = candles[coin][q]
        /\ new.held = q - p /\ new.held <= TimeStop + 1 /\ q <= t'
    BY <1>0, <1>1, <1>2 DEF Time, Held
  <1>5. \A r \in trades : r.coin = coin => r.exit < new.entry
    <2> SUFFICES ASSUME NEW r \in trades, r.coin = coin PROVE r.exit < new.entry
      OBVIOUS
    <2>1. Positioned(r)
      BY DEF WalkInv, TradesOf
    <2>2. PICK j \in 1..Len(candles[coin]) : r.exit = candles[coin][j] /\ j <= position.entry
      BY <1>1, <2>1 DEF Positioned
    <2>3. j < p
      BY <1>2, <2>2
    <2> HIDE DEF p
    <2>4. candles[coin][j] < candles[coin][p]
      BY <1>2, <1>4, <2>2, <2>3 DEF Ordered
    <2> QED BY <1>4, <2>2, <2>4
  <1>6. new.entry < new.exit /\ new.entry \in Int /\ new.exit \in Int
    <2> HIDE DEF p, q
    <2> QED BY <1>2, <1>4 DEF Ordered
  <1>7. new \notin trades
    <2> SUFFICES ASSUME new \in trades PROVE FALSE
      OBVIOUS
    <2>1. new.exit < new.entry
      BY <1>4, <1>5
    <2> QED BY <1>6, <2>1
  <1>8. WalkTypes'
    <2>1. t' \in Nat /\ t' <= Len(candles[coin])
      BY <1>1, <1>2
    <2>2. Flat \in [side : {"none", "long", "short"}, entry : Nat]
      BY DEF Flat
    <2> QED BY <1>1, <1>2, <1>3, <2>1, <2>2 DEF WalkInv, WalkTypes
  <1>9. Tallies'
    BY <1>1, FS_AddElement DEF WalkInv, Tallies
  <1>10. TradesOf'
    <2> SUFFICES ASSUME NEW r \in trades' PROVE (r.coin \in Coins \ todo /\ Positioned(r))'
      BY DEF TradesOf
    <2>1. CASE r \in trades
      <3>1. r.coin \in Coins \ todo /\ Positioned(r)
        BY <2>1 DEF WalkInv, TradesOf
      <3>2. t <= t' /\ t' \in Nat
        BY <1>1, <1>2
      <3>3. Positioned(r)'
        BY <1>1, <1>2, <1>3, <3>1, <3>2, PositionedKept DEF WalkInv, WalkTypes
      <3> QED BY <1>1, <3>1, <3>3
    <2>2. CASE r = new
      <3>1. (\E k, l \in 1..Len(candles[new.coin]) :
               /\ k < l /\ new.entry = candles[new.coin][k] /\ new.exit = candles[new.coin][l]
               /\ new.held = l - k /\ new.held <= TimeStop + 1
               /\ new.coin = coin => l <= t + 1)
        <4> HIDE DEF p, q
        <4> QED BY <1>1, <1>4
      <3>2. Positioned(new)'
        BY <1>1, <1>3, <3>1 DEF Positioned
      <3> QED BY <1>1, <1>2, <1>4, <2>2, <3>2
    <2> QED BY <1>1, <2>1, <2>2
  <1>11. WalkAccounted'
    <2>1. ASSUME NEW a \in trades', NEW b \in trades', a.coin = b.coin, a # b
          PROVE  a.exit < b.entry \/ b.exit < a.entry
      <3>1. CASE a \in trades /\ b \in trades
        BY <2>1, <3>1 DEF WalkInv, WalkAccounted
      <3>2. CASE a = new /\ b \in trades
        BY <1>4, <1>5, <2>1, <3>2
      <3>3. CASE a \in trades /\ b = new
        BY <1>4, <1>5, <2>1, <3>3
      <3> QED BY <1>1, <2>1, <3>1, <3>2, <3>3
    <2> DEFINE n == Cardinality(trades)
    <2>2. n \in Nat /\ Cardinality(trades') = n + 1
      BY <1>1, <1>7, FS_AddElement, FS_CardinalityType DEF WalkInv, Tallies
    <2>3. signals = n + skipped + dropped + 1
      BY <1>1 DEF WalkInv, WalkAccounted
    <2>4. skipped \in Nat /\ dropped \in Nat
      BY DEF WalkInv, Tallies
    <2> HIDE DEF n
    <2>5. signals = (n + 1) + skipped + dropped + 0
      BY <2>2, <2>3, <2>4
    <2> QED BY <1>1, <1>3, <2>1, <2>2, <2>5 DEF WalkAccounted
  <1> QED BY <1>8, <1>9, <1>10, <1>11 DEF WalkInv

(* The walk of the next coin: it has no trades yet.                        *)
LEMMA WalkBegins ==
  ASSUME WalkInv, NEW c \in Coins, Walk(c)
  PROVE  WalkInv'
  <1>1. /\ coin = NoCoin /\ c \in todo /\ coin' = c /\ todo' = todo \ {c} /\ t' = 0
        /\ UNCHANGED <<candles, position, trades, skipped, signals, dropped>>
    BY DEF Walk, result
  <1>2. ~ Holding /\ ~ Holding' /\ (Holding' <=> Holding)
    BY <1>1 DEF WalkInv, WalkTypes, Holding
  <1>3. WalkTypes'
    <2>1. Ordered(candles[c])
      BY DEF WalkInv, WalkTypes
    <2>2. 0 <= Len(candles[c])
      BY <2>1 DEF Ordered
    <2> QED BY <1>1, <1>2, <2>2 DEF WalkInv, WalkTypes
  <1>4. TradesOf'
    <2> SUFFICES ASSUME NEW r \in trades PROVE (r.coin \in Coins \ todo /\ Positioned(r))'
      BY <1>1 DEF TradesOf
    <2>1. r.coin \in Coins \ todo /\ Positioned(r) /\ r.coin # c
      BY <1>1 DEF WalkInv, TradesOf
    <2>2. t \in Nat /\ t' \in Nat /\ \A d \in Coins : Ordered(candles[d])
      BY <1>1 DEF WalkInv, WalkTypes
    <2>3. Positioned(r)'
      BY <1>1, <2>1, <2>2, PositionedKept
    <2> QED BY <1>1, <2>1, <2>3
  <1> QED BY <1>1, <1>2, <1>3, <1>4 DEF WalkInv, Tallies, WalkAccounted

(* The walk is over: an open position is dropped, and counted as such.     *)
LEMMA WalkOver ==
  ASSUME WalkInv, WalkEnds
  PROVE  WalkInv'
  <1>1. /\ coin' = NoCoin /\ position' = Flat
        /\ dropped' = IF Holding THEN dropped + 1 ELSE dropped
        /\ UNCHANGED <<candles, todo, t, trades, skipped, signals>>
    BY DEF WalkEnds
  <1>2. ~ Holding'
    BY <1>1 DEF Holding, Flat
  <1>3. WalkTypes'
    <2>1. Flat \in [side : {"none", "long", "short"}, entry : Nat]
      BY DEF Flat
    <2>2. NoCoin \notin todo
      BY Thresholds DEF WalkInv, WalkTypes
    <2> QED BY <1>1, <1>2, <2>1, <2>2 DEF WalkInv, WalkTypes
  <1>4. TradesOf'
    <2> SUFFICES ASSUME NEW r \in trades PROVE (r.coin \in Coins \ todo /\ Positioned(r))'
      BY <1>1 DEF TradesOf
    <2>1. r.coin \in Coins \ todo /\ Positioned(r) /\ r.coin # NoCoin
      BY Thresholds DEF WalkInv, TradesOf
    <2>2. t \in Nat /\ t' \in Nat /\ \A d \in Coins : Ordered(candles[d])
      BY <1>1 DEF WalkInv, WalkTypes
    <2>3. Positioned(r)'
      BY <1>1, <2>1, <2>2, PositionedKept
    <2> QED BY <1>1, <2>1, <2>3
  <1>5. Tallies'
    BY <1>1 DEF WalkInv, Tallies
  <1>6. WalkAccounted'
    <2> DEFINE n == Cardinality(trades)
    <2>1. n \in Nat /\ skipped \in Nat /\ dropped \in Nat
      BY FS_CardinalityType DEF WalkInv, Tallies
    <2>2. signals = n + skipped + dropped + OpenNow
      BY DEF WalkInv, WalkAccounted, OpenNow
    <2> HIDE DEF n
    <2>3. signals = n + skipped + dropped' + 0
      <3>1. CASE Holding
        BY <1>1, <2>1, <2>2, <3>1 DEF OpenNow
      <3>2. CASE ~ Holding
        BY <1>1, <2>1, <2>2, <3>2 DEF OpenNow
      <3> QED BY <3>1, <3>2
    <2> QED BY <1>1, <1>2, <2>3 DEF WalkInv, WalkAccounted, n
  <1> QED BY <1>3, <1>4, <1>5, <1>6 DEF WalkInv

(* Every step of a walk.                                                   *)
LEMMA WalkStep ==
  ASSUME WalkInv, SimNext
  PROVE  WalkInv'
  <1>0. /\ skipped \in Nat /\ signals \in Nat /\ t \in Nat
        /\ position \in [side : {"none", "long", "short"}, entry : Nat]
    BY DEF WalkInv, Tallies, WalkTypes
  <1>1. ASSUME NEW i \in Indicators, Stay(i) PROVE WalkInv'
    <2>1. /\ AtBar /\ NextBar /\ Reason(position.side, Held, i) = "none"
          /\ position' = position /\ trades' = trades /\ skipped' = skipped /\ signals' = signals
      BY <1>1 DEF Stay
    <2>2. ~ (Held > TimeStop)
      BY <2>1 DEF Reason
    <2>3. Held <= TimeStop
      <3>1. Held \in Int
        BY <1>0 DEF Held
      <3> QED BY <2>2, <3>1, Thresholds
    <2>4. OpenNow' = OpenNow /\ OpenNow \in Int
      BY <2>1 DEF OpenNow, Holding
    <2>5. signals' = signals + (skipped' - skipped) + (OpenNow' - OpenNow)
      BY <1>0, <2>1, <2>4
    <2> QED BY <1>0, <2>1, <2>3, <2>5, BarWithoutTrade
  <1>2. ASSUME NEW i \in Indicators, NEW open \in BOOLEAN, NoEntry(i, open) PROVE WalkInv'
    <2>1. /\ AtBar /\ NextBar /\ ~ Holding
          /\ position' = position /\ trades' = trades /\ skipped' = skipped /\ signals' = signals
      BY <1>2 DEF NoEntry
    <2>2. OpenNow' = OpenNow /\ OpenNow \in Int
      BY <2>1 DEF OpenNow, Holding
    <2>3. signals' = signals + (skipped' - skipped) + (OpenNow' - OpenNow)
      BY <1>0, <2>1, <2>2
    <2> QED BY <1>0, <2>1, <2>3, BarWithoutTrade
  <1>3. ASSUME NEW i \in Indicators, Skip(i) PROVE WalkInv'
    <2>1. /\ AtBar /\ NextBar /\ ~ Holding
          /\ position' = position /\ trades' = trades
          /\ skipped' = skipped + 1 /\ signals' = signals + 1
      BY <1>3 DEF Skip
    <2>2. OpenNow' = OpenNow /\ OpenNow \in Int
      BY <2>1 DEF OpenNow, Holding
    <2>3. /\ signals' = signals + (skipped' - skipped) + (OpenNow' - OpenNow)
          /\ skipped' \in Nat /\ signals' \in Nat
      BY <1>0, <2>1, <2>2
    <2> QED BY <2>1, <2>3, BarWithoutTrade
  <1>4. ASSUME NEW i \in Indicators, Enter(i) PROVE WalkInv'
    <2>1. /\ AtBar /\ NextBar /\ ~ Holding /\ EntrySide(i) # "none"
          /\ position' = [side |-> EntrySide(i), entry |-> t] /\ trades' = trades
          /\ skipped' = skipped /\ signals' = signals + 1
      BY <1>4 DEF Enter
    <2>2. EntrySide(i) \in {"long", "short"}
      BY <2>1 DEF EntrySide
    <2>3. OpenNow' = 1 /\ OpenNow = 0
      BY <2>1, <2>2 DEF OpenNow, Holding
    <2>4. /\ signals' = signals + (skipped' - skipped) + (OpenNow' - OpenNow)
          /\ skipped' \in Nat /\ signals' \in Nat
      BY <1>0, <2>1, <2>3
    <2> QED BY <2>1, <2>2, <2>4, BarWithoutTrade
  <1> QED BY <1>1, <1>2, <1>3, <1>4, BarWithTrade, WalkBegins, WalkOver DEF SimNext

-----------------------------------------------------------------------------
(* The script: load, then simulate.                                        *)

Bars == {r.bar : r \in got}

(* What is walked, or was, is the history that the finished load returned. *)
WalksLoaded ==
  todo # {} \/ coin # NoCoin \/ trades # {} =>
    /\ step = "done" /\ loader = "candles"
    /\ \A c \in Coins : candles[c] = Sorted(Bars)

(* No candles are a list of times in order.                                *)
LEMMA EmptyOrdered == Ordered(<<>>)
  BY DEF Ordered

(* A finished load has finitely many bars: they lie in its history.        *)
LEMMA BarsFinite ==
  ASSUME CacheInv, step = "done", loader = "candles"
  PROVE  Bars \in SUBSET Int /\ IsFiniteSet(Bars) /\ Bars \subseteq History
  <1>1. \A r \in got : r.bar \in History
    BY LoadExplained DEF HistoryExplained
  <1>2. till - Span \in Int /\ till - 1 \in Int
    BY CacheAssumption DEF CacheInv, CacheTypeOK
  <1>3. IsFiniteSet(History) /\ History \subseteq Int
    BY <1>2, FS_Interval DEF History
  <1>4. Bars \in SUBSET History
    BY <1>1 DEF Bars
  <1> QED BY <1>3, <1>4, FS_Subset

(* The walks stay as they should be, whatever the script does.             *)
LEMMA ScriptStep ==
  ASSUME CacheInv, WalkInv, WalksLoaded, [Next]_vars
  PROVE  WalkInv' /\ WalksLoaded'
  <1>1. ASSUME UNCHANGED simVars PROVE WalkInv'
    BY <1>1
    DEF simVars, walk, result, WalkInv, WalkTypes, Tallies, TradesOf, Positioned,
        WalkAccounted, Holding, Held
  <1>2. CASE Load
    <2>1. CASE step # "loading" /\ step' = "loading"
      <3> DEFINE none == [c \in Coins |-> <<>>]
      <3>1. RunSimulation(none)
        BY <1>2, <2>1 DEF Load
      <3>2. \A c \in Coins : none[c] = <<>> /\ Ordered(none[c])
        BY EmptyOrdered
      <3> HIDE DEF none
      <3>3. WalkInv'
        BY <3>1, <3>2, WalkStarts
      <3>4. todo' = {} /\ coin' = NoCoin /\ trades' = {}
        BY <3>1, <3>2 DEF RunSimulation
      <3> QED BY <3>3, <3>4 DEF WalksLoaded
    <2>2. CASE ~ (step # "loading" /\ step' = "loading")
      <3>1. UNCHANGED simVars /\ CacheNext
        BY <1>2, <2>2 DEF Load
      <3>2. UNCHANGED <<todo, coin, trades, candles>>
        BY <3>1 DEF simVars, walk, result
      <3>3. WalksLoaded'
        <4>1. CASE step = "loading"
          <5>1. todo' = {} /\ coin' = NoCoin /\ trades' = {}
            BY <3>2, <4>1 DEF WalksLoaded
          <5> QED BY <5>1 DEF WalksLoaded
        <4>2. CASE step # "loading"
          <5>1. UNCHANGED <<step, loader, got>>
            BY <2>2, <3>1, <4>2
            DEF CacheNext, Start, ReadFile, ReadRaises, Fetch, KilledWriting, Fail, Finish,
                TimePasses, script
          <5> QED BY <3>2, <5>1 DEF WalksLoaded, Bars
        <4> QED BY <4>1, <4>2
      <3> QED BY <1>1, <3>1, <3>3
    <2> QED BY <2>1, <2>2
  <1>3. CASE RunCandles
    <2> DEFINE frames == [c \in Coins |-> Sorted(Bars)]
    <2>1. RunSimulation(frames) /\ step = "done" /\ loader = "candles" /\ UNCHANGED cacheVars
      BY <1>3 DEF RunCandles, Bars
    <2>2. Ordered(Sorted(Bars))
      BY <2>1, BarsFinite, SortedIs
    <2>3. \A c \in Coins : frames[c] = Sorted(Bars) /\ Ordered(frames[c])
      BY <2>2
    <2> HIDE DEF frames
    <2>4. WalkInv'
      BY <2>1, <2>3, WalkStarts
    <2>5. UNCHANGED <<step, loader, got>>
      BY <2>1 DEF cacheVars, script
    <2>6. candles' = frames
      BY <2>1 DEF RunSimulation
    <2>7. Bars' = Bars
      BY <2>5 DEF Bars
    <2>8. WalksLoaded'
      BY <2>1, <2>3, <2>5, <2>6, <2>7 DEF WalksLoaded
    <2> QED BY <2>4, <2>8
  <1>4. CASE RunFunding
    <2>1. UNCHANGED simVars /\ UNCHANGED cacheVars
      BY <1>4 DEF RunFunding
    <2> QED BY <1>1, <2>1 DEF WalksLoaded, Bars, simVars, walk, result, cacheVars, script
  <1>5. CASE SimNext /\ UNCHANGED <<cacheVars, fundingVars, ran>>
    <2>1. UNCHANGED <<step, loader, got>>
      BY <1>5 DEF cacheVars, script
    <2>2. todo # {} \/ coin # NoCoin
      BY <1>5 DEF SimNext, Walk, Exit, Stay, NoEntry, Skip, Enter, WalkEnds, AtBar
    <2>3. candles' = candles
      BY <1>5 DEF SimNext, Walk, Exit, Stay, NoEntry, Skip, Enter, WalkEnds, NextBar
    <2>4. WalksLoaded'
      BY <2>1, <2>2, <2>3 DEF WalksLoaded, Bars
    <2> QED BY <1>5, <2>4, WalkStep
  <1>6. CASE FundingNext /\ UNCHANGED <<cacheVars, simVars, ran>>
    BY <1>1, <1>6 DEF WalksLoaded, Bars, simVars, walk, result, cacheVars, script
  <1>7. CASE UNCHANGED vars
    <2>1. UNCHANGED simVars /\ UNCHANGED cacheVars
      BY <1>7 DEF vars
    <2> QED BY <1>1, <2>1 DEF WalksLoaded, Bars, simVars, walk, result, cacheVars, script
  <1> QED BY <1>2, <1>3, <1>4, <1>5, <1>6, <1>7 DEF Next

ScriptInv == CacheInv /\ WalkInv /\ WalksLoaded

(* Before anything ran there is nothing to account for.                    *)
LEMMA ScriptInit == Init => ScriptInv
  <1> SUFFICES ASSUME Init PROVE ScriptInv
    OBVIOUS
  <1>1. /\ candles = [c \in Coins |-> <<>>] /\ todo = {} /\ coin = NoCoin /\ t = 0
        /\ position = Flat /\ trades = {} /\ skipped = 0 /\ signals = 0 /\ dropped = 0
    BY DEF Init, SimInit
  <1>2. ~ Holding /\ Cardinality(trades) = 0 /\ IsFiniteSet(trades)
    BY <1>1, FS_EmptySet DEF Holding, Flat
  <1>3. WalkTypes
    <2>1. Flat \in [side : {"none", "long", "short"}, entry : Nat]
      BY DEF Flat
    <2>2. \A c \in Coins : Ordered(candles[c])
      BY <1>1, EmptyOrdered
    <2> QED BY <1>1, <1>2, <2>1, <2>2 DEF WalkTypes
  <1>4. Tallies /\ TradesOf /\ WalkAccounted
    BY <1>1, <1>2 DEF Tallies, TradesOf, WalkAccounted
  <1> QED BY <1>1, <1>3, <1>4, CacheStart DEF ScriptInv, WalkInv, WalksLoaded

(* The invariant of download and walk.                                     *)
LEMMA ScriptInvariant == Spec => []ScriptInv
  <1>1. ScriptInv /\ [Next]_vars => ScriptInv'
    BY CacheKept, ScriptStep DEF ScriptInv
  <1> QED BY <1>1, ScriptInit, PTL DEF Spec

(* The trades of a coin never overlap, and every entry signal is accounted *)
(* for, over any number of coins and candles.                              *)
THEOREM Accounted == Spec => []WalkAccounted
  <1>1. ScriptInv => WalkAccounted
    BY DEF ScriptInv, WalkInv
  <1> QED BY <1>1, ScriptInvariant, PTL

(* The walk leaves a position exactly when the live strategy would, for    *)
(* every z-score that is not disputed and all thresholds.                  *)
THEOREM AsLive == Spec => []LeavesAsLive
  <1>1. ScriptInv => LeavesAsLive
    BY AgreesWithLive DEF ScriptInv, WalkInv
  <1> QED BY <1>1, ScriptInvariant, PTL

(* A trade that lasts longer than its rows spans a bar that is missing,    *)
(* and is so because a file of the cache was written too early.            *)
THEOREM LongTrades == Spec => []LongTradesHaveGaps
  <1>1. ScriptInv => LongTradesHaveGaps
    <2> SUFFICES ASSUME ScriptInv, NEW r \in trades
                 PROVE  /\ r.held \in 1..(TimeStop + 1)
                        /\ r.exit - r.entry > r.held =>
                             \E b \in (r.entry + 1)..(r.exit - 1) :
                               /\ EarlyFile(b)
                               /\ \A k \in DOMAIN candles[r.coin] : candles[r.coin][k] # b
      BY DEF LongTradesHaveGaps
    <2> DEFINE s == candles[r.coin]
    <2>1. r.coin \in Coins /\ Positioned(r)
      BY DEF ScriptInv, WalkInv, TradesOf
    <2>2. s = Sorted(Bars) /\ step = "done" /\ loader = "candles" /\ CacheInv
      BY <2>1 DEF ScriptInv, WalksLoaded
    <2>3. PICK i, j \in 1..Len(s) :
            /\ i < j /\ r.entry = s[i] /\ r.exit = s[j]
            /\ r.held = j - i /\ r.held <= TimeStop + 1
      BY <2>1 DEF Positioned
    <2>4. /\ Ordered(s) /\ (\A k \in 1..Len(s) : s[k] \in Bars)
          /\ \A x \in Bars : \E k \in 1..Len(s) : s[k] = x
      BY <2>2, BarsFinite, SortedIs
    <2> HIDE DEF s
    <2>5. Len(s) \in Nat /\ DOMAIN s = 1..Len(s)
      BY <2>4 DEF Ordered
    <2>6. r.held \in 1..(TimeStop + 1)
      BY <2>3, <2>5, Thresholds
    <2>7. ASSUME r.exit - r.entry > r.held
          PROVE  \E b \in (r.entry + 1)..(r.exit - 1) :
                   EarlyFile(b) /\ \A k \in DOMAIN s : s[k] # b
      <3>1. PICK b \in (s[i] + 1)..(s[j] - 1) : \A k \in 1..Len(s) : s[k] # b
        BY <2>3, <2>4, <2>7, GapBetween
      <3>2. s[i] \in History /\ s[j] \in History
        BY <2>2, <2>3, <2>4, BarsFinite
      <3>3. b \in History
        <4>1. till - Span \in Int /\ till - 1 \in Int
          BY <2>2, CacheAssumption DEF CacheInv, CacheTypeOK
        <4> QED BY <3>1, <3>2, <4>1 DEF History
      <3>4. b \notin Bars
        BY <2>4, <3>1
      <3>5. FinalRow(b) \/ EarlyFile(b)
        BY <2>2, <3>3, LoadExplained DEF HistoryExplained
      <3>6. ~ FinalRow(b)
        BY <3>4 DEF FinalRow, Bars
      <3> QED BY <2>3, <2>5, <3>1, <3>5, <3>6
    <2> QED BY <2>6, <2>7 DEF s
  <1> QED BY <1>1, ScriptInvariant, PTL

-----------------------------------------------------------------------------
(* The funding simulation.                                                 *)

Outcomes == {"skipped", "success", "fill_failure"}

Attempt == [outcome : Outcomes, notional : Int, received : Int, costs : Int, net : Int]

(* Half of an equity is a whole number, and two of them are not more.      *)
LEMMA LegOf ==
  ASSUME NEW e \in Nat
  PROVE  e \div Legs \in Int /\ (e \div Legs) * Legs <= e
  BY CostsAssumption

AttemptTypes ==
  /\ attempts \in Seq(Attempt)
  /\ \A i \in 1..Len(attempts) : attempts[i].net = attempts[i].received - attempts[i].costs
  /\ equity \in Int /\ failureCost \in FailureCosts

AttemptInv == AttemptTypes /\ AttemptsAddUp

(* The first rows of a history.                                            *)
LEMMA FirstRows ==
  ASSUME NEW n \in Nat
  PROVE  IsFiniteSet(1..n) /\ n + 1 \notin 1..n /\ 1..(n + 1) = (1..n) \cup {n + 1}
  <1>1. 1 \in Int /\ n \in Int
    OBVIOUS
  <1>2. IsFiniteSet(1..n)
    BY <1>1, FS_Interval
  <1>3. n + 1 \notin 1..n /\ 1..(n + 1) = (1..n) \cup {n + 1}
    OBVIOUS
  <1> QED BY <1>2, <1>3

(* A sum over one more term.                                               *)
LEMMA SumNext ==
  ASSUME NEW n \in Nat, NEW f, NEW g,
         \A k \in 1..n : f[k] \in Int /\ g[k] = f[k], g[n + 1] \in Int
  PROVE  SumFunctionOnSet(g, 1..(n + 1)) = SumFunctionOnSet(f, 1..n) + g[n + 1]
  <1>1. IsFiniteSet(1..n) /\ n + 1 \notin 1..n /\ 1..(n + 1) = (1..n) \cup {n + 1}
    BY FirstRows
  <1>2. \A k \in (1..n) \cup {n + 1} : g[k] \in Int
    OBVIOUS
  <1>3. SumFunctionOnSet(g, (1..n) \cup {n + 1}) = g[n + 1] + SumFunctionOnSet(g, 1..n)
    BY <1>1, <1>2, SumAdd
  <1>4. SumFunctionOnSet(f, 1..n) = SumFunctionOnSet(g, 1..n)
    BY <1>1, SumSame
  <1>5. SumFunctionOnSet(f, 1..n) \in Int
    BY <1>1, SumInt
  <1>6. SumFunctionOnSet(g, 1..(n + 1)) = g[n + 1] + SumFunctionOnSet(f, 1..n)
    BY <1>1, <1>3, <1>4
  <1> QED BY <1>5, <1>6

(* Before the first row everything adds up.                                *)
LEMMA NothingAttempted ==
  attempts = <<>> /\ equity = InitialEquity => AttemptsAddUp
  <1> SUFFICES ASSUME attempts = <<>>, equity = InitialEquity PROVE AttemptsAddUp
    OBVIOUS
  <1>1. Len(attempts) = 0 /\ 1..0 = {} /\ DOMAIN attempts = {} /\ InitialEquity \in Int
    BY CostsAssumption
  <1>2. \A f : SumFunctionOnSet(f, {}) = 0
    BY SumEmpty
  <1>3. Curve(0) = InitialEquity
    BY <1>1, <1>2 DEF Curve
  <1>4. Total("received") = 0 /\ Total("costs") = 0
    BY <1>1, <1>2 DEF Total
  <1>5. \A o \in Outcomes : Count(o) = 0
    BY <1>1, FS_EmptySet DEF Count
  <1> QED BY <1>1, <1>3, <1>4, <1>5 DEF AttemptsAddUp, Outcomes

(* A row is booked: what its attempt makes of the tallies.                 *)
LEMMA Booked ==
  ASSUME AttemptInv, NEW a \in Attempt, a.net = a.received - a.costs,
         attempts' = Append(attempts, a), equity' = equity + a.net, UNCHANGED failureCost,
         IF a.outcome = "skipped"
         THEN a.net = 0
         ELSE equity > 0 /\ a.notional * Legs <= equity
  PROVE  AttemptInv'
  <1>n. PICK n \in Nat : n = Len(attempts)
    BY DEF AttemptInv, AttemptTypes
  <1>0. n \in Nat /\ attempts \in [1..n -> Attempt] /\ a.net \in Int /\ equity \in Int
    <2>1. attempts \in Seq(Attempt) /\ equity \in Int
      BY DEF AttemptInv, AttemptTypes
    <2>2. attempts \in [1..n -> Attempt]
      BY <1>n, <2>1
    <2>3. a.net \in Int
      BY DEF Attempt
    <2> QED BY <2>1, <2>2, <2>3
  <1>f. IsFiniteSet(1..n)
    BY FirstRows
  <1>1. /\ Len(attempts') = n + 1 /\ DOMAIN attempts' = 1..(n + 1)
        /\ attempts'[n + 1] = a /\ \A k \in 1..n : attempts'[k] = attempts[k]
    BY <1>0, <1>n DEF AttemptInv, AttemptTypes
  <1>t. \A k \in 1..n : /\ attempts[k].net \in Int /\ attempts[k].received \in Int
                        /\ attempts[k].costs \in Int
                        /\ attempts[k].net = attempts[k].received - attempts[k].costs
    BY <1>0, <1>n DEF AttemptInv, AttemptTypes, Attempt
  <1>2. AttemptTypes'
    <2>1. attempts' \in Seq(Attempt)
      BY DEF AttemptInv, AttemptTypes
    <2>2. \A k \in 1..(n + 1) : attempts'[k].net = attempts'[k].received - attempts'[k].costs
      BY <1>0, <1>1, <1>t
    <2>3. equity' \in Int /\ failureCost' \in FailureCosts
      BY <1>0 DEF AttemptInv, AttemptTypes
    <2> QED BY <1>1, <2>1, <2>2, <2>3 DEF AttemptTypes
  <1>3. Curve(n) = equity /\ equity = InitialEquity + Total("received") - Total("costs")
    BY <1>n DEF AttemptInv, AttemptsAddUp
  <1>4. \A i \in 0..n : Curve(i)' = Curve(i) /\ Curve(i) \in Int
    <2> SUFFICES ASSUME NEW i \in 0..n PROVE Curve(i)' = Curve(i) /\ Curve(i) \in Int
      OBVIOUS
    <2> DEFINE f == [k \in 1..i |-> attempts[k].net]
               g == [k \in 1..i |-> attempts'[k].net]
    <2>1. IsFiniteSet(1..i) /\ \A k \in 1..i : k \in 1..n
      BY <1>0, FirstRows
    <2>2. \A k \in 1..i : f[k] \in Int /\ f[k] = g[k]
      BY <1>1, <1>t, <2>1
    <2>3. SumFunctionOnSet(f, 1..i) \in Int /\ SumFunctionOnSet(f, 1..i) = SumFunctionOnSet(g, 1..i)
      <3> HIDE DEF f, g
      <3> QED BY <2>1, <2>2, SumInt, SumSame
    <2>4. Curve(i) = InitialEquity + SumFunctionOnSet(f, 1..i)
          /\ Curve(i)' = InitialEquity + SumFunctionOnSet(g, 1..i)
      BY DEF Curve
    <2> HIDE DEF f, g
    <2> QED BY <2>3, <2>4, CostsAssumption
  <1>5. Curve(n + 1)' = Curve(n) + a.net
    <2> DEFINE f == [k \in 1..n |-> attempts[k].net]
               g == [k \in 1..(n + 1) |-> attempts'[k].net]
    <2>1. /\ \A k \in 1..n : f[k] \in Int /\ g[k] = f[k]
          /\ g[n + 1] = a.net
      BY <1>0, <1>1, <1>t
    <2>2. /\ Curve(n) = InitialEquity + SumFunctionOnSet(f, 1..n)
          /\ Curve(n + 1)' = InitialEquity + SumFunctionOnSet(g, 1..(n + 1))
      BY DEF Curve
    <2> HIDE DEF f, g
    <2>3. SumFunctionOnSet(g, 1..(n + 1)) = SumFunctionOnSet(f, 1..n) + a.net
      BY <1>0, <2>1, SumNext
    <2>4. SumFunctionOnSet(f, 1..n) \in Int
      BY <2>1, <1>f, SumInt
    <2> QED BY <1>0, <2>2, <2>3, <2>4, CostsAssumption
  <1>6. Total("received")' = Total("received") + a.received /\ Total("received") \in Int
    <2> DEFINE f == [k \in 1..n |-> attempts[k]["received"]]
               g == [k \in 1..(n + 1) |-> attempts'[k]["received"]]
    <2>1. /\ \A k \in 1..n : f[k] \in Int /\ g[k] = f[k]
          /\ g[n + 1] = a.received /\ a.received \in Int
      BY <1>0, <1>1, <1>t DEF Attempt
    <2>2. Total("received") = SumFunctionOnSet(f, 1..n)
          /\ Total("received")' = SumFunctionOnSet(g, 1..(n + 1))
      BY <1>1, <1>n DEF Total
    <2> HIDE DEF f, g
    <2>3. SumFunctionOnSet(g, 1..(n + 1)) = SumFunctionOnSet(f, 1..n) + a.received
      BY <1>0, <2>1, SumNext
    <2>4. SumFunctionOnSet(f, 1..n) \in Int
      BY <2>1, <1>f, SumInt
    <2> QED BY <2>2, <2>3, <2>4
  <1>7. Total("costs")' = Total("costs") + a.costs /\ Total("costs") \in Int
    <2> DEFINE f == [k \in 1..n |-> attempts[k]["costs"]]
               g == [k \in 1..(n + 1) |-> attempts'[k]["costs"]]
    <2>1. /\ \A k \in 1..n : f[k] \in Int /\ g[k] = f[k]
          /\ g[n + 1] = a.costs /\ a.costs \in Int
      BY <1>0, <1>1, <1>t DEF Attempt
    <2>2. Total("costs") = SumFunctionOnSet(f, 1..n)
          /\ Total("costs")' = SumFunctionOnSet(g, 1..(n + 1))
      BY <1>1, <1>n DEF Total
    <2> HIDE DEF f, g
    <2>3. SumFunctionOnSet(g, 1..(n + 1)) = SumFunctionOnSet(f, 1..n) + a.costs
      BY <1>0, <2>1, SumNext
    <2>4. SumFunctionOnSet(f, 1..n) \in Int
      BY <2>1, <1>f, SumInt
    <2> QED BY <2>2, <2>3, <2>4
  <1>8. \A o \in Outcomes :
          /\ Count(o) \in Nat
          /\ Count(o)' = IF a.outcome = o THEN Count(o) + 1 ELSE Count(o)
    <2> SUFFICES ASSUME NEW o \in Outcomes
                 PROVE  /\ Count(o) \in Nat
                        /\ Count(o)' = IF a.outcome = o THEN Count(o) + 1 ELSE Count(o)
      OBVIOUS
    <2> DEFINE K == {k \in 1..n : attempts[k].outcome = o}
               L == {k \in 1..(n + 1) : attempts'[k].outcome = o}
    <2>1. Count(o) = Cardinality(K) /\ Count(o)' = Cardinality(L)
      BY <1>1, <1>n DEF Count
    <2>2. IsFiniteSet(K) /\ Cardinality(K) \in Nat /\ n + 1 \notin K
      BY <1>0, <1>f, FS_Subset, FS_CardinalityType
    <2>3. L = IF a.outcome = o THEN K \cup {n + 1} ELSE K
      BY <1>0, <1>1
    <2> HIDE DEF K, L
    <2> QED BY <2>1, <2>2, <2>3, FS_AddElement
  <1>9. AttemptsAddUp'
    <2>1. (Count("skipped") + Count("success") + Count("fill_failure") = Len(attempts))'
      <3>1. Count("skipped") + Count("success") + Count("fill_failure") = n
        BY <1>n DEF AttemptInv, AttemptsAddUp
      <3>2. a.outcome \in Outcomes
        BY DEF Attempt
      <3> QED BY <1>0, <1>1, <1>8, <3>1, <3>2 DEF Outcomes
    <2>2. (Curve(Len(attempts)) = equity)'
      BY <1>0, <1>1, <1>3, <1>5 DEF Curve
    <2>3. (equity = InitialEquity + Total("received") - Total("costs"))'
      <3>1. a.received \in Int /\ a.costs \in Int /\ InitialEquity \in Int
        BY CostsAssumption DEF Attempt
      <3>2. PICK r, c, x, y \in Int :
              /\ r = Total("received") /\ c = Total("costs") /\ x = a.received /\ y = a.costs
              /\ equity = InitialEquity + r - c /\ equity' = equity + (x - y)
        BY <1>3, <1>6, <1>7, <3>1
      <3>3. equity' = InitialEquity + (r + x) - (c + y)
        <4>1. equity' = (InitialEquity + r - c) + (x - y)
          BY <3>2
        <4>2. \A b \in Int : (b + r - c) + (x - y) = b + (r + x) - (c + y)
          OBVIOUS
        <4> QED BY <3>1, <4>1, <4>2
      <3>4. Total("received")' = r + x /\ Total("costs")' = c + y
        BY <1>6, <1>7, <3>2
      <3> QED BY <3>3, <3>4
    <2>4. ASSUME NEW i \in 1..(n + 1)
          PROVE  IF attempts'[i].outcome = "skipped"
                 THEN Curve(i)' = Curve(i - 1)'
                 ELSE Curve(i - 1)' > 0 /\ attempts'[i].notional * Legs <= Curve(i - 1)'
      <3>1. CASE i \in 1..n
        <4>1. IF attempts[i].outcome = "skipped"
              THEN Curve(i) = Curve(i - 1)
              ELSE Curve(i - 1) > 0 /\ attempts[i].notional * Legs <= Curve(i - 1)
          BY <1>0, <3>1 DEF AttemptInv, AttemptsAddUp
        <4>2. i \in 0..n /\ i - 1 \in 0..n
          BY <1>0, <3>1
        <4>3. Curve(i)' = Curve(i) /\ Curve(i - 1)' = Curve(i - 1)
          BY <1>4, <4>2
        <4> QED BY <1>1, <3>1, <4>1, <4>3
      <3>2. CASE i = n + 1
        <4>1. i - 1 = n /\ Curve(n)' = Curve(n) /\ Curve(n) = equity
          BY <1>0, <1>3, <1>4, <3>2
        <4>2. Curve(i)' = equity + a.net /\ Curve(i - 1)' = equity /\ attempts'[i] = a
          BY <1>1, <1>5, <3>2, <4>1
        <4> QED BY <1>0, <4>2
      <3> QED BY <1>0, <2>4, <3>1, <3>2
    <2> QED BY <1>1, <2>1, <2>2, <2>3, <2>4 DEF AttemptsAddUp
  <1> QED BY <1>2, <1>9 DEF AttemptInv

(* A row is passed over, or an attempt is made with the equity of its time.*)
LEMMA RowSimulated == AttemptInv /\ FundingNext => AttemptInv'
  <1> SUFFICES ASSUME AttemptInv, FundingNext PROVE AttemptInv'
    OBVIOUS
  <1>1. PICK rate \in Rates : PassOver(rate) \/ Try(rate)
    BY DEF FundingNext
  <1>2. CASE PassOver(rate)
    <2>1. Skipped \in Attempt /\ Skipped.net = 0 /\ Skipped.outcome = "skipped"
          /\ Skipped.net = Skipped.received - Skipped.costs
      BY DEF Skipped, Attempt, Outcomes
    <2> QED BY <1>2, <2>1, Booked DEF PassOver, Book
  <1>3. CASE Try(rate)
    <2> DEFINE leg == equity \div Legs
    <2>0. equity \in Int /\ equity > 0 /\ failureCost \in Int /\ rate \in Int
      BY <1>3, CostsAssumption DEF Try, AttemptInv, AttemptTypes
    <2>1. leg \in Int /\ leg * Legs <= equity
      BY <2>0, LegOf
    <2> HIDE DEF leg
    <2>2. \A x \in Int : x \div Unit \in Int
      BY CostsAssumption
    <2>3. (leg * rate) \div Unit \in Int /\ (leg * CaptureCost) \div Unit \in Int
          /\ (leg * failureCost) \div Unit \in Int
      BY <2>0, <2>1, <2>2, CostsAssumption
    <2>4. PICK a \in {Success(leg, rate), FillFailure(leg)} : Book(a)
      BY <1>3 DEF Try, leg, Success, FillFailure, Made
    <2>5. /\ a \in Attempt /\ a.net = a.received - a.costs /\ a.notional = leg
          /\ a.outcome # "skipped"
      BY <2>1, <2>3, <2>4 DEF Success, FillFailure, Made, Attempt, Outcomes
    <2> QED BY <2>0, <2>1, <2>4, <2>5, Booked DEF Book
  <1> QED BY <1>1, <1>2, <1>3

(* The report keeps adding up, whatever the script does.                   *)
LEMMA AttemptStep == AttemptInv /\ [Next]_vars => AttemptInv'
  <1> SUFFICES ASSUME AttemptInv, [Next]_vars PROVE AttemptInv'
    OBVIOUS
  <1>1. ASSUME UNCHANGED fundingVars PROVE AttemptInv'
    BY <1>1
    DEF fundingVars, AttemptInv, AttemptTypes, AttemptsAddUp, Count, Curve, Total
  <1>2. ASSUME NEW ticks, Simulate(ticks) PROVE AttemptInv'
    <2>1. attempts' = <<>> /\ equity' = InitialEquity /\ failureCost' = failureCost
      BY <1>2 DEF Simulate
    <2>2. (attempts = <<>> /\ equity = InitialEquity => AttemptsAddUp)'
      BY NothingAttempted, PTL
    <2> QED BY <2>1, <2>2, CostsAssumption DEF AttemptInv, AttemptTypes
  <1> QED BY <1>1, <1>2, RowSimulated DEF Next, Load, RunCandles, RunFunding, vars

(* The aggregates of the report belong together, after any number of rows. *)
THEOREM AddUp == Spec => []AttemptsAddUp
  <1>1. Init => AttemptInv
    BY NothingAttempted, CostsAssumption
    DEF Init, FundingInit, AttemptInv, AttemptTypes
  <1>2. AttemptInv => AttemptsAddUp
    BY DEF AttemptInv
  <1> QED BY <1>1, <1>2, AttemptStep, PTL DEF Spec

(* CacheTypeOK, WalkTypes, AttemptTypes: files and rows, the walk (whose   *)
(* bars ascend, and whose open position was entered before the present bar *)
(* and no longer ago than the time stop allows) and the attempts (whose    *)
(* net is what was received less what was paid) are well typed.            *)
THEOREM TypeCorrect == Spec => [](CacheTypeOK /\ WalkTypes /\ AttemptTypes)
  <1>1. Init => AttemptInv
    BY NothingAttempted, CostsAssumption
    DEF Init, FundingInit, AttemptInv, AttemptTypes
  <1>2. ScriptInv /\ AttemptInv => CacheTypeOK /\ WalkTypes /\ AttemptTypes
    BY DEF ScriptInv, CacheInv, WalkInv, AttemptInv
  <1> QED BY <1>1, <1>2, AttemptStep, ScriptInvariant, PTL DEF Spec
=============================================================================
