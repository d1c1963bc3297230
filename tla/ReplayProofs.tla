----------------------------- MODULE ReplayProofs -----------------------------
(***************************************************************************)
(* Theorems about Replay, for any candles, analyses, thresholds and        *)
(* account settings.                                                       *)
(*                                                                         *)
(* The live side lags the engine by at most the newest candle: what it     *)
(* would hold once it had evaluated that candle, or booked a trade a crash *)
(* interrupted, is its due state.  As long as nothing parts the histories  *)
(* the due state is the engine's (Tracks).                                 *)
(***************************************************************************)
EXTENDS Replay, FiniteSetTheorems, SequenceTheorems, WellFoundedInduction, TLAPS

-------------------------------------------------------------------------------
(* The statistics of a ledger (Statistics).  What a loop leaves is proved by  *)
(* induction over its rounds.                                                 *)

Directions == {"LONG", "SHORT"}

TradeRec == [direction : Directions, gross : Int, fees : Int, net : Int]

(* Induction over an interval, stated for a set.                           *)
LEMMA IntervalInduction ==
    ASSUME NEW N \in Nat, NEW S, 0 \in S, \A n \in 1..N : n - 1 \in S => n \in S
    PROVE  \A n \in 0..N : n \in S
<1> SUFFICES ASSUME NEW missing \in 0..N, missing \notin S PROVE FALSE
  OBVIOUS
<1> DEFINE Missing == {n \in 0..N : n \notin S}
           Less == OpToRel(<, Nat)
<1>1. IsWellFoundedOn(Less, Nat)
  BY NatLessThanWellFounded, Zenon
<1>2. \A x, y \in Nat : y < x => <<y, x>> \in Less
  BY DEF OpToRel
<1> HIDE DEF Less
<1>3. PICK x \in Missing : \A y \in Missing : ~(y < x)
  <2>1. Missing \subseteq Nat /\ Missing # {}
    OBVIOUS
  <2> HIDE DEF Missing
  <2>2. PICK x \in Missing : \A y \in Missing : ~(<<y, x>> \in Less)
    BY <1>1, <2>1, WFMin
  <2>3. QED
    BY <1>2, <2>1, <2>2
<1>4. QED
  BY <1>3

(* f holds the values a loop of N rounds goes through.                     *)
IsLoop(f, T, base, N, step) ==
    /\ f \in [0..N -> T] /\ f[0] = base
    /\ \A n \in 1..N : f[n] = step[<<f[n-1], n>>]

(* A function defined along an interval exists.                            *)
LEMMA LoopExists ==
    ASSUME NEW T, NEW base \in T, NEW N \in Nat, NEW step \in [T \X (1..N) -> T]
    PROVE  \E f : IsLoop(f, T, base, N, step)
<1> DEFINE Upto(m, f) == /\ f \in [0..m -> T] /\ f[0] = base
                         /\ \A n \in 1..m : f[n] = step[<<f[n-1], n>>]
           S == {m \in 0..N : \E f : Upto(m, f)}
<1>1. 0 \in S
  <2>1. Upto(0, [n \in 0..0 |-> base])
    OBVIOUS
  <2> HIDE DEF Upto
  <2>2. QED
    BY <2>1
<1>2. ASSUME NEW m \in 1..N, m - 1 \in S PROVE m \in S
  <2>1. PICK f : Upto(m - 1, f)
    BY <1>2
  <2> DEFINE next == step[<<f[m-1], m>>]
             g == [n \in 0..m |-> IF n = m THEN next ELSE f[n]]
  <2>2. next \in T
    <3>1. f[m-1] \in T
      BY <2>1
    <3>2. <<f[m-1], m>> \in T \X (1..N)
      BY <3>1
    <3>3. QED
      BY <3>2
  <2>3. g \in [0..m -> T] /\ g[0] = base
    BY <2>1, <2>2
  <2>4. ASSUME NEW n \in 1..m PROVE g[n] = step[<<g[n-1], n>>]
    <3>1. g[n-1] = f[n-1]
      OBVIOUS
    <3>2. CASE n = m
      <4>1. g[m] = next /\ g[m-1] = f[m-1]
        BY <3>1, <3>2
      <4>2. QED
        BY <3>2, <4>1
    <3>3. CASE n # m
      <4>1. n \in 1..(m-1)
        BY <3>3
      <4>2. f[n] = step[<<f[n-1], n>>]
        BY <2>1, <4>1
      <4>3. g[n] = f[n]
        BY <3>3
      <4>4. QED
        BY <3>1, <4>2, <4>3
    <3>4. QED
      BY <3>2, <3>3
  <2> HIDE DEF g
  <2>5. Upto(m, g)
    BY <2>3, <2>4
  <2> HIDE DEF Upto
  <2>6. QED
    BY <2>5
<1>3. N \in S
  <2> HIDE DEF S
  <2>1. QED
    BY <1>1, <1>2, IntervalInduction
<1>4. QED
  BY <1>3 DEF IsLoop

(* The sums of a loop. *)
IsSums(r, start, amounts) ==
    /\ r \in [0..Len(amounts) -> Int] /\ r[0] = start
    /\ \A n \in 1..Len(amounts) : r[n] = r[n-1] + amounts[n]

LEMMA SumsRun ==
    ASSUME NEW start \in Int, NEW amounts \in Seq(Int)
    PROVE  IsSums(Sums(start, amounts), start, amounts)
<1> DEFINE N == Len(amounts)
           step == [x \in Int \X (1..N) |-> x[1] + amounts[x[2]]]
           r == Sums(start, amounts)
<1>1. N \in Nat /\ \A n \in 1..N : amounts[n] \in Int
  OBVIOUS
<1>2. PICK f \in [0..N -> Int] : f[0] = start /\ \A n \in 1..N : f[n] = f[n-1] + amounts[n]
  <2>1. step \in [Int \X (1..N) -> Int]
    BY <1>1
  <2>2. \A x \in Int, n \in 1..N : step[<<x, n>>] = x + amounts[n]
    BY <1>1
  <2> HIDE DEF step, N
  <2>3. PICK f : IsLoop(f, Int, start, N, step)
    BY <1>1, <2>1, LoopExists
  <2>4. f \in [0..N -> Int] /\ \A n \in 1..N : f[n-1] \in Int
    BY <1>1, <2>3 DEF IsLoop
  <2>5. QED
    BY <2>2, <2>3, <2>4 DEF IsLoop
<1>3. f = [n \in 0..N |-> IF n = 0 THEN start ELSE f[n-1] + amounts[n]]
  <2> HIDE DEF N
  <2>1. QED
    BY <1>1, <1>2
<1>4. r = CHOOSE g : g = [n \in 0..N |-> IF n = 0 THEN start ELSE g[n-1] + amounts[n]]
  BY DEF Sums, Running
<1> HIDE DEF r
<1>5. r = [n \in 0..N |-> IF n = 0 THEN start ELSE r[n-1] + amounts[n]]
  <2> HIDE DEF N
  <2>1. QED
    BY <1>3, <1>4
<1>6. \A n \in 0..N : r[n] \in Int
  <2> HIDE DEF N
  <2> DEFINE S == {n \in 0..N : r[n] \in Int}
  <2>1. 0 \in S
    BY <1>1, <1>5
  <2>2. ASSUME NEW n \in 1..N, n - 1 \in S PROVE n \in S
    <3>1. r[n] = r[n-1] + amounts[n]
      BY <1>1, <1>5
    <3>2. QED
      BY <1>1, <2>2, <3>1
  <2> HIDE DEF S
  <2>3. \A n \in 0..N : n \in S
    BY <1>1, <2>1, <2>2, IntervalInduction
  <2>4. QED
    BY <2>3 DEF S
<1>7. r \in [0..N -> Int] /\ r[0] = start /\ \A n \in 1..N : r[n] = r[n-1] + amounts[n]
  <2> HIDE DEF N
  <2>1. QED
    BY <1>1, <1>5, <1>6
<1>8. QED
  BY <1>7 DEF r, IsSums

(* The drawdowns of a path. *)
IsDrawdowns(r, path) ==
    /\ r \in [0..Len(path) -> [peak : Int, worst : Int]]
    /\ r[0].peak = path[1] /\ r[0].worst = 0
    /\ \A n \in 1..Len(path) :
          LET peak == IF path[n] > r[n-1].peak THEN path[n] ELSE r[n-1].peak
              fall == peak - path[n]
          IN  /\ r[n].peak = peak
              /\ r[n].worst = IF fall > r[n-1].worst THEN fall ELSE r[n-1].worst

LEMMA DrawdownsRun ==
    ASSUME NEW path \in Seq(Int), path # <<>>
    PROVE  IsDrawdowns(Drawdowns(path), path)
<1> DEFINE N == Len(path)
           T == [peak : Int, worst : Int]
           base == [peak |-> path[1], worst |-> 0]
           After(seen, point) ==
              LET peak == IF point > seen.peak THEN point ELSE seen.peak
                  fall == peak - point
              IN  [peak |-> peak, worst |-> IF fall > seen.worst THEN fall ELSE seen.worst]
           step == [x \in T \X (1..N) |-> After(x[1], path[x[2]])]
           r == Drawdowns(path)
<1>1. N \in Nat \ {0} /\ \A n \in 1..N : path[n] \in Int
  OBVIOUS
<1>2. base \in T /\ \A seen \in T, point \in Int : After(seen, point) \in T
  BY <1>1
<1>3. r = CHOOSE g : g = [n \in 0..N |-> IF n = 0 THEN base ELSE After(g[n-1], path[n])]
  BY DEF Drawdowns, Running
<1> HIDE DEF N, T, base, After, r
<1>4. PICK f \in [0..N -> T] : f[0] = base /\ \A n \in 1..N : f[n] = After(f[n-1], path[n])
  <2>1. step \in [T \X (1..N) -> T]
    BY <1>1, <1>2
  <2>2. \A x \in T, n \in 1..N : step[<<x, n>>] = After(x, path[n])
    OBVIOUS
  <2> HIDE DEF step
  <2>3. PICK f : IsLoop(f, T, base, N, step)
    BY <1>1, <1>2, <2>1, LoopExists
  <2>4. f \in [0..N -> T] /\ \A n \in 1..N : f[n-1] \in T
    BY <1>1, <2>3 DEF IsLoop
  <2>5. QED
    BY <2>2, <2>3, <2>4 DEF IsLoop
<1>5. f = [n \in 0..N |-> IF n = 0 THEN base ELSE After(f[n-1], path[n])]
  BY <1>1, <1>4
<1>6. r = [n \in 0..N |-> IF n = 0 THEN base ELSE After(r[n-1], path[n])]
  BY <1>3, <1>5
<1>7. \A n \in 0..N : r[n] \in T
  <2> DEFINE S == {n \in 0..N : r[n] \in T}
  <2>1. 0 \in S
    BY <1>1, <1>2, <1>6
  <2>2. ASSUME NEW n \in 1..N, n - 1 \in S PROVE n \in S
    <3>1. r[n] = After(r[n-1], path[n])
      BY <1>1, <1>6
    <3>2. QED
      BY <1>1, <1>2, <2>2, <3>1
  <2> HIDE DEF S
  <2>3. \A n \in 0..N : n \in S
    BY <1>1, <2>1, <2>2, IntervalInduction
  <2>4. QED
    BY <2>3 DEF S
<1>8. r \in [0..N -> T] /\ r[0] = base /\ \A n \in 1..N : r[n] = After(r[n-1], path[n])
  BY <1>1, <1>6, <1>7
<1>9. r[0].peak = path[1] /\ r[0].worst = 0
  BY <1>8 DEF base
<1>10. ASSUME NEW n \in 1..N
       PROVE  LET peak == IF path[n] > r[n-1].peak THEN path[n] ELSE r[n-1].peak
                  fall == peak - path[n]
              IN  /\ r[n].peak = peak
                  /\ r[n].worst = IF fall > r[n-1].worst THEN fall ELSE r[n-1].worst
  <2> DEFINE q == r[n]
             p == r[n-1]
  <2>1. q = After(p, path[n])
    BY <1>8
  <2> HIDE DEF q, p
  <2>2. /\ q.peak = IF path[n] > p.peak THEN path[n] ELSE p.peak
        /\ q.worst = IF q.peak - path[n] > p.worst THEN q.peak - path[n] ELSE p.worst
    BY <2>1 DEF After
  <2>3. QED
    BY <2>2 DEF p, q
<1>11. QED
  BY <1>8, <1>9, <1>10 DEF IsDrawdowns, N, T, r

(* The streaks of a ledger. *)
IsStreaks(r, list, winning) ==
    /\ r \in [0..Len(list) -> [run : Int, best : Int]]
    /\ r[0].run = 0 /\ r[0].best = 0
    /\ \A n \in 1..Len(list) :
          LET run == IF Won(list[n]) = winning THEN r[n-1].run + 1 ELSE 0
          IN  /\ r[n].run = run
              /\ r[n].best = IF run > r[n-1].best THEN run ELSE r[n-1].best

LEMMA StreaksRun ==
    ASSUME NEW list \in Seq(TradeRec), NEW winning \in BOOLEAN
    PROVE  IsStreaks(Streaks(list, winning), list, winning)
<1> DEFINE N == Len(list)
           T == [run : Int, best : Int]
           base == [run |-> 0, best |-> 0]
           After(seen, trade) ==
              LET run == IF Won(trade) = winning THEN seen.run + 1 ELSE 0
              IN  [run |-> run, best |-> IF run > seen.best THEN run ELSE seen.best]
           step == [x \in T \X (1..N) |-> After(x[1], list[x[2]])]
           r == Streaks(list, winning)
<1>1. N \in Nat
  OBVIOUS
<1>2. base \in T /\ \A seen \in T : \A trade : After(seen, trade) \in T
  OBVIOUS
<1>3. r = CHOOSE g : g = [n \in 0..N |-> IF n = 0 THEN base ELSE After(g[n-1], list[n])]
  BY DEF Streaks, Running
<1> HIDE DEF N, T, base, After, r
<1>4. PICK f \in [0..N -> T] : f[0] = base /\ \A n \in 1..N : f[n] = After(f[n-1], list[n])
  <2>1. step \in [T \X (1..N) -> T]
    BY <1>1, <1>2
  <2>2. \A x \in T, n \in 1..N : step[<<x, n>>] = After(x, list[n])
    OBVIOUS
  <2> HIDE DEF step
  <2>3. PICK f : IsLoop(f, T, base, N, step)
    BY <1>1, <1>2, <2>1, LoopExists
  <2>4. f \in [0..N -> T] /\ \A n \in 1..N : f[n-1] \in T
    BY <1>1, <2>3 DEF IsLoop
  <2>5. QED
    BY <2>2, <2>3, <2>4 DEF IsLoop
<1>5. f = [n \in 0..N |-> IF n = 0 THEN base ELSE After(f[n-1], list[n])]
  BY <1>1, <1>4
<1>6. r = [n \in 0..N |-> IF n = 0 THEN base ELSE After(r[n-1], list[n])]
  BY <1>3, <1>5
<1>7. \A n \in 0..N : r[n] \in T
  <2> DEFINE S == {n \in 0..N : r[n] \in T}
  <2>1. 0 \in S
    BY <1>1, <1>2, <1>6
  <2>2. ASSUME NEW n \in 1..N, n - 1 \in S PROVE n \in S
    <3>1. r[n] = After(r[n-1], list[n])
      BY <1>1, <1>6
    <3>2. QED
      BY <1>1, <1>2, <2>2, <3>1
  <2> HIDE DEF S
  <2>3. \A n \in 0..N : n \in S
    BY <1>1, <2>1, <2>2, IntervalInduction
  <2>4. QED
    BY <2>3 DEF S
<1>8. r \in [0..N -> T] /\ r[0] = base /\ \A n \in 1..N : r[n] = After(r[n-1], list[n])
  BY <1>1, <1>6, <1>7
<1>9. r[0].run = 0 /\ r[0].best = 0
  BY <1>8 DEF base
<1>10. ASSUME NEW n \in 1..N
       PROVE  LET run == IF Won(list[n]) = winning THEN r[n-1].run + 1 ELSE 0
              IN  /\ r[n].run = run
                  /\ r[n].best = IF run > r[n-1].best THEN run ELSE r[n-1].best
  <2> DEFINE q == r[n]
             p == r[n-1]
  <2>1. q = After(p, list[n])
    BY <1>8
  <2> HIDE DEF q, p
  <2>2. /\ q.run = IF Won(list[n]) = winning THEN p.run + 1 ELSE 0
        /\ q.best = IF q.run > p.best THEN q.run ELSE p.best
    BY <2>1 DEF After
  <2>3. QED
    BY <2>2 DEF p, q
<1>11. QED
  BY <1>8, <1>9, <1>10 DEF IsStreaks, N, T, r

(* w is the largest fall between a point and a later one. *)
IsWorstFall(w, path) ==
    /\ \E i, j \in 1..Len(path) : i <= j /\ w = path[i] - path[j]
    /\ \A i, j \in 1..Len(path) : i <= j => path[i] - path[j] <= w


LEMMA WorstFallIs ==
    ASSUME NEW path \in Seq(Int), NEW w \in Int, IsWorstFall(w, path)
    PROVE  WorstFall(path) = w
<1> DEFINE later == {pair \in (DOMAIN path) \X (DOMAIN path) : pair[1] <= pair[2]}
           downward == {path[pair[1]] - path[pair[2]] : pair \in later}
<1>1. DOMAIN path = 1..Len(path) /\ \A i \in 1..Len(path) : path[i] \in Int
  OBVIOUS
<1>2. w \in downward
  <2>1. PICK i, j \in 1..Len(path) : i <= j /\ w = path[i] - path[j]
    BY DEF IsWorstFall
  <2>2. <<i, j>> \in later
    BY <1>1, <2>1
  <2>3. QED
    BY <2>1, <2>2
<1>3. \A fall \in downward : fall \in Int /\ fall <= w
  <2> SUFFICES ASSUME NEW pair \in later
               PROVE  path[pair[1]] - path[pair[2]] \in Int /\ path[pair[1]] - path[pair[2]] <= w
    OBVIOUS
  <2>1. pair[1] \in 1..Len(path) /\ pair[2] \in 1..Len(path) /\ pair[1] <= pair[2]
    BY <1>1
  <2>2. QED
    BY <1>1, <2>1 DEF IsWorstFall
<1>4. WorstFall(path) = CHOOSE worst \in downward : \A fall \in downward : fall <= worst
  BY DEF WorstFall
<1> HIDE DEF downward
<1>5. /\ WorstFall(path) \in downward
      /\ \A fall \in downward : fall <= WorstFall(path)
  BY <1>2, <1>3, <1>4
<1>6. WorstFall(path) \in Int /\ WorstFall(path) <= w /\ w <= WorstFall(path)
  BY <1>2, <1>3, <1>5
<1> HIDE DEF later
<1>7. QED
  BY <1>6

LEMMA DrawdownIsTheWorstFall ==
    ASSUME NEW path \in Seq(Int), path # <<>>
    PROVE  WorstDrawdown(path) \in Int /\ IsWorstFall(WorstDrawdown(path), path)
<1> DEFINE N == Len(path)
           r == Drawdowns(path)
           Reached(n) ==
              /\ \E i \in 1..N : (i <= n \/ i = 1) /\ r[n].peak = path[i]
              /\ \A i \in 1..N : i <= n => path[i] <= r[n].peak
              /\ \E i, j \in 1..N : (j <= n \/ j = 1) /\ i <= j /\ r[n].worst = path[i] - path[j]
              /\ \A i, j \in 1..N : i <= j /\ j <= n => path[i] - path[j] <= r[n].worst
           S == {n \in 0..N : Reached(n)}
<1>1. N \in Nat \ {0} /\ \A i \in 1..N : path[i] \in Int
  OBVIOUS
<1>2. IsDrawdowns(r, path)
  BY DrawdownsRun
<1>3. /\ \A n \in 0..N : r[n].peak \in Int /\ r[n].worst \in Int
      /\ r[0].peak = path[1] /\ r[0].worst = 0
  BY <1>2 DEF IsDrawdowns
<1>4. ASSUME NEW n \in 1..N
      PROVE  /\ r[n].peak = IF path[n] > r[n-1].peak THEN path[n] ELSE r[n-1].peak
             /\ r[n].worst = IF r[n].peak - path[n] > r[n-1].worst
                               THEN r[n].peak - path[n] ELSE r[n-1].worst
  BY <1>2 DEF IsDrawdowns
<1> HIDE DEF N, r
<1>5. 0 \in S
  <2>1. 1 \in 1..N /\ r[0].worst = path[1] - path[1]
    BY <1>1, <1>3
  <2>2. QED
    BY <1>1, <1>3, <2>1
<1>6. ASSUME NEW n \in 1..N, n - 1 \in S PROVE n \in S
  <2>1. Reached(n - 1) /\ n - 1 \in 0..N /\ path[n] \in Int
    BY <1>1, <1>6
  <2> DEFINE peak == r[n].peak
             worst == r[n].worst
             before == r[n-1].peak
             seen == r[n-1].worst
  <2>2. /\ peak = IF path[n] > before THEN path[n] ELSE before
        /\ worst = IF peak - path[n] > seen THEN peak - path[n] ELSE seen
        /\ peak \in Int /\ worst \in Int /\ before \in Int /\ seen \in Int
    <3>1. n \in 0..N /\ n - 1 \in 0..N
      BY <1>1
    <3>2. peak \in Int /\ worst \in Int /\ before \in Int /\ seen \in Int
      BY <1>3, <3>1
    <3>3. QED
      BY <1>4, <3>2
  <2>3. PICK k \in 1..N : (k <= n - 1 \/ k = 1) /\ before = path[k]
    BY <2>1
  <2>4. PICK a, b \in 1..N : (b <= n - 1 \/ b = 1) /\ a <= b /\ seen = path[a] - path[b]
    BY <2>1
  <2>5. /\ \A i \in 1..N : i <= n - 1 => path[i] <= before
        /\ \A i, j \in 1..N : i <= j /\ j <= n - 1 => path[i] - path[j] <= seen
    BY <2>1
  <2> HIDE DEF Reached, peak, worst, before, seen
  <2>6. PICK top \in 1..N : top <= n /\ peak = path[top]
    BY <1>1, <2>2, <2>3
  <2>7. \A i \in 1..N : i <= n => path[i] <= peak
    <3> SUFFICES ASSUME NEW i \in 1..N, i <= n PROVE path[i] <= peak
      OBVIOUS
    <3>1. CASE i = n
      BY <2>1, <2>2, <3>1
    <3>2. CASE i # n
      BY <1>1, <2>2, <2>5, <3>2
    <3>3. QED
      BY <3>1, <3>2
  <2>8. \E i, j \in 1..N : (j <= n \/ j = 1) /\ i <= j /\ worst = path[i] - path[j]
    <3>1. CASE peak - path[n] > seen
      <4>1. top <= n /\ worst = path[top] - path[n]
        BY <2>2, <2>6, <3>1
      <4>2. QED
        BY <4>1
    <3>2. CASE ~(peak - path[n] > seen)
      <4>1. (b <= n \/ b = 1) /\ a <= b /\ worst = path[a] - path[b]
        BY <1>1, <2>2, <2>4, <3>2
      <4>2. QED
        BY <4>1
    <3>3. QED
      BY <3>1, <3>2
  <2>9. \A i, j \in 1..N : i <= j /\ j <= n => path[i] - path[j] <= worst
    <3> SUFFICES ASSUME NEW i \in 1..N, NEW j \in 1..N, i <= j, j <= n
                 PROVE  path[i] - path[j] <= worst
      OBVIOUS
    <3>1. path[i] \in Int /\ path[j] \in Int
      BY <1>1
    <3>2. CASE j = n
      <4>1. path[i] <= peak /\ path[j] = path[n] /\ peak - path[n] <= worst
        BY <2>1, <2>2, <2>7, <3>2
      <4>2. ASSUME NEW x \in Int, NEW y \in Int, NEW p \in Int, NEW q \in Int,
                   x <= p, p - y <= q
            PROVE  x - y <= q
        BY <4>2
      <4>3. QED
        BY <2>2, <3>1, <4>1, <4>2
    <3>3. CASE j # n
      <4>1. path[i] - path[j] <= seen
        BY <1>1, <2>5, <3>3
      <4>2. QED
        BY <2>1, <2>2, <3>1, <4>1
    <3>4. QED
      BY <3>2, <3>3
  <2>10. Reached(n)
    BY <1>1, <2>6, <2>7, <2>8, <2>9 DEF Reached, peak, worst
  <2>11. QED
    BY <2>10
<1>7. Reached(N) /\ WorstDrawdown(path) = r[N].worst /\ r[N].worst \in Int
  <2>1. \A n \in 0..N : n \in S
    <3> HIDE DEF S
    <3>1. QED
      BY <1>1, <1>5, <1>6, IntervalInduction
  <2>2. N \in 0..N
    BY <1>1
  <2>3. WorstDrawdown(path) = r[N].worst
    BY DEF WorstDrawdown, r, N
  <2>4. QED
    BY <1>3, <2>1, <2>2, <2>3
<1>8. QED
  BY <1>1, <1>7 DEF IsWorstFall, N

(* The list that won and those that did not, or the two directions, share  *)
(* out the ledger.                                                           *)
LEMMA PartsAddUp ==
    ASSUME NEW N \in Nat, NEW A, NEW B, A \cup B = 1..N, A \cap B = {}
    PROVE  Cardinality(A) + Cardinality(B) = N /\ Cardinality(A) \in Nat /\ Cardinality(B) \in Nat
<1>1. IsFiniteSet(1..N) /\ Cardinality(1..N) = N
  BY FS_Interval
<1>2. IsFiniteSet(A) /\ IsFiniteSet(B)
  BY <1>1, FS_Subset
<1>3. Cardinality(A) \in Nat /\ Cardinality(B) \in Nat /\ Cardinality({}) = 0
  BY <1>2, FS_CardinalityType, FS_EmptySet
<1>4. Cardinality(A \cup B) = Cardinality(A) + Cardinality(B) - Cardinality(A \cap B)
  BY <1>2, FS_Union
<1>5. N = Cardinality(A) + Cardinality(B) - 0
  BY <1>1, <1>3, <1>4
<1>6. QED
  BY <1>3, <1>5

LEMMA ResultsAddUp ==
    ASSUME NEW list \in Seq(TradeRec)
    PROVE  /\ Cardinality(Result(list, TRUE)) + Cardinality(Result(list, FALSE)) = Len(list)
           /\ Cardinality(Sided(list, "LONG")) + Cardinality(Sided(list, "SHORT")) = Len(list)
<1>1. \A i \in DOMAIN list : list[i].direction \in Directions
  <2>1. \A i \in DOMAIN list : list[i] \in TradeRec
    OBVIOUS
  <2>2. QED
    BY <2>1 DEF TradeRec
<1>2. DOMAIN list = 1..Len(list) /\ Len(list) \in Nat
  OBVIOUS
<1>3. /\ Result(list, TRUE) \cup Result(list, FALSE) = 1..Len(list)
      /\ Result(list, TRUE) \cap Result(list, FALSE) = {}
  BY <1>2 DEF Result, Won
<1>4. /\ Sided(list, "LONG") \cup Sided(list, "SHORT") = 1..Len(list)
      /\ Sided(list, "LONG") \cap Sided(list, "SHORT") = {}
  BY <1>1, <1>2 DEF Sided, Directions
<1>5. QED
  BY <1>2, <1>3, <1>4, PartsAddUp

LEMMA StreakIsAtMostTheResult ==
    ASSUME NEW list \in Seq(TradeRec), NEW winning \in BOOLEAN
    PROVE  LongestRun(list, winning) <= Cardinality(Result(list, winning))
<1> DEFINE N == Len(list)
           r == Streaks(list, winning)
           W == Result(list, winning)
           Till(n) == {i \in W : i <= n}
           C(n) == Cardinality(Till(n))
           S == {n \in 0..N : r[n].run <= C(n) /\ r[n].best <= C(n)}
<1>1. N \in Nat
  OBVIOUS
<1>2. IsStreaks(r, list, winning)
  BY StreaksRun
<1>3. /\ \A n \in 0..N : r[n].run \in Int /\ r[n].best \in Int
      /\ r[0].run = 0 /\ r[0].best = 0
  BY <1>2 DEF IsStreaks
<1>4. \A n \in 1..N :
         /\ r[n].run = IF n \in W THEN r[n-1].run + 1 ELSE 0
         /\ r[n].best = IF r[n].run > r[n-1].best THEN r[n].run ELSE r[n-1].best
  BY <1>2 DEF IsStreaks, Result
<1>5. W \subseteq 1..N
  BY DEF Result
<1> HIDE DEF N, r, W
<1>6. \A n \in 0..N : IsFiniteSet(Till(n)) /\ C(n) \in Nat
  <2> SUFFICES ASSUME NEW n \in 0..N PROVE IsFiniteSet(Till(n)) /\ C(n) \in Nat
    OBVIOUS
  <2>1. IsFiniteSet(1..N)
    BY <1>1, FS_Interval
  <2>2. IsFiniteSet(Till(n))
    BY <1>5, <2>1, FS_Subset
  <2> HIDE DEF Till
  <2>3. QED
    BY <2>2, FS_CardinalityType
<1>7. \A n \in 1..N : C(n) = IF n \in W THEN C(n-1) + 1 ELSE C(n-1)
  <2> SUFFICES ASSUME NEW n \in 1..N PROVE C(n) = IF n \in W THEN C(n-1) + 1 ELSE C(n-1)
    OBVIOUS
  <2>1. n - 1 \in 0..N /\ n \notin Till(n-1)
    BY <1>1
  <2> \A i \in W : i \in Int /\ (i <= n <=> i <= n - 1 \/ i = n)
    BY <1>1, <1>5
  <2>2. n \in W => Till(n) = Till(n-1) \cup {n}
    OBVIOUS
  <2>3. n \notin W => Till(n) = Till(n-1)
    OBVIOUS
  <2>4. IsFiniteSet(Till(n-1))
    BY <1>6, <2>1
  <2> HIDE DEF Till
  <2>5. QED
    BY <2>1, <2>2, <2>3, <2>4, FS_AddElement
<1> HIDE DEF C
<1>8. 0 \in S
  <2>1. 0 \in 0..N /\ C(0) \in Nat
    <3>1. 0 \in 0..N
      BY <1>1
    <3>2. QED
      BY <1>6, <3>1, Zenon
  <2>2. r[0].run <= C(0) /\ r[0].best <= C(0)
    BY <1>3, <2>1
  <2>3. QED
    BY <2>1, <2>2
<1>9. ASSUME NEW n \in 1..N, n - 1 \in S PROVE n \in S
  <2>1. /\ n - 1 \in 0..N /\ n \in 0..N
        /\ r[n-1].run <= C(n-1) /\ r[n-1].best <= C(n-1)
        /\ r[n-1].run \in Int /\ r[n-1].best \in Int /\ C(n-1) \in Nat /\ C(n) \in Nat
    <3>1. n - 1 \in 0..N /\ n \in 0..N
      BY <1>1
    <3>2. r[n-1].run <= C(n-1) /\ r[n-1].best <= C(n-1)
      BY <1>9
    <3>3. QED
      BY <1>3, <1>6, <3>1, <3>2
  <2>2. r[n].run <= C(n) /\ r[n].best <= C(n)
    BY <1>4, <1>7, <2>1
  <2>3. QED
    BY <2>1, <2>2
<1>10. r[N].best <= C(N)
  <2> HIDE DEF S
  <2>1. \A n \in 0..N : n \in S
    BY <1>1, <1>8, <1>9, IntervalInduction
  <2>2. QED
    BY <1>1, <2>1 DEF S
<1>11. Till(N) = W
  <2>1. \A i \in W : i <= N
    BY <1>1, <1>5
  <2>2. QED
    BY <2>1
<1>12. QED
  BY <1>10, <1>11 DEF LongestRun, r, N, C, W

(* e is the curve of the ledger from start: one step by each trade's net.  *)
IsCurve(e, start, list) ==
    /\ e \in Seq(Int) /\ Len(e) = Len(list) + 1 /\ e[1] = start
    /\ \A n \in 1..Len(list) : e[n + 1] = e[n] + list[n].net

LEMMA FieldsAreInts ==
    ASSUME NEW list \in Seq(TradeRec)
    PROVE  /\ Len(list) \in Nat
           /\ Each(list, "net") \in Seq(Int) /\ Each(list, "fees") \in Seq(Int)
           /\ GrossOf(list, TRUE) \in Seq(Int) /\ GrossOf(list, FALSE) \in Seq(Int)
           /\ Len(Each(list, "net")) = Len(list) /\ Len(Each(list, "fees")) = Len(list)
           /\ Len(GrossOf(list, TRUE)) = Len(list) /\ Len(GrossOf(list, FALSE)) = Len(list)
<1>1. \A i \in 1..Len(list) : list[i] \in TradeRec
  OBVIOUS
<1>2. \A i \in 1..Len(list) :
         list[i].net \in Int /\ list[i].fees \in Int /\ list[i].gross \in Int
  BY <1>1 DEF TradeRec
<1>3. DOMAIN list = 1..Len(list) /\ Len(list) \in Nat
  OBVIOUS
<1>4. /\ Each(list, "net") \in [1..Len(list) -> Int]
      /\ Each(list, "fees") \in [1..Len(list) -> Int]
      /\ GrossOf(list, TRUE) \in [1..Len(list) -> Int]
      /\ GrossOf(list, FALSE) \in [1..Len(list) -> Int]
  BY <1>2, <1>3 DEF Each, GrossOf
<1>5. ASSUME NEW s \in [1..Len(list) -> Int] PROVE s \in Seq(Int) /\ Len(s) = Len(list)
  BY <1>3
<1>6. QED
  BY <1>3, <1>4, <1>5

LEMMA NetIsTheRise ==
    ASSUME NEW list \in Seq(TradeRec), NEW start \in Int, NEW e, IsCurve(e, start, list)
    PROVE  Total(Each(list, "net")) = e[Len(list) + 1] - start
<1> DEFINE N == Len(list)
           nets == Each(list, "net")
           r == Sums(0, nets)
           S == {n \in 0..N : r[n] = e[n + 1] - start}
<1>1. N \in Nat /\ nets \in Seq(Int) /\ Len(nets) = N
  BY FieldsAreInts, Zenon
<1>2. IsSums(r, 0, nets)
  BY <1>1, SumsRun
<1>3. /\ \A n \in 1..N : nets[n] = list[n].net
      /\ \A n \in 1..N : nets[n] \in Int
  BY <1>1 DEF Each
<1>4. /\ \A n \in 1..(N+1) : e[n] \in Int
      /\ \A n \in 1..N : e[n + 1] = e[n] + list[n].net
      /\ e[1] = start
  BY DEF IsCurve
<1>5. Total(nets) = r[N]
  BY <1>1 DEF Total
<1> HIDE DEF N, nets, r
<1>6. /\ \A n \in 0..N : r[n] \in Int
      /\ r[0] = 0 /\ \A n \in 1..N : r[n] = r[n-1] + nets[n]
  BY <1>1, <1>2 DEF IsSums
<1>7. 0 \in S
  BY <1>1, <1>4, <1>6
<1>8. ASSUME NEW n \in 1..N, n - 1 \in S PROVE n \in S
  <2>1. n - 1 \in 0..N /\ n \in 0..N /\ (n - 1) + 1 = n /\ n \in 1..(N+1) /\ n + 1 \in 1..(N+1)
    BY <1>1
  <2>2. r[n-1] = e[n] - start
    BY <1>8, <2>1
  <2>3. r[n] = r[n-1] + nets[n] /\ e[n+1] = e[n] + nets[n]
    BY <1>3, <1>4, <1>6
  <2>4. e[n] \in Int /\ nets[n] \in Int
    BY <1>3, <1>4, <2>1
  <2>5. r[n] = e[n + 1] - start
    BY <2>2, <2>3, <2>4
  <2>6. QED
    BY <2>1, <2>5
<1>9. r[N] = e[N + 1] - start
  <2> HIDE DEF S
  <2>1. \A n \in 0..N : n \in S
    BY <1>1, <1>7, <1>8, IntervalInduction
  <2>2. N \in S
    BY <1>1, <2>1
  <2>3. QED
    BY <2>2 DEF S
<1>10. QED
  BY <1>5, <1>9 DEF N, nets

(* The gross profit and loss of the list, less the fees, is their net.   *)
LEMMA TotalsAddUp ==
    ASSUME NEW list \in Seq(TradeRec),
           \A n \in 1..Len(list) : list[n].gross - list[n].fees = list[n].net
    PROVE  /\ Total(GrossOf(list, TRUE)) \in Int /\ Total(GrossOf(list, FALSE)) \in Int
           /\ Total(Each(list, "fees")) \in Int
           /\ Total(GrossOf(list, TRUE)) + Total(GrossOf(list, FALSE))
                - Total(Each(list, "fees")) = Total(Each(list, "net"))
<1> DEFINE N == Len(list)
           won == GrossOf(list, TRUE)
           lost == GrossOf(list, FALSE)
           fees == Each(list, "fees")
           nets == Each(list, "net")
           p == Sums(0, won)
           l == Sums(0, lost)
           f == Sums(0, fees)
           r == Sums(0, nets)
           S == {n \in 0..N : p[n] + l[n] - f[n] = r[n]}
<1>1. /\ N \in Nat /\ won \in Seq(Int) /\ lost \in Seq(Int) /\ fees \in Seq(Int) /\ nets \in Seq(Int)
      /\ Len(won) = N /\ Len(lost) = N /\ Len(fees) = N /\ Len(nets) = N
  BY FieldsAreInts, Zenon
<1>2. ASSUME NEW n \in 1..N
      PROVE  won[n] + lost[n] - fees[n] = nets[n]
  <2>1. list[n] \in TradeRec
    OBVIOUS
  <2> DEFINE gross == list[n].gross
             fee == list[n].fees
             net == list[n].net
             both == won[n] + lost[n]
  <2>2. gross \in Int /\ fee \in Int /\ gross - fee = net
    BY <2>1 DEF TradeRec
  <2>3. /\ won[n] = IF Won(list[n]) THEN gross ELSE 0
        /\ lost[n] = IF Won(list[n]) THEN 0 ELSE gross
        /\ fees[n] = fee /\ nets[n] = net
    BY DEF GrossOf, Each, Won
  <2> HIDE DEF gross, fee, net, won, lost, fees, nets, N
  <2>4. both = gross
    BY <2>2, <2>3
  <2>5. QED
    BY <2>2, <2>3, <2>4
<1>3. Total(won) = p[N] /\ Total(lost) = l[N] /\ Total(fees) = f[N] /\ Total(nets) = r[N]
  BY <1>1 DEF Total
<1> HIDE DEF N, won, lost, fees, nets
<1>4. IsSums(p, 0, won) /\ IsSums(l, 0, lost) /\ IsSums(f, 0, fees) /\ IsSums(r, 0, nets)
  <2>1. \A amounts \in Seq(Int) : IsSums(Sums(0, amounts), 0, amounts)
    BY SumsRun
  <2>2. QED
    BY <1>1, <2>1
<1>5. \A n \in 1..N : won[n] \in Int /\ lost[n] \in Int /\ fees[n] \in Int /\ nets[n] \in Int
  BY <1>1
<1> HIDE DEF p, l, f, r
<1>6. /\ \A n \in 0..N : p[n] \in Int /\ l[n] \in Int /\ f[n] \in Int /\ r[n] \in Int
      /\ p[0] = 0 /\ l[0] = 0 /\ f[0] = 0 /\ r[0] = 0
      /\ \A n \in 1..N : /\ p[n] = p[n-1] + won[n] /\ l[n] = l[n-1] + lost[n]
                         /\ f[n] = f[n-1] + fees[n] /\ r[n] = r[n-1] + nets[n]
  BY <1>1, <1>4 DEF IsSums
<1>7. 0 \in S
  BY <1>1, <1>6
<1>8. ASSUME NEW n \in 1..N, n - 1 \in S PROVE n \in S
  <2>1. n - 1 \in 0..N /\ n \in 0..N
    BY <1>1
  <2>2. p[n-1] + l[n-1] - f[n-1] = r[n-1]
    BY <1>8
  <2>3. /\ p[n] = p[n-1] + won[n] /\ l[n] = l[n-1] + lost[n]
        /\ f[n] = f[n-1] + fees[n] /\ r[n] = r[n-1] + nets[n]
    BY <1>6
  <2>4. /\ p[n-1] \in Int /\ l[n-1] \in Int /\ f[n-1] \in Int /\ r[n-1] \in Int
        /\ won[n] \in Int /\ lost[n] \in Int /\ fees[n] \in Int /\ nets[n] \in Int
    BY <1>5, <1>6, <2>1
  <2>5. won[n] + lost[n] - fees[n] = nets[n]
    BY <1>2
  <2> DEFINE p0 == p[n-1]
             l0 == l[n-1]
             f0 == f[n-1]
             r0 == r[n-1]
             pn == p[n]
             ln == l[n]
             fn == f[n]
             rn == r[n]
             a == won[n]
             b == lost[n]
             c == fees[n]
             d == nets[n]
  <2>6. p[n] + l[n] - f[n] = r[n]
    <3> HIDE DEF p0, l0, f0, r0, pn, ln, fn, rn, a, b, c, d
    <3>1. /\ p0 \in Int /\ l0 \in Int /\ f0 \in Int /\ r0 \in Int
          /\ a \in Int /\ b \in Int /\ c \in Int /\ d \in Int
      BY <2>4 DEF p0, l0, f0, r0, a, b, c, d
    <3>2. /\ pn = p0 + a /\ ln = l0 + b /\ fn = f0 + c /\ rn = r0 + d
          /\ p0 + l0 - f0 = r0 /\ a + b - c = d
      BY <2>2, <2>3, <2>5 DEF p0, l0, f0, r0, pn, ln, fn, rn, a, b, c, d
    <3>3. pn + ln - fn = rn
      BY <3>1, <3>2
    <3>4. QED
      BY <3>3 DEF pn, ln, fn, rn
  <2>7. QED
    BY <2>1, <2>6
<1>9. p[N] + l[N] - f[N] = r[N] /\ N \in 0..N
  <2> HIDE DEF S
  <2>1. \A n \in 0..N : n \in S
    BY <1>1, <1>7, <1>8, IntervalInduction
  <2>2. N \in S /\ N \in 0..N
    BY <1>1, <2>1
  <2>3. QED
    BY <2>2 DEF S
<1>10. QED
  BY <1>3, <1>6, <1>9 DEF won, lost, fees, nets

(* The path of a ledger is its curve.                                      *)
LEMMA PathIsCurve ==
    ASSUME NEW list \in Seq(TradeRec), NEW start \in Int
    PROVE  IsCurve(BalancePath(start, list), start, list)
<1> DEFINE N == Len(list)
           nets == Each(list, "net")
           r == Sums(start, nets)
           q == BalancePath(start, list)
<1>1. N \in Nat /\ nets \in Seq(Int) /\ Len(nets) = N
  BY FieldsAreInts, Zenon
<1>2. IsSums(r, start, nets)
  BY <1>1, SumsRun
<1>3. \A n \in 1..N : nets[n] = list[n].net
  BY <1>1 DEF Each
<1>4. q = [i \in 1..(N + 1) |-> r[i - 1]]
  BY DEF BalancePath
<1> HIDE DEF N, nets, r, q
<1>5. /\ \A n \in 0..N : r[n] \in Int
      /\ r[0] = start /\ \A n \in 1..N : r[n] = r[n-1] + nets[n]
  BY <1>1, <1>2 DEF IsSums
<1>6. \A i \in 1..(N + 1) : q[i] = r[i - 1] /\ i - 1 \in 0..N
  BY <1>1, <1>4
<1>7. q \in [1..(N + 1) -> Int]
  BY <1>4, <1>5, <1>6
<1>8. q \in Seq(Int) /\ Len(q) = N + 1 /\ q[1] = start
  <2>1. 1 \in 1..(N + 1) /\ N + 1 \in Nat
    BY <1>1
  <2>2. q \in Seq(Int) /\ Len(q) = N + 1
    BY <1>7, <2>1
  <2>3. q[1] = start
    BY <1>5, <1>6, <2>1
  <2>4. QED
    BY <2>2, <2>3
<1>9. ASSUME NEW n \in 1..N PROVE q[n + 1] = q[n] + list[n].net
  <2>1. n \in 1..(N + 1) /\ n + 1 \in 1..(N + 1) /\ (n + 1) - 1 = n
    BY <1>1
  <2>2. q[n + 1] = r[n] /\ q[n] = r[n - 1]
    BY <1>6, <2>1
  <2>3. QED
    BY <1>3, <1>5, <2>2
<1>10. QED
  BY <1>8, <1>9 DEF IsCurve, N, q

(* q is the curve e turned round, from another start.                      *)
IsTurned(q, e, start) ==
    /\ Len(q) = Len(e)
    /\ \A k \in 1..Len(e) : q[k] = start + e[Len(e)] - e[Len(e) + 1 - k]

(* The curve of a reversed ledger, from any start, is the curve turned      *)
(* round.                                                                   *)
LEMMA ReversedCurve ==
    ASSUME NEW list \in Seq(TradeRec), NEW begin \in Int, NEW start \in Int,
           NEW e, IsCurve(e, begin, list),
           NEW q, IsCurve(q, start, Reverse(list))
    PROVE  IsTurned(q, e, start)
<1> DEFINE N == Len(list)
           turned == Reverse(list)
           S == {n \in 0..N : q[n + 1] = start + e[N + 1] - e[N + 1 - n]}
<1>1. N \in Nat /\ Len(turned) = N /\ \A n \in 1..N : turned[n] = list[N - n + 1]
  BY DEF Reverse
<1>2. \A n \in 1..N : list[n].net \in Int
  <2>1. \A n \in 1..N : list[n] \in TradeRec
    OBVIOUS
  <2>2. QED
    BY <2>1 DEF TradeRec
<1> HIDE DEF N, turned
<1>3. /\ Len(e) = N + 1 /\ Len(q) = N + 1 /\ q[1] = start
      /\ \A n \in 1..(N + 1) : e[n] \in Int /\ q[n] \in Int
      /\ \A n \in 1..N : e[n + 1] = e[n] + list[n].net
      /\ \A n \in 1..N : q[n + 1] = q[n] + turned[n].net
  BY <1>1 DEF IsCurve, N, turned
<1>4. 0 \in S
  <2>1. N + 1 \in 1..(N + 1) /\ N + 1 - 0 = N + 1
    BY <1>1
  <2>2. start + e[N + 1] - e[N + 1] = start
    BY <1>3, <2>1
  <2>3. QED
    BY <1>1, <1>3, <2>1, <2>2
<1>5. ASSUME NEW n \in 1..N, n - 1 \in S PROVE n \in S
  <2> DEFINE m == N - n + 1
  <2>1. /\ n \in 0..N /\ m \in 1..N /\ m \in 1..(N + 1) /\ m + 1 \in 1..(N + 1) /\ N + 1 \in 1..(N + 1)
        /\ (n - 1) + 1 = n /\ N + 1 - (n - 1) = m + 1 /\ N + 1 - n = m
    BY <1>1
  <2> HIDE DEF m
  <2>2. q[n] = start + e[N + 1] - e[m + 1]
    BY <1>5, <2>1
  <2>3. turned[n] = list[m]
    BY <1>1 DEF m
  <2>4. q[n + 1] = q[n] + list[m].net /\ e[m + 1] = e[m] + list[m].net
    BY <1>3, <2>1, <2>3
  <2>5. e[m] \in Int /\ e[m + 1] \in Int /\ e[N + 1] \in Int /\ list[m].net \in Int
    BY <1>2, <1>3, <2>1
  <2>6. q[n + 1] = start + e[N + 1] - e[m]
    <3> DEFINE last == e[N + 1]
               here == e[m]
               net == list[m].net
    <3>1. q[n + 1] = start + last - (here + net) + net
      BY <2>2, <2>4
    <3>2. last \in Int /\ here \in Int /\ net \in Int
      BY <2>5
    <3> HIDE DEF last, here, net
    <3>3. start + last - (here + net) + net = start + last - here
      BY <3>2
    <3>4. QED
      BY <3>1, <3>3 DEF last, here
  <2>7. QED
    BY <2>1, <2>6
<1>6. \A n \in 0..N : q[n + 1] = start + e[N + 1] - e[N + 1 - n]
  <2> HIDE DEF S
  <2>1. \A n \in 0..N : n \in S
    BY <1>1, <1>4, <1>5, IntervalInduction
  <2>2. QED
    BY <2>1 DEF S
<1>7. ASSUME NEW k \in 1..(N + 1)
      PROVE  q[k] = start + e[N + 1] - e[N + 1 + 1 - k]
  <2>1. k - 1 \in 0..N /\ (k - 1) + 1 = k /\ N + 1 - (k - 1) = N + 1 + 1 - k
    BY <1>1
  <2>2. q[(k - 1) + 1] = start + e[N + 1] - e[N + 1 - (k - 1)]
    BY <1>6, <2>1
  <2>3. QED
    BY <2>1, <2>2
<1>8. QED
  BY <1>3, <1>7 DEF IsTurned

(* A curve turned round falls as far.                                      *)
LEMMA SameFalls ==
    ASSUME NEW start \in Int, NEW e \in Seq(Int), NEW q \in Seq(Int), Len(q) = Len(e), e # <<>>,
           \A k \in 1..Len(e) : q[k] = start + e[Len(e)] - e[Len(e) + 1 - k],
           NEW w \in Int, IsWorstFall(w, e)
    PROVE  IsWorstFall(w, q)
<1> DEFINE N == Len(e)
           Turn(k) == N + 1 - k
<1>1. N \in Nat \ {0} /\ \A k \in 1..N : e[k] \in Int /\ q[k] \in Int
  OBVIOUS
<1> HIDE DEF N
<1>2. \A i, j \in 1..N : /\ Turn(i) \in 1..N /\ Turn(Turn(i)) = i
                         /\ i <= j => Turn(j) <= Turn(i)
  BY <1>1
<1>3. \A k \in 1..N : q[k] = start + e[N] - e[Turn(k)]
  BY DEF N
<1> HIDE DEF Turn
<1>4. \A i, j \in 1..N : q[i] - q[j] = e[Turn(j)] - e[Turn(i)]
  <2> SUFFICES ASSUME NEW i \in 1..N, NEW j \in 1..N
               PROVE  q[i] - q[j] = e[Turn(j)] - e[Turn(i)]
    OBVIOUS
  <2>1. N \in 1..N
    BY <1>1
  <2>2. e[N] \in Int /\ e[Turn(i)] \in Int /\ e[Turn(j)] \in Int
    BY <1>1, <1>2, <2>1
  <2>3. q[i] = start + e[N] - e[Turn(i)] /\ q[j] = start + e[N] - e[Turn(j)]
    BY <1>3
  <2> DEFINE last == e[N]
             ti == e[Turn(i)]
             tj == e[Turn(j)]
  <2> HIDE DEF last, ti, tj
  <2>4. last \in Int /\ ti \in Int /\ tj \in Int
    BY <2>2 DEF last, ti, tj
  <2>5. (start + last - ti) - (start + last - tj) = tj - ti
    BY <2>4
  <2>6. q[i] - q[j] = (start + last - ti) - (start + last - tj)
    BY <2>3 DEF last, ti, tj
  <2>7. QED
    BY <2>5, <2>6 DEF ti, tj
<1>5. /\ \E i, j \in 1..N : i <= j /\ w = e[i] - e[j]
      /\ \A i, j \in 1..N : i <= j => e[i] - e[j] <= w
  BY DEF IsWorstFall, N
<1>6. \E i, j \in 1..N : i <= j /\ w = q[i] - q[j]
  <2>1. PICK i, j \in 1..N : i <= j /\ w = e[i] - e[j]
    BY <1>5
  <2>2. Turn(i) \in 1..N /\ Turn(j) \in 1..N /\ Turn(j) <= Turn(i)
    BY <1>2, <2>1
  <2>3. q[Turn(j)] - q[Turn(i)] = e[Turn(Turn(i))] - e[Turn(Turn(j))]
    BY <1>4, <2>2
  <2>4. w = q[Turn(j)] - q[Turn(i)]
    BY <1>2, <2>1, <2>3
  <2>5. QED
    BY <2>2, <2>4
<1>7. \A i, j \in 1..N : i <= j => q[i] - q[j] <= w
  BY <1>2, <1>4, <1>5
<1>8. QED
  BY <1>6, <1>7 DEF IsWorstFall, N

LEMMA ReversedResult ==
    ASSUME NEW list \in Seq(TradeRec), NEW winning \in BOOLEAN
    PROVE  Cardinality(Result(Reverse(list), winning)) = Cardinality(Result(list, winning))
<1> DEFINE N == Len(list)
           turned == Reverse(list)
           A == Result(list, winning)
           B == Result(turned, winning)
           f == [i \in A |-> N - i + 1]
<1>1. /\ N \in Nat /\ DOMAIN list = 1..N /\ DOMAIN turned = 1..N
      /\ \A n \in 1..N : turned[n] = list[N - n + 1]
  BY DEF Reverse
<1>2. /\ \A i : i \in A <=> i \in 1..N /\ Won(list[i]) = winning
      /\ \A i : i \in B <=> i \in 1..N /\ Won(turned[i]) = winning
  BY <1>1 DEF Result
<1> HIDE DEF N, turned, A, B
<1>3. \A i \in 1..N : N - i + 1 \in 1..N /\ N - (N - i + 1) + 1 = i
  BY <1>1
<1>4. \A i \in 1..N : (i \in A <=> N - i + 1 \in B) /\ (i \in B <=> N - i + 1 \in A)
  BY <1>1, <1>2, <1>3
<1>5. f \in Injection(A, B)
  <2>1. f \in [A -> B]
    BY <1>2, <1>4
  <2>2. \A a, b \in A : N - a + 1 = N - b + 1 => a = b
    BY <1>1, <1>2
  <2>3. QED
    BY <2>1, <2>2 DEF Injection, IsInjective
<1>6. f \in Surjection(A, B)
  <2>1. f \in [A -> B]
    BY <1>2, <1>4
  <2>2. ASSUME NEW b \in B PROVE \E a \in A : f[a] = b
    <3>1. b \in 1..N /\ N - b + 1 \in A
      BY <1>2, <1>4
    <3>2. f[N - b + 1] = b
      BY <1>3, <3>1
    <3>3. QED
      BY <3>1, <3>2
  <2>3. QED
    BY <2>1, <2>2 DEF Surjection
<1>7. ExistsBijection(A, B)
  BY <1>5, <1>6 DEF ExistsBijection, Bijection
<1>8. IsFiniteSet(A)
  <2>1. IsFiniteSet(1..N)
    BY <1>1, FS_Interval
  <2>2. A \subseteq 1..N
    BY <1>2
  <2>3. QED
    BY <2>1, <2>2, FS_Subset
<1>9. QED
  BY <1>7, <1>8, FS_Bijection DEF A, B, turned

-------------------------------------------------------------------------------
USE ReplayAssumption, BacktestAssumption, MoneyAssumption, AnswersAssumption

-------------------------------------------------------------------------------
(* Types *)

Outcomes == {"TP_HIT", "SL_HIT"}

SignalRec ==
    [direction : Directions, entry : Int, stop : Int, take : Int,
     entered : BOOLEAN, fill : Int, quantity : Int, atBalance : Int]

(* A signal in a position was sized on the fill and the balance it keeps;  *)
(* one that is pending, or whose position was refused, has none.           *)
SizedBy(signal) ==
    \/ signal.fill = 0 /\ signal.quantity = 0 /\ signal.atBalance = 0
    \/ /\ signal.entered
       /\ Sizable(signal.atBalance, signal.fill, signal.stop)
       /\ signal.quantity = Quantity(signal.atBalance, signal.fill, signal.stop)

EngineTyped ==
    /\ active \in SignalRec \cup {None}
    /\ active # None => SizedBy(active)
    /\ balance \in Int
    /\ trades \in Seq(TradeRec)

LiveTyped ==
    /\ live \in [signal : SignalRec \cup {None}, fresh : BOOLEAN,
                 closing : Outcomes \cup {"no"}, balance : Int,
                 trades : Seq(TradeRec), up : BOOLEAN]
    /\ live.signal # None => SizedBy(live.signal)
    /\ verdict \in Analyses \cup {None}

(* A booking is in progress exactly while the daemon is down. *)
Bookkeeping ==
    /\ live.up <=> live.closing = "no"
    /\ ~live.up => live.signal # None

Sound == EngineTyped /\ LiveTyped /\ Bookkeeping

-------------------------------------------------------------------------------
(* What the live side is due to hold *)

Opened(signal, amount) ==
    LET fill == Filled(signal.entry, signal.direction, TRUE)
    IN  [signal EXCEPT !.entered = TRUE,
                       !.fill = fill,
                       !.quantity = Quantity(amount, fill, signal.stop),
                       !.atBalance = amount]

Holding(signal, amount, booked) == [signal |-> signal, balance |-> amount, trades |-> booked]

Settled(signal, outcome, amount, booked) ==
    LET trade == TradeOf(signal, outcome)
    IN  Holding(None, amount + trade.net, <<trade>> \o booked)

(* After one candle. *)
After(signal, c, amount, booked) ==
    IF signal # None /\ ~signal.entered /\ EvaluateEntry(signal, c) = "ENTRY_HIT"
      THEN Holding(Opened(signal, amount), amount, booked)
    ELSE IF signal # None /\ signal.entered /\ EvaluateCandle(signal, c) \in Outcomes
      THEN Settled(signal, EvaluateCandle(signal, c), amount, booked)
    ELSE Holding(signal, amount, booked)

Due ==
    IF ~live.up THEN Settled(live.signal, live.closing, live.balance, live.trades)
    ELSE IF ~polled /\ live.fresh THEN After(live.signal, candle, live.balance, live.trades)
    ELSE Holding(live.signal, live.balance, live.trades)

(* A candle closed since a signal that is in a position was created. *)
Aged == Together /\ live.signal # None /\ live.signal.entered => live.fresh

Tracks ==
    Together /\ status # "failed" =>
        /\ Due.balance = balance
        /\ Due.trades = Reverse(trades)
        /\ verdict = None => Due.signal = active
        /\ verdict # None => Due.signal = None /\ active \in {None, Signal(verdict)}

-------------------------------------------------------------------------------
(* Arithmetic *)

(* What is at most a rounded quotient is, times the divisor, at most the   *)
(* dividend.                                                               *)
LEMMA DivisionRoundsDown ==
    ASSUME NEW total \in Int, NEW share \in Int, share > 0,
           NEW part \in Int, part <= total \div share
    PROVE  share * part <= total
<1> DEFINE quotient == total \div share
<1>1. quotient \in Int /\ share * quotient <= total /\ quotient - part >= 0
  OBVIOUS
<1> HIDE DEF quotient
<1>2. share * (quotient - part) >= 0
  BY <1>1
<1>3. QED
  BY <1>1, <1>2

(* Fills, fees and results of whole prices are whole. *)
LEMMA FillIsInt ==
    ASSUME NEW level \in Int, NEW direction, NEW entering
    PROVE  Filled(level, direction, entering) \in Int
BY DEF Filled, ValidConfig

LEMMA QuantityIsInt ==
    ASSUME NEW amount \in Int, NEW entry \in Int, NEW stop \in Int,
           Sizable(amount, entry, stop)
    PROVE  Quantity(amount, entry, stop) \in Int
BY DEF Quantity, RiskQuantity, MarginQuantity, Distance, Sizable, ValidConfig

(* resolve_quantity caps what a stop costs and what the position is worth. *)
LEMMA QuantityIsCapped ==
    ASSUME NEW amount \in Int, NEW entry \in Int, NEW stop \in Int,
           Sizable(amount, entry, stop)
    PROVE  /\ 100 * Distance(entry, stop) * Quantity(amount, entry, stop)
                  <= RiskPercent * amount
           /\ Quantity(amount, entry, stop) * entry <= Margin * Leverage
<1> DEFINE quantity == Quantity(amount, entry, stop)
           far == 100 * Distance(entry, stop)
<1>1. quantity \in Int
  BY QuantityIsInt
<1>2. far \in Int /\ far > 0 /\ entry > 0
  BY DEF Distance, Sizable
<1>3. amount * RiskPercent \in Int /\ Margin * Leverage \in Int
  BY DEF ValidConfig
<1>4. quantity <= (amount * RiskPercent) \div far /\ quantity <= (Margin * Leverage) \div entry
  <2>1. (amount * RiskPercent) \div far \in Int /\ (Margin * Leverage) \div entry \in Int
    BY <1>2, <1>3
  <2>2. QED
    BY <2>1 DEF Quantity, RiskQuantity, MarginQuantity
<1> HIDE DEF quantity, far
<1>5. far * quantity <= amount * RiskPercent
  BY <1>1, <1>2, <1>3, <1>4, DivisionRoundsDown
<1>6. entry * quantity <= Margin * Leverage
  BY <1>1, <1>2, <1>3, <1>4, DivisionRoundsDown
<1>7. far * quantity <= RiskPercent * amount /\ quantity * entry <= Margin * Leverage
  BY <1>1, <1>2, <1>5, <1>6 DEF ValidConfig
<1>8. QED
  BY <1>7 DEF quantity, far

LEMMA FeeIsInt ==
    ASSUME NEW price \in Int, NEW quantity \in Int
    PROVE  Fee(price, quantity) \in Int
<1>1. price * quantity * FeeRate \in Int
  BY DEF ValidConfig
<1>2. QED
  BY <1>1 DEF Fee

LEMMA TradeIsTyped ==
    ASSUME NEW signal \in SignalRec, NEW outcome
    PROVE  TradeOf(signal, outcome) \in TradeRec
<1> DEFINE direction == signal.direction
           fill == signal.fill
           quantity == signal.quantity
           exit == Filled(ExitLevel(signal, outcome), direction, FALSE)
<1>1. ExitLevel(signal, outcome) \in Int
  BY DEF ExitLevel, SignalRec
<1>2. exit \in Int
  BY <1>1, FillIsInt
<1>3. direction \in Directions /\ fill \in Int /\ quantity \in Int
  BY DEF SignalRec
<1>4. TradeOf(signal, outcome) =
        [direction |-> direction,
         gross |-> Gross(direction, fill, exit, quantity),
         fees  |-> Fee(fill, quantity) + Fee(exit, quantity),
         net   |-> Net(direction, fill, exit, quantity)]
  BY Zenon DEF TradeOf
<1> HIDE DEF direction, fill, quantity, exit
<1>5. Fee(fill, quantity) \in Int /\ Fee(exit, quantity) \in Int
  BY <1>2, <1>3, FeeIsInt
<1>6. Gross(direction, fill, exit, quantity) \in Int
  BY <1>2, <1>3 DEF Gross
<1>7. Net(direction, fill, exit, quantity) \in Int
  BY <1>5, <1>6 DEF Net
<1>8. QED
  BY <1>3, <1>4, <1>5, <1>6, <1>7 DEF TradeRec

LEMMA OpenedIsTyped ==
    ASSUME NEW signal \in SignalRec, NEW amount \in Int,
           Sizable(amount, Filled(signal.entry, signal.direction, TRUE), signal.stop)
    PROVE  /\ Opened(signal, amount) \in SignalRec
           /\ SizedBy(Opened(signal, amount))
<1> DEFINE fill == Filled(signal.entry, signal.direction, TRUE)
<1>1. fill \in Int
  BY FillIsInt DEF SignalRec
<1>2. Quantity(amount, fill, signal.stop) \in Int
  BY <1>1, QuantityIsInt DEF SignalRec
<1>3. QED
  BY <1>1, <1>2 DEF Opened, SignalRec, SizedBy

(* A valid analysis makes a well-typed signal, and the fields a backtest  *)
(* drops do not change it.                                                *)
LEMMA CoercedKeepsSignal ==
    ASSUME NEW a \in AnalysisRecords
    PROVE  /\ Coerced(a) \in AnalysisRecords
           /\ Coerced(a).decision = a.decision
           /\ Signal(Coerced(a)) = Signal(a)
<1>1. Coerced(a) \in AnalysisRecords
  BY DEF Coerced, AnalysisRecords
<1>2. /\ Coerced(a).decision = a.decision
      /\ \A field \in {"entry", "stop", "take"} : Coerced(a)[field] = a[field]
  BY DEF Coerced, AnalysisRecords
<1>3. QED
  BY <1>1, <1>2 DEF Signal, Price

LEMMA AnswersAreRecords ==
    \A a \in Analyses \cup {Waits} : a \in AnalysisRecords
<1>1. Waits \in AnalysisRecords
  BY DEF AnalysisRecords, Waits
<1>2. QED
  BY <1>1, AnswersAssumption, Zenon

LEMMA SignalIsTyped ==
    ASSUME NEW a \in AnalysisRecords, NEW guards, Valid(a, guards)
    PROVE  Signal(a) \in SignalRec /\ ~Signal(a).entered
<1>1. a.decision \in Directions
  BY DEF Valid, Directions
<1>2. ASSUME NEW field \in {"entry", "stop", "take"}
      PROVE  Price(a, field) \in Int
  <2>1. PICK price \in a[field] : price > 0
    BY DEF Valid, HasPrices
  <2>2. Price(a, field) \in a[field]
    BY <2>1 DEF Price
  <2>3. a[field] \subseteq Int
    BY DEF AnalysisRecords
  <2>4. QED
    BY <2>2, <2>3
<1>3. QED
  BY <1>1, <1>2 DEF Signal, SignalRec

LEMMA ReverseOfAppend ==
    ASSUME NEW s \in Seq(TradeRec), NEW t \in TradeRec
    PROVE  Reverse(Append(s, t)) = <<t>> \o Reverse(s)
BY DEF Reverse

LEMMA ReverseIsTyped ==
    ASSUME NEW s \in Seq(TradeRec)
    PROVE  Reverse(s) \in Seq(TradeRec)
BY DEF Reverse

-------------------------------------------------------------------------------
(* The invariant of each side *)

LEMMA InitSound ==
    ASSUME Init PROVE Sound
BY DEF Init, EngineInit, LiveInit, Sound, EngineTyped, LiveTyped, Bookkeeping, ValidRun

(* The engine's replay of a candle is one step After: nothing else touches *)
(* its position, balance or trades.                                       *)
LEMMA MinuteIsAfter ==
    ASSUME EngineTyped, NEW c, Minute(c), status' # "failed"
    PROVE  Holding(active', balance', Reverse(trades'))
             = After(active, c, balance, Reverse(trades))
<1>1. CASE WatchNothing
  BY <1>1 DEF WatchNothing, After, Holding
<1>2. CASE WatchEntry(c)
  <2>1. CASE EvaluateEntry(active, c) = "ENTRY_HIT"
    <3>1. active' = Opened(active, balance) /\ UNCHANGED <<balance, trades>>
      BY <1>2, <2>1 DEF WatchEntry, OpenPosition, Opened
    <3>2. QED
      BY <1>2, <2>1, <3>1 DEF WatchEntry, After
  <2>2. CASE EvaluateEntry(active, c) # "ENTRY_HIT"
    BY <1>2, <2>2 DEF WatchEntry, After
  <2>3. QED
    BY <2>1, <2>2
<1>3. CASE WatchExit(c)
  <2> DEFINE outcome == EvaluateCandle(active, c)
             trade == TradeOf(active, outcome)
  <2>1. CASE outcome \in Outcomes
    <3>1. active' = None /\ balance' = balance + trade.net /\ trades' = Append(trades, trade)
      BY <1>3, <2>1 DEF WatchExit, ClosePosition, Outcomes
    <3>2. trade \in TradeRec
      BY <1>3, TradeIsTyped DEF WatchExit, EngineTyped
    <3>3. Reverse(trades') = <<trade>> \o Reverse(trades)
      BY <3>1, <3>2, ReverseOfAppend DEF EngineTyped
    <3>4. QED
      BY <1>3, <2>1, <3>1, <3>3 DEF WatchExit, After, Settled
  <2>2. CASE outcome \notin Outcomes
    BY <1>3, <2>2 DEF WatchExit, After, Outcomes
  <2>3. QED
    BY <2>1, <2>2
<1>4. QED
  BY <1>1, <1>2, <1>3 DEF Minute

LEMMA MinuteKeeps ==
    ASSUME EngineTyped, NEW c, Minute(c)
    PROVE  EngineTyped'
<1>1. CASE WatchNothing
  BY <1>1 DEF WatchNothing, EngineTyped
<1>2. CASE WatchEntry(c)
  <2> DEFINE fill == Filled(active.entry, active.direction, TRUE)
  <2>1. active \in SignalRec /\ UNCHANGED <<balance, trades>>
    BY <1>2 DEF WatchEntry, EngineTyped
  <2>2. CASE Sizable(balance, fill, active.stop) /\ active' = Opened(active, balance)
    BY <2>1, <2>2, OpenedIsTyped DEF EngineTyped
  <2>3. CASE UNCHANGED active
    BY <2>1, <2>3 DEF EngineTyped
  <2>4. QED
    BY <1>2, <2>2, <2>3 DEF WatchEntry, OpenPosition, Opened
<1>3. CASE WatchExit(c)
  <2> DEFINE trade == TradeOf(active, EvaluateCandle(active, c))
  <2>1. trade \in TradeRec
    BY <1>3, TradeIsTyped DEF WatchExit, EngineTyped
  <2>2. CASE active' = None /\ balance' = balance + trade.net /\ trades' = Append(trades, trade)
    BY <2>1, <2>2 DEF EngineTyped, TradeRec
  <2>3. CASE UNCHANGED <<active, balance, trades>>
    BY <2>3 DEF EngineTyped
  <2>4. QED
    BY <1>3, <2>2, <2>3 DEF WatchExit, ClosePosition
<1>4. QED
  BY <1>1, <1>2, <1>3 DEF Minute

LEMMA JudgedIsValid ==
    ASSUME NEW a, Judge(a)
    PROVE  \/ UNCHANGED active
           \/ a.decision # "WAIT" /\ Valid(a, Guards) /\ active' = Signal(a)
BY Zenon DEF Judge

LEMMA HourKeeps ==
    ASSUME EngineTyped, NEW a \in Analyses \cup {Waits}, Decide(Coerced(a))
    PROVE  /\ EngineTyped'
           /\ active = None
           /\ a.decision = "WAIT" => active' = None
           /\ active' \in {None, Signal(a)}
<1>1. a \in AnalysisRecords
  BY AnswersAreRecords, Zenon
<1>2. /\ Coerced(a) \in AnalysisRecords /\ Coerced(a).decision = a.decision
      /\ Signal(Coerced(a)) = Signal(a)
  BY <1>1, CoercedKeepsSignal
<1>3. CASE UNCHANGED active
  <2>1. active = None /\ UNCHANGED <<balance, trades>>
    BY Zenon DEF Decide
  <2>2. QED
    BY <1>3, <2>1 DEF EngineTyped
<1>4. CASE /\ a.decision # "WAIT" /\ Valid(Coerced(a), Guards)
           /\ active' = Signal(a)
  <2>1. Signal(a) \in SignalRec
    BY <1>2, <1>4, SignalIsTyped
  <2>2. SizedBy(Signal(a))
    BY DEF SizedBy, Signal
  <2>3. QED
    <3>1. active = None /\ UNCHANGED <<balance, trades>>
      BY Zenon DEF Decide
    <3>2. QED
      BY <1>4, <2>1, <2>2, <3>1 DEF EngineTyped
<1>5. QED
  <2>1. Judge(Coerced(a)) /\ active = None
    BY Zenon DEF Decide
  <2>2. \/ UNCHANGED active
        \/ /\ Coerced(a).decision # "WAIT" /\ Valid(Coerced(a), Guards)
           /\ active' = Signal(Coerced(a))
    BY <2>1, JudgedIsValid
  <2>3. CASE UNCHANGED active
    BY <1>3, <2>1, <2>3
  <2>4. QED
    BY <1>2, <1>4, <2>2, <2>3

LEMMA EngineKeeps ==
    ASSUME Sound, EngineStep
    PROVE  Sound'
<1>1. ASSUME NEW c \in Candles, MinuteCloses(c) PROVE Sound'
  <2>1. EngineTyped'
    BY <1>1, MinuteKeeps DEF MinuteCloses, Sound
  <2>2. QED
    BY <1>1, <2>1 DEF MinuteCloses, Sound, LiveTyped, Bookkeeping
<1>2. CASE MinuteLost
  BY <1>2 DEF MinuteLost, Gap, market, Sound, EngineTyped, LiveTyped, Bookkeeping
<1>3. ASSUME NEW a \in Analyses \cup {Waits}, HourCloses(a) PROVE Sound'
  <2>1. EngineTyped'
    BY <1>3, HourKeeps DEF HourCloses, Sound
  <2>2. verdict' \in Analyses \cup {None}
    BY <1>3 DEF HourCloses, Waits
  <2>3. QED
    BY <1>3, <2>1, <2>2 DEF HourCloses, Sound, LiveTyped, Bookkeeping
<1>4. CASE HourBlocked
  BY <1>4 DEF HourBlocked, BlockActive, BlockBlackout, Block, market,
              Sound, EngineTyped, LiveTyped, Bookkeeping
<1>5. CASE EngineStops
  BY <1>5 DEF EngineStops, ProviderFails, Finish, market,
              Sound, EngineTyped, LiveTyped, Bookkeeping
<1>6. QED
  BY <1>1, <1>2, <1>3, <1>4, <1>5 DEF EngineStep

LEMMA BookKeeps ==
    ASSUME LiveTyped, live.signal # None, NEW outcome \in Outcomes, live' = Book(outcome),
           UNCHANGED verdict
    PROVE  LiveTyped' /\ Bookkeeping'
<1> DEFINE trade == TradeOf(live.signal, outcome)
<1>1. trade \in TradeRec
  BY TradeIsTyped DEF LiveTyped
<1> HIDE DEF trade
<1>2. CASE live' = [live EXCEPT !.signal = None, !.closing = "no", !.up = TRUE,
                               !.balance = @ + trade.net, !.trades = <<trade>> \o @]
  <2>1. live.balance + trade.net \in Int /\ <<trade>> \o live.trades \in Seq(TradeRec)
    BY <1>1 DEF LiveTyped, TradeRec
  <2>2. QED
    BY <1>2, <2>1 DEF LiveTyped, Bookkeeping
<1>3. CASE live' = [live EXCEPT !.closing = outcome, !.up = FALSE]
  BY <1>3 DEF LiveTyped, Bookkeeping, Outcomes
<1>4. QED
  BY <1>2, <1>3 DEF Book, trade

LEMMA LiveKeeps ==
    ASSUME Sound, LiveStep
    PROVE  Sound'
<1>1. EngineTyped'
  BY DEF LiveStep, LiveAccept, LiveReject, LiveGated, LiveEnter, LiveClose, LiveDies,
         LiveWatch, LiveCancel, Restart, engine, Sound, EngineTyped
<1>2. CASE LiveAccept
  <2>1. Signal(verdict) \in SignalRec /\ SizedBy(Signal(verdict))
    BY <1>2, SignalIsTyped DEF LiveAccept, Sound, LiveTyped, SizedBy, Signal
  <2>2. QED
    BY <1>1, <1>2, <2>1 DEF LiveAccept, Sound, LiveTyped, Bookkeeping
<1>3. CASE LiveReject \/ LiveGated
  BY <1>1, <1>3 DEF LiveReject, LiveGated, Sound, LiveTyped, Bookkeeping
<1>4. CASE LiveEnter
  <2> DEFINE signal == live.signal
             fill == Filled(signal.entry, signal.direction, TRUE)
  <2>1. signal \in SignalRec /\ SizedBy(signal) /\ ~signal.entered /\ live.balance \in Int
    BY <1>4 DEF LiveEnter, Sound, LiveTyped
  <2>2. CASE live' = [live EXCEPT !.signal = [signal EXCEPT !.entered = TRUE]]
    <3>1. /\ [signal EXCEPT !.entered = TRUE] \in SignalRec
          /\ SizedBy([signal EXCEPT !.entered = TRUE])
      BY <2>1 DEF SizedBy, SignalRec
    <3>2. QED
      BY <1>1, <1>4, <2>2, <3>1 DEF LiveEnter, Sound, LiveTyped, Bookkeeping
  <2>3. CASE /\ Sizable(live.balance, fill, signal.stop)
             /\ live' = [live EXCEPT !.signal = Opened(signal, live.balance)]
    <3>1. /\ Opened(signal, live.balance) \in SignalRec
          /\ SizedBy(Opened(signal, live.balance))
      BY <2>1, <2>3, OpenedIsTyped
    <3>2. QED
      BY <1>1, <1>4, <2>3, <3>1 DEF LiveEnter, Sound, LiveTyped, Bookkeeping
  <2>4. QED
    BY <1>4, <2>2, <2>3, Zenon DEF LiveEnter, Opened
<1>5. CASE LiveClose
  BY <1>1, <1>5, BookKeeps DEF LiveClose, Outcomes, Sound
<1>6. CASE LiveDies
  BY <1>1, <1>6 DEF LiveDies, Outcomes, Sound, LiveTyped, Bookkeeping
<1>7. CASE LiveWatch
  BY <1>1, <1>7 DEF LiveWatch, Sound, LiveTyped, Bookkeeping
<1>8. CASE LiveCancel
  BY <1>1, <1>8 DEF LiveCancel, market, Sound, LiveTyped, Bookkeeping
<1>9. CASE Restart
  <2>1. live.closing \in Outcomes /\ live.signal # None /\ UNCHANGED verdict
    BY <1>9 DEF Restart, market, Sound, LiveTyped, Bookkeeping
  <2>2. QED
    BY <1>1, <1>9, <2>1, BookKeeps DEF Restart, Sound
<1>10. QED
  BY <1>2, <1>3, <1>4, <1>5, <1>6, <1>7, <1>8, <1>9 DEF LiveStep

(* The types of both sides, for any candles and analyses: every position of *)
(* BacktestEngine and of the live engine was sized on the fill and the      *)
(* balance it keeps, and a daemon is down exactly while a booking is due.   *)
THEOREM TypesSound == Spec => []Sound
<1>1. Init => Sound
  BY InitSound
<1>2. Sound /\ [Next]_vars => Sound'
  <2> SUFFICES ASSUME Sound, [Next]_vars PROVE Sound'
    OBVIOUS
  <2>1. CASE UNCHANGED vars
    BY <2>1 DEF vars, engine, market, Sound, EngineTyped, LiveTyped, Bookkeeping
  <2>2. QED
    BY <2>1, EngineKeeps, LiveKeeps DEF Next, Done
<1>3. QED
  BY <1>1, <1>2, PTL DEF Spec

-------------------------------------------------------------------------------
(* The two histories *)

(* A booking settles what is due, whether the ledger takes the trade or the *)
(* daemon goes down over it.                                                *)
LEMMA BookSettles ==
    ASSUME LiveTyped, live.signal # None, NEW outcome \in Outcomes, live' = Book(outcome)
    PROVE  /\ Due' = Settled(live.signal, outcome, live.balance, live.trades)
           /\ live'.signal \in {None, live.signal} /\ live'.fresh = live.fresh
<1> DEFINE trade == TradeOf(live.signal, outcome)
<1>1. CASE trade.fees > 0
  <2>1. /\ live'.signal = None /\ live'.up /\ live'.fresh = live.fresh
        /\ live'.balance = live.balance + trade.net
        /\ live'.trades = <<trade>> \o live.trades
    BY <1>1 DEF Book, LiveTyped
  <2>2. QED
    BY <2>1 DEF Due, After, Settled
<1>2. CASE ~(trade.fees > 0)
  <2>1. live' = [live EXCEPT !.closing = outcome, !.up = FALSE]
    BY <1>2 DEF Book
  <2>2. QED
    BY <2>1 DEF Due, LiveTyped
<1>3. QED
  BY <1>1, <1>2

(* A candle that parts nothing moves the due state by one step After. *)
LEMMA DueAdvances ==
    ASSUME Sound, NEW c, MinuteCloses(c), ~Missed(live.signal)
    PROVE  Due' = After(Due.signal, c, Due.balance, Due.trades)
<1>1. /\ live' = [live EXCEPT !.fresh = live.signal # None]
      /\ candle' = c /\ polled' = FALSE
  BY DEF MinuteCloses
<1>2. CASE ~live.up
  BY <1>1, <1>2 DEF Due, Settled, After, Holding, Sound, LiveTyped
<1>3. CASE live.up
  <2>1. Due = Holding(live.signal, live.balance, live.trades)
    BY <1>3 DEF Due, After, Missed, Outcomes
  <2>2. Due' = After(live.signal, c, live.balance, live.trades)
    BY <1>1, <1>3 DEF Due, After, Sound, LiveTyped
  <2>3. QED
    BY <2>1, <2>2 DEF Holding
<1>4. QED
  BY <1>2, <1>3

LEMMA MinuteTracks ==
    ASSUME Sound, Tracks, NEW c, MinuteCloses(c)
    PROVE  Tracks'
<1> SUFFICES ASSUME Together', status' # "failed"
             PROVE  /\ Due'.balance = balance'
                    /\ Due'.trades = Reverse(trades')
                    /\ verdict' = None => Due'.signal = active'
                    /\ verdict' # None => Due'.signal = None /\ active' \in {None, Signal(verdict')}
  BY DEF Tracks
<1>1. Together /\ ~Missed(live.signal) /\ ~Overlooked(c)
  BY DEF MinuteCloses, Together
<1>2. Minute(c) /\ UNCHANGED verdict /\ status # "failed"
  BY DEF MinuteCloses, Minute
<1>3. Due' = After(Due.signal, c, Due.balance, Due.trades)
  BY <1>1, DueAdvances
<1>4. Holding(active', balance', Reverse(trades'))
        = After(active, c, balance, Reverse(trades))
  BY <1>2, MinuteIsAfter DEF Sound
<1>5. Due.balance = balance /\ Due.trades = Reverse(trades)
  BY <1>1, <1>2 DEF Tracks
<1>6. CASE verdict = None
  <2>1. Due' = Holding(active', balance', Reverse(trades'))
    BY <1>1, <1>2, <1>3, <1>4, <1>5, <1>6 DEF Tracks
  <2>2. QED
    BY <1>2, <1>6, <2>1 DEF Holding
<1>7. CASE verdict # None
  <2>1. Due.signal = None /\ active \in {None, Signal(verdict)}
    BY <1>1, <1>2, <1>7 DEF Tracks
  <2>2. Due' = Holding(None, balance, Reverse(trades))
    BY <1>3, <1>5, <2>1 DEF After
  <2>3. After(active, c, balance, Reverse(trades))
          = Holding(active, balance, Reverse(trades))
    <3>1. active = None \/ ~active.entered
      BY <2>1 DEF Signal
    <3>2. QED
      BY <1>1, <1>7, <3>1 DEF After, Overlooked
  <2>4. active' = active /\ balance' = balance /\ Reverse(trades') = Reverse(trades)
    BY <1>4, <2>3 DEF Holding
  <2>5. QED
    BY <1>2, <1>7, <2>1, <2>2, <2>4 DEF Holding
<1>8. QED
  BY <1>6, <1>7

LEMMA EngineTracks ==
    ASSUME Sound, Tracks, EngineStep
    PROVE  Tracks'
<1>1. ASSUME NEW c \in Candles, MinuteCloses(c) PROVE Tracks'
  BY <1>1, MinuteTracks
<1>2. CASE MinuteLost
  BY <1>2 DEF MinuteLost, Gap, market, Tracks, Due, Together
<1>3. ASSUME NEW a \in Analyses \cup {Waits}, HourCloses(a) PROVE Tracks'
  <2>1. /\ active = None /\ active' \in {None, Signal(a)}
        /\ a.decision = "WAIT" => active' = None
    BY <1>3, HourKeeps DEF HourCloses, Sound
  <2>2. UNCHANGED <<balance, trades, status, candle, polled, live, parted>>
    BY <1>3, Zenon DEF HourCloses, Decide
  <2>3. verdict' = IF a.decision = "WAIT" THEN None ELSE a
    BY <1>3 DEF HourCloses
  <2>4. Due' = Due /\ Together' = Together
    BY <2>2 DEF Due, Together
  <2>5. Together /\ status # "failed" => Due.signal = None
    BY <2>1 DEF Tracks
  <2>6. CASE a.decision = "WAIT"
    BY <2>1, <2>2, <2>3, <2>4, <2>5, <2>6 DEF Tracks
  <2>7. CASE a.decision # "WAIT"
    <3>1. verdict' = a /\ a # None
      BY <2>3, <2>7, AnswersAssumption DEF Waits
    <3>2. QED
      BY <2>1, <2>2, <2>4, <2>5, <3>1 DEF Tracks
  <2>8. QED
    BY <2>6, <2>7
<1>4. CASE HourBlocked
  BY <1>4 DEF HourBlocked, BlockActive, BlockBlackout, Block, market, Tracks, Due, Together
<1>5. CASE EngineStops
  BY <1>5 DEF EngineStops, ProviderFails, Finish, market, Tracks, Due, Together
<1>6. QED
  BY <1>1, <1>2, <1>3, <1>4, <1>5 DEF EngineStep

LEMMA LiveTracks ==
    ASSUME Sound, Aged, Tracks, LiveStep
    PROVE  Tracks'
<1> SUFFICES ASSUME Together', status' # "failed"
             PROVE  /\ Due'.balance = balance'
                    /\ Due'.trades = Reverse(trades')
                    /\ verdict' = None => Due'.signal = active'
                    /\ verdict' # None => Due'.signal = None /\ active' \in {None, Signal(verdict')}
  BY DEF Tracks
<1>1. UNCHANGED engine
  BY DEF LiveStep, LiveAccept, LiveReject, LiveGated, LiveEnter, LiveClose, LiveDies,
         LiveWatch, LiveCancel, Restart
<1>2. UNCHANGED <<active, balance, trades, status>>
  BY <1>1 DEF engine
<1>3. CASE Together /\ Due' = Due /\ UNCHANGED verdict
  BY <1>2, <1>3 DEF Tracks
<1>4. CASE LiveAccept
  <2>1. Due = Holding(None, live.balance, live.trades)
    BY <1>4 DEF LiveAccept, Due, After
  <2>2. Due' = Holding(Signal(verdict), live.balance, live.trades)
    BY <1>4 DEF LiveAccept, Due, Sound, LiveTyped
  <2>3. active = Signal(verdict) /\ verdict' = None
    BY <1>2, <1>4 DEF LiveAccept, Together, Tracks
  <2>4. QED
    BY <1>2, <1>4, <2>1, <2>2, <2>3 DEF LiveAccept, Tracks, Holding
<1>5. CASE LiveReject \/ LiveGated
  <2>1. Due' = Due /\ verdict # None /\ verdict' = None /\ Together
    BY <1>5 DEF LiveReject, LiveGated, Due
  <2>2. active = None
    BY <1>5 DEF LiveReject, LiveGated, Together
  <2>3. QED
    BY <1>2, <2>1, <2>2 DEF Tracks
<1>6. CASE LiveEnter
  <2>1. /\ live.fresh /\ live.up /\ polled' = TRUE /\ UNCHANGED verdict /\ Together
        /\ live' = [live EXCEPT !.signal = Opened(live.signal, live.balance)]
    BY <1>6, Zenon DEF LiveEnter, Together, Opened
  <2>2. Due' = Holding(Opened(live.signal, live.balance), live.balance, live.trades)
    BY <2>1 DEF Due, Sound, LiveTyped
  <2>3. Due = Holding(Opened(live.signal, live.balance), live.balance, live.trades)
    BY <1>6, <2>1 DEF LiveEnter, Due, After
  <2>4. QED
    BY <1>3, <2>1, <2>2, <2>3
<1>7. CASE LiveClose \/ LiveDies
  <2> DEFINE outcome == EvaluateCandle(live.signal, candle)
  <2>1. /\ Together /\ live.up /\ ~polled /\ live.signal # None /\ live.signal.entered
        /\ outcome \in Outcomes /\ UNCHANGED verdict
    BY <1>7 DEF LiveClose, LiveDies, Outcomes
  <2>2. Due = Settled(live.signal, outcome, live.balance, live.trades)
    BY <2>1 DEF Aged, Due, After
  <2>3. Due' = Settled(live.signal, outcome, live.balance, live.trades)
    <3>1. CASE LiveClose
      BY <2>1, <3>1, BookSettles DEF LiveClose, Sound
    <3>2. CASE LiveDies
      BY <3>2 DEF LiveDies, Due, Sound, LiveTyped
    <3>3. QED
      BY <1>7, <3>1, <3>2
  <2>4. QED
    BY <1>3, <2>1, <2>2, <2>3
<1>8. CASE LiveWatch
  <2>1. Due = Holding(live.signal, live.balance, live.trades)
    BY <1>8 DEF LiveWatch, Due, After, Outcomes
  <2>2. Due' = Holding(live.signal, live.balance, live.trades)
    BY <1>8 DEF LiveWatch, Due
  <2>3. QED
    BY <1>3, <1>8, <2>1, <2>2 DEF LiveWatch
<1>9. CASE LiveCancel
  BY <1>9 DEF LiveCancel, Together
<1>10. CASE Restart
  <2>1. live.closing \in Outcomes /\ live.signal # None /\ ~live.up
    BY <1>10 DEF Restart, Sound, LiveTyped, Bookkeeping
  <2>2. Due = Settled(live.signal, live.closing, live.balance, live.trades)
    BY <2>1 DEF Due
  <2>3. Due' = Settled(live.signal, live.closing, live.balance, live.trades)
    BY <1>10, <2>1, BookSettles DEF Restart, Sound
  <2>4. QED
    BY <1>3, <1>10, <2>2, <2>3 DEF Restart, market, Together
<1>11. QED
  BY <1>4, <1>5, <1>6, <1>7, <1>8, <1>9, <1>10 DEF LiveStep

LEMMA NextAged ==
    ASSUME Sound, Aged, Next
    PROVE  Aged'
<1> SUFFICES ASSUME Together', live'.signal # None, live'.signal.entered
             PROVE  live'.fresh
  BY DEF Aged
<1>1. ASSUME NEW c \in Candles, MinuteCloses(c) PROVE live'.fresh
  BY <1>1 DEF MinuteCloses, Sound, LiveTyped
<1>2. CASE UNCHANGED <<live, parted>>
  BY <1>2 DEF Aged, Together
<1>3. CASE HourBlocked
  BY <1>3 DEF HourBlocked, Aged, Together
<1>4. CASE LiveAccept
  BY <1>4 DEF LiveAccept, Signal, Sound, LiveTyped
<1>5. CASE LiveReject \/ LiveGated
  BY <1>5 DEF LiveReject, LiveGated, Aged
<1>6. CASE LiveEnter
  <2>1. /\ live.fresh
        /\ live' = [live EXCEPT !.signal = Opened(live.signal, live.balance)]
    BY <1>6, Zenon DEF LiveEnter, Together, Opened
  <2>2. QED
    BY <2>1 DEF Sound, LiveTyped
<1>7. CASE LiveClose
  <2>1. live'.fresh = live.fresh /\ live'.signal \in {None, live.signal}
    BY <1>7, BookSettles DEF LiveClose, Outcomes, Sound
  <2>2. QED
    BY <1>7, <2>1 DEF LiveClose, Aged
<1>8. CASE LiveDies
  BY <1>8 DEF LiveDies, Aged, Sound, LiveTyped
<1>9. CASE LiveCancel
  BY <1>9 DEF LiveCancel, Together
<1>10. CASE Restart
  <2>1. live'.fresh = live.fresh /\ live'.signal \in {None, live.signal}
    BY <1>10, BookSettles DEF Restart, Sound, LiveTyped, Bookkeeping
  <2>2. QED
    BY <1>10, <2>1 DEF Restart, market, Aged, Together
<1>11. CASE MinuteLost \/ (\E a \in Analyses \cup {Waits} : HourCloses(a)) \/ EngineStops
            \/ LiveWatch \/ Done
  BY <1>2, <1>11, Zenon DEF MinuteLost, HourCloses, EngineStops, LiveWatch, Done, vars
<1>12. QED
  BY <1>1, <1>3, <1>4, <1>5, <1>6, <1>7, <1>8, <1>9, <1>10, <1>11
     DEF Next, EngineStep, LiveStep

-------------------------------------------------------------------------------
(* LossCapped, for any candles, analyses, thresholds and account settings: *)
(* a position closed at its stop costs at most the risk share of the       *)
(* balance it was sized on, and is worth at most margin times leverage.    *)
THEOREM LossIsCapped == Spec => []LossCapped
<1>1. Sound => LossCapped
  <2> SUFFICES ASSUME Sound, NEW signal \in {active, live.signal} \ {None}, signal.entered
               PROVE  /\ 100 * Distance(signal.fill, signal.stop) * signal.quantity
                            <= RiskPercent * signal.atBalance
                      /\ signal.quantity * signal.fill <= Margin * Leverage
    BY DEF LossCapped
  <2>1. signal \in SignalRec /\ SizedBy(signal)
    BY DEF Sound, EngineTyped, LiveTyped
  <2>2. signal.fill \in Int /\ signal.stop \in Int /\ signal.atBalance \in Int
    BY <2>1 DEF SignalRec
  <2>3. CASE signal.fill = 0 /\ signal.quantity = 0 /\ signal.atBalance = 0
    <3>1. Distance(signal.fill, signal.stop) \in Int /\ Margin * Leverage >= 0
      BY <2>2 DEF Distance, ValidConfig
    <3>2. QED
      BY <2>3, <3>1 DEF ValidConfig
  <2>4. CASE /\ Sizable(signal.atBalance, signal.fill, signal.stop)
             /\ signal.quantity = Quantity(signal.atBalance, signal.fill, signal.stop)
    BY <2>2, <2>4, QuantityIsCapped
  <2>5. QED
    BY <2>1, <2>3, <2>4 DEF SizedBy
<1>2. QED
  BY <1>1, TypesSound, PTL

(* LiveTracksReplay, for any candles, analyses, thresholds and account     *)
(* settings: until one of the named reasons parts them, the live account   *)
(* and the backtest hold the same signal, position, balance and trades.    *)
THEOREM LiveTracksTheReplay == Spec => []LiveTracksReplay
<1> DEFINE IInv == Sound /\ Aged /\ Tracks
<1>1. Init => IInv
  <2> SUFFICES ASSUME Init PROVE IInv
    OBVIOUS
  <2>1. Sound
    BY InitSound
  <2>2. live = LiveInit /\ verdict = None /\ active = None /\ balance = InitialBalance
        /\ trades = <<>>
    BY DEF Init, EngineInit
  <2>3. Aged
    BY <2>2 DEF Aged, LiveInit
  <2>4. Tracks
    BY <2>2 DEF Tracks, Due, After, Holding, LiveInit, Reverse
  <2>5. QED
    BY <2>1, <2>3, <2>4
<1>2. IInv /\ [Next]_vars => IInv'
  <2> SUFFICES ASSUME IInv, [Next]_vars PROVE IInv'
    OBVIOUS
  <2>1. CASE UNCHANGED vars
    BY <2>1 DEF vars, engine, market, Sound, EngineTyped, LiveTyped, Bookkeeping,
                Aged, Tracks, Due, Together
  <2>2. CASE Next
    BY <2>2, EngineKeeps, LiveKeeps, NextAged, EngineTracks, LiveTracks, <2>1 DEF Next, Done
  <2>3. QED
    BY <2>1, <2>2
<1>3. IInv => LiveTracksReplay
  BY DEF LiveTracksReplay, Tracks, Due, Holding
<1>4. QED
  BY <1>1, <1>2, <1>3, PTL DEF Spec

-------------------------------------------------------------------------------
(* The curve of the run *)

(* The equity curve steps by the net of each trade and ends at the balance, *)
(* and no trade is counted that is not listed.                              *)
Curve ==
    /\ IsCurve(equity, InitialBalance, trades)
    /\ balance = equity[Len(trades) + 1]
    /\ \A n \in 1..Len(trades) : trades[n].gross - trades[n].fees = trades[n].net
    /\ counts \in [Counters -> Int]
    /\ counts.completed = Len(trades)

LEMMA TradeAddsUp ==
    ASSUME NEW signal \in SignalRec, NEW outcome
    PROVE  TradeOf(signal, outcome).gross - TradeOf(signal, outcome).fees
             = TradeOf(signal, outcome).net
<1> DEFINE exit == Filled(ExitLevel(signal, outcome), signal.direction, FALSE)
           gross == Gross(signal.direction, signal.fill, exit, signal.quantity)
           entryFee == Fee(signal.fill, signal.quantity)
           exitFee == Fee(exit, signal.quantity)
<1>1. exit \in Int /\ signal.fill \in Int /\ signal.quantity \in Int
  BY FillIsInt DEF ExitLevel, SignalRec
<1>2. entryFee \in Int /\ exitFee \in Int
  BY <1>1, FeeIsInt
<1>3. /\ TradeOf(signal, outcome).gross = gross
      /\ TradeOf(signal, outcome).fees = entryFee + exitFee
      /\ TradeOf(signal, outcome).net = gross - entryFee - exitFee
  BY DEF TradeOf, Net
<1>4. gross \in Int
  BY <1>3, TradeIsTyped DEF TradeRec
<1> HIDE DEF gross, entryFee, exitFee
<1>5. gross - (entryFee + exitFee) = gross - entryFee - exitFee
  BY <1>2, <1>4
<1>6. QED
  BY <1>3, <1>5

(* One more trade, one more point. *)
LEMMA CurveGrows ==
    ASSUME NEW e, NEW start \in Int, NEW list \in Seq(TradeRec), IsCurve(e, start, list),
           NEW trade \in TradeRec
    PROVE  LET last == e[Len(list) + 1] + trade.net
           IN  /\ IsCurve(Append(e, last), start, Append(list, trade))
               /\ Append(e, last)[Len(list) + 2] = last
<1> DEFINE N == Len(list)
           last == e[N + 1] + trade.net
           f == Append(e, last)
           grown == Append(list, trade)
<1>1. /\ N \in Nat /\ e \in Seq(Int) /\ Len(e) = N + 1 /\ e[1] = start
      /\ \A n \in 1..N : e[n + 1] = e[n] + list[n].net
  BY DEF IsCurve
<1>2. last \in Int
  <2>1. e[N + 1] \in Int /\ trade.net \in Int
    BY <1>1 DEF TradeRec
  <2>2. QED
    BY <2>1
<1>3. /\ f \in Seq(Int) /\ Len(f) = N + 2 /\ f[N + 2] = last
      /\ \A n \in 1..(N + 1) : f[n] = e[n]
  BY <1>1, <1>2
<1>4. Len(grown) = N + 1 /\ grown[N + 1] = trade /\ \A n \in 1..N : grown[n] = list[n]
  OBVIOUS
<1> HIDE DEF N, last, f, grown
<1>5. ASSUME NEW n \in 1..(N + 1) PROVE f[n + 1] = f[n] + grown[n].net
  <2>1. CASE n = N + 1
    <3>1. f[n + 1] = last /\ f[n] = e[N + 1] /\ grown[n] = trade
      BY <1>1, <1>3, <1>4, <2>1
    <3>2. QED
      BY <3>1 DEF last
  <2>2. CASE n # N + 1
    <3>1. n \in 1..N /\ n + 1 \in 1..(N + 1)
      BY <1>1, <2>2
    <3>2. f[n + 1] = e[n + 1] /\ f[n] = e[n] /\ grown[n] = list[n]
      BY <1>3, <1>4, <3>1
    <3>3. QED
      BY <1>1, <3>1, <3>2
  <2>3. QED
    BY <2>1, <2>2
<1>6. f[1] = start
  <2>1. 1 \in 1..(N + 1)
    BY <1>1
  <2>2. QED
    BY <1>1, <1>3, <2>1
<1>7. IsCurve(f, start, grown)
  <2>1. Len(f) = Len(grown) + 1
    BY <1>1, <1>3, <1>4
  <2>2. QED
    BY <1>3, <1>4, <1>5, <1>6, <2>1 DEF IsCurve
<1>8. QED
  BY <1>3, <1>7 DEF N, last, f, grown

LEMMA InitCurve ==
    ASSUME Init PROVE Curve
<1>1. /\ equity = <<InitialBalance>> /\ trades = <<>> /\ balance = InitialBalance
      /\ counts = [counter \in Counters |-> 0]
  BY DEF Init, EngineInit
<1>2. InitialBalance \in Int
  BY DEF ValidRun
<1>3. IsCurve(equity, InitialBalance, trades)
  BY <1>1, <1>2 DEF IsCurve
<1>4. counts \in [Counters -> Int] /\ counts.completed = 0
  BY <1>1 DEF Counters
<1>5. QED
  BY <1>1, <1>3, <1>4 DEF Curve

(* Counters other than that of the completed trades leave the curve alone. *)
LEMMA CountingKeeps ==
    ASSUME Curve, UNCHANGED <<balance, equity, trades>>,
           counts' \in [Counters -> Int], counts'.completed = counts.completed
    PROVE  Curve'
BY DEF Curve

LEMMA CountsUp ==
    ASSUME NEW held \in [Counters -> Int], NEW counter \in Counters \ {"completed"}
    PROVE  /\ [held EXCEPT ![counter] = @ + 1] \in [Counters -> Int]
           /\ [held EXCEPT ![counter] = @ + 1].completed = held.completed
<1>1. "completed" \in Counters
  BY DEF Counters
<1> HIDE DEF Counters
<1>2. QED
  BY <1>1

LEMMA MinuteKeepsCurve ==
    ASSUME EngineTyped, Curve, NEW c, Minute(c)
    PROVE  Curve'
<1>1. counts \in [Counters -> Int] /\ "completed" \in Counters
  BY DEF Curve, Counters
<1>2. CASE WatchNothing
  BY <1>2 DEF WatchNothing, Curve
<1>3. CASE WatchEntry(c)
  <2>1. UNCHANGED <<balance, equity, trades>>
    BY <1>3 DEF WatchEntry
  <2>2. \/ UNCHANGED counts
        \/ \E counter \in {"entryAmbiguous", "entered"} : counts' = Bump(counter)
    BY <1>3 DEF WatchEntry, OpenPosition
  <2>3. counts' \in [Counters -> Int] /\ counts'.completed = counts.completed
    BY <1>1, <2>2 DEF Bump, Counters
  <2>4. QED
    BY <2>1, <2>3, CountingKeeps
<1>4. CASE WatchExit(c)
  <2>1. CASE UNCHANGED <<balance, equity, trades>> /\ counts' \in {counts, Bump("exitAmbiguous")}
    <3>1. counts' \in [Counters -> Int] /\ counts'.completed = counts.completed
      BY <1>1, <2>1 DEF Bump, Counters
    <3>2. QED
      BY <2>1, <3>1, CountingKeeps
  <2>2. CASE ClosePosition(EvaluateCandle(active, c))
    <3> DEFINE trade == TradeOf(active, EvaluateCandle(active, c))
    <3>1. /\ balance' = balance + trade.net /\ equity' = Append(equity, balance + trade.net)
          /\ trades' = Append(trades, trade) /\ counts' = Bump("completed")
      BY <2>2 DEF ClosePosition
    <3>2. trade \in TradeRec /\ trade.gross - trade.fees = trade.net
      BY <1>4, TradeIsTyped, TradeAddsUp DEF WatchExit, EngineTyped
    <3> HIDE DEF trade
    <3>3. trades \in Seq(TradeRec) /\ InitialBalance \in Int
      BY DEF EngineTyped, ValidRun
    <3>4. /\ IsCurve(equity', InitialBalance, trades')
          /\ equity'[Len(trades) + 2] = balance'
      BY <3>1, <3>2, <3>3, CurveGrows DEF Curve
    <3>5. Len(trades') = Len(trades) + 1 /\ Len(trades) \in Nat
      BY <3>1, <3>3
    <3>6. \A n \in 1..Len(trades') : trades'[n].gross - trades'[n].fees = trades'[n].net
      <4> SUFFICES ASSUME NEW n \in 1..Len(trades')
                   PROVE  trades'[n].gross - trades'[n].fees = trades'[n].net
        OBVIOUS
      <4>1. CASE n = Len(trades')
        BY <3>1, <3>2, <3>3, <4>1
      <4>2. CASE n # Len(trades')
        <5>1. n \in 1..Len(trades) /\ trades'[n] = trades[n]
          BY <3>1, <3>3, <3>5, <4>2
        <5>2. QED
          BY <5>1 DEF Curve
      <4>3. QED
        BY <4>1, <4>2
    <3>7. counts' \in [Counters -> Int] /\ counts'.completed = Len(trades')
      BY <1>1, <3>1, <3>5 DEF Bump, Curve
    <3>8. balance' = equity'[Len(trades') + 1]
      BY <3>4, <3>5
    <3>9. QED
      BY <3>4, <3>6, <3>7, <3>8 DEF Curve
  <2>3. QED
    BY <1>4, <2>1, <2>2, Zenon DEF WatchExit
<1>5. QED
  BY <1>2, <1>3, <1>4 DEF Minute

LEMMA HourKeepsCurve ==
    ASSUME Curve, NEW a, Decide(a)
    PROVE  Curve'
<1>1. counts \in [Counters -> Int]
  BY DEF Curve
<1>2. UNCHANGED <<balance, equity, trades>> /\ Judge(a)
  BY Zenon DEF Decide
<1>3. {"analyzed", "waits", "longs", "shorts", "rejected", "created"}
        \subseteq Counters \ {"completed"}
  BY DEF Counters
<1> DEFINE analyzed == Bump("analyzed")
<1>4. analyzed \in [Counters -> Int] /\ analyzed.completed = counts.completed
  <2>1. "analyzed" \in Counters \ {"completed"}
    BY <1>3
  <2>2. QED
    BY <1>1, <2>1, CountsUp DEF Bump
<1>5. \/ counts' = [analyzed EXCEPT !["waits"] = @ + 1]
      \/ \E intent \in {"longs", "shorts"}, other \in {"rejected", "created"} :
            counts' = [analyzed EXCEPT ![intent] = @ + 1, ![other] = @ + 1]
  BY <1>2 DEF Judge
<1> HIDE DEF analyzed
<1>6. counts' \in [Counters -> Int] /\ counts'.completed = counts.completed
  <2>1. CASE counts' = [analyzed EXCEPT !["waits"] = @ + 1]
    <3>1. "waits" \in Counters \ {"completed"}
      BY <1>3
    <3>2. QED
      BY <1>4, <2>1, <3>1, CountsUp
  <2>2. CASE \E intent \in {"longs", "shorts"}, other \in {"rejected", "created"} :
                counts' = [analyzed EXCEPT ![intent] = @ + 1, ![other] = @ + 1]
    <3>1. PICK intent \in {"longs", "shorts"}, other \in {"rejected", "created"} :
                counts' = [analyzed EXCEPT ![intent] = @ + 1, ![other] = @ + 1]
      BY <2>2
    <3>2. /\ intent \in Counters \ {"completed"} /\ other \in Counters \ {"completed"}
          /\ intent # other
      BY <1>3
    <3>3. /\ [analyzed EXCEPT ![intent] = @ + 1, ![other] = @ + 1] \in [Counters -> Int]
          /\ [analyzed EXCEPT ![intent] = @ + 1, ![other] = @ + 1].completed
                = analyzed.completed
      <4>1. "completed" \in Counters
        BY DEF Counters
      <4>2. QED
        BY ONLY <1>4, <3>2, <4>1
    <3>4. QED
      BY <1>4, <3>1, <3>3, Zenon
  <2>3. QED
    BY <1>5, <2>1, <2>2
<1>7. QED
  BY <1>2, <1>6, CountingKeeps

LEMMA CurveKept ==
    ASSUME Sound, Curve, [Next]_vars
    PROVE  Curve'
<1>1. CASE \E c \in Candles : MinuteCloses(c)
  BY <1>1, MinuteKeepsCurve DEF MinuteCloses, Sound
<1>2. CASE \E a \in Analyses \cup {Waits} : HourCloses(a)
  BY <1>2, HourKeepsCurve DEF HourCloses
<1>3. CASE HourBlocked
  <2>1. Block
    BY <1>3 DEF HourBlocked, BlockActive, BlockBlackout
  <2>2. UNCHANGED <<balance, equity, trades>> /\ counts' = Bump("blocked")
    BY <2>1 DEF Block
  <2>3. counts' \in [Counters -> Int] /\ counts'.completed = counts.completed
    BY <2>2 DEF Bump, Counters, Curve
  <2>4. QED
    BY <2>2, <2>3, CountingKeeps
<1>4. CASE MinuteLost \/ EngineStops \/ LiveStep \/ Done \/ UNCHANGED vars
  <2>1. UNCHANGED <<balance, equity, trades, counts>>
    BY <1>4 DEF MinuteLost, Gap, EngineStops, ProviderFails, Finish, LiveStep, LiveAccept,
                LiveReject, LiveGated, LiveEnter, LiveClose, LiveDies, LiveWatch, LiveCancel,
                Restart, Done, vars, engine
  <2>2. QED
    BY <2>1 DEF Curve
<1>5. QED
  BY <1>1, <1>2, <1>3, <1>4 DEF Next, EngineStep

(* A ledger cut nowhere, and one cut down to nothing. *)
LEMMA WholeAndNothing ==
    ASSUME NEW S, NEW s \in Seq(S)
    PROVE  SubSeq(s, 1, Len(s)) = s /\ SubSeq(s, 1, 0) = <<>>
OBVIOUS

LEMMA NothingWon == Cardinality(Result(<<>>, TRUE)) = 0
<1>1. Result(<<>>, TRUE) = {}
  BY DEF Result
<1>2. QED
  BY <1>1, FS_EmptySet

(* The end of a ledger and of its curve, after k trades. *)
LEMMA CurveOfTheRest ==
    ASSUME NEW list \in Seq(TradeRec), NEW e, NEW begin \in Int, IsCurve(e, begin, list),
           NEW k \in 0..Len(list)
    PROVE  LET rest == SubSeq(list, k + 1, Len(list))
               since == SubSeq(e, k + 1, Len(e))
           IN  /\ rest \in Seq(TradeRec) /\ Len(rest) = Len(list) - k
               /\ \A n \in 1..Len(rest) : rest[n] = list[k + n]
               /\ since \in Seq(Int) /\ Len(since) = Len(list) - k + 1
               /\ \A n \in 1..Len(since) : since[n] = e[k + n]
               /\ IsCurve(since, e[k + 1], rest)
<1> DEFINE N == Len(list)
           rest == SubSeq(list, k + 1, N)
           M == N + 1
           since == SubSeq(e, k + 1, M)
<1>1. /\ N \in Nat /\ k \in 0..N /\ Len(e) = N + 1 /\ e \in Seq(Int)
      /\ \A n \in 1..N : e[n + 1] = e[n] + list[n].net
  BY DEF IsCurve
<1>2. \A i \in (k + 1)..N : list[i] \in TradeRec
  BY <1>1
<1>3. \A i \in (k + 1)..(N + 1) : e[i] \in Int
  BY <1>1
<1>4. /\ rest \in Seq(TradeRec) /\ Len(rest) = N - k
      /\ \A n \in 1..(N - k) : rest[n] = list[k + n]
  <2> HIDE DEF N
  <2>1. k + 1 \in Int /\ N \in Int
    BY <1>1
  <2>2. /\ rest \in Seq(TradeRec)
        /\ Len(rest) = IF k + 1 <= N THEN N - (k + 1) + 1 ELSE 0
        /\ \A i \in 1..(N - (k + 1) + 1) : rest[i] = list[k + 1 + i - 1]
    BY <1>2, <2>1, SubSeqProperties
  <2> HIDE DEF rest
  <2>3. N - (k + 1) + 1 = N - k /\ \A i \in 1..(N - k) : k + 1 + i - 1 = k + i
    BY <1>1
  <2>4. QED
    BY <1>1, <2>2, <2>3
<1>5. /\ since \in Seq(Int) /\ Len(since) = N - k + 1
      /\ \A n \in 1..(N - k + 1) : since[n] = e[k + n]
  <2> HIDE DEF N
  <2>1. k + 1 \in Int /\ M \in Int /\ \A i \in (k + 1)..M : e[i] \in Int
    BY <1>1, <1>3
  <2>2. M = N + 1
    OBVIOUS
  <2> HIDE DEF M
  <2>3. /\ since \in Seq(Int)
        /\ Len(since) = IF k + 1 <= M THEN M - (k + 1) + 1 ELSE 0
        /\ \A i \in 1..(M - (k + 1) + 1) : since[i] = e[k + 1 + i - 1]
    BY <2>1, SubSeqProperties
  <2> HIDE DEF since
  <2>4. /\ M - (k + 1) + 1 = N - k + 1 /\ k + 1 <= M
        /\ \A i \in 1..(N - k + 1) : k + 1 + i - 1 = k + i
    BY <1>1, <2>2
  <2>5. QED
    BY <1>1, <2>3, <2>4
<1> HIDE DEF N, M, rest, since
<1>6. since[1] = e[k + 1]
  BY <1>1, <1>5
<1>7. ASSUME NEW n \in 1..(N - k) PROVE since[n + 1] = since[n] + rest[n].net
  <2>1. /\ n \in 1..(N - k + 1) /\ n + 1 \in 1..(N - k + 1) /\ k + n \in 1..N
        /\ k + (n + 1) = (k + n) + 1
    BY <1>1
  <2>2. since[n + 1] = e[(k + n) + 1] /\ since[n] = e[k + n] /\ rest[n] = list[k + n]
    BY <1>4, <1>5, <2>1
  <2>3. QED
    BY <1>1, <2>1, <2>2
<1>8. IsCurve(since, e[k + 1], rest)
  BY <1>1, <1>4, <1>5, <1>6, <1>7 DEF IsCurve
<1>9. QED
  BY <1>1, <1>4, <1>5, <1>8 DEF N, M, rest, since

(* The trades that won are those among the first k and those after. *)
LEMMA ResultsOfTheParts ==
    ASSUME NEW list \in Seq(TradeRec), NEW winning \in BOOLEAN, NEW k \in 0..Len(list)
    PROVE  Cardinality(Result(SubSeq(list, 1, k), winning))
             + Cardinality(Result(SubSeq(list, k + 1, Len(list)), winning))
             = Cardinality(Result(list, winning))
<1> DEFINE N == Len(list)
           first == SubSeq(list, 1, k)
           rest == SubSeq(list, k + 1, N)
           All == Result(list, winning)
           A == Result(first, winning)
           B == Result(rest, winning)
           C == {i \in All : i > k}
           f == [i \in B |-> k + i]
<1>1. N \in Nat /\ k \in Nat /\ k <= N /\ \A i \in 1..N : list[i] \in TradeRec
  OBVIOUS
<1>2. DOMAIN first = 1..k /\ \A i \in 1..k : first[i] = list[i]
  <2>1. 1 \in Int /\ k \in Int /\ \A i \in 1..k : list[i] \in TradeRec
    BY <1>1
  <2>2. /\ first \in Seq(TradeRec) /\ Len(first) = IF 1 <= k THEN k - 1 + 1 ELSE 0
        /\ \A i \in 1..(k - 1 + 1) : first[i] = list[1 + i - 1]
    BY <2>1, SubSeqProperties
  <2> HIDE DEF first
  <2>3. k - 1 + 1 = k /\ \A i \in 1..k : 1 + i - 1 = i
    BY <1>1
  <2>4. QED
    BY <1>1, <2>2, <2>3
<1>3. DOMAIN rest = 1..(N - k) /\ \A i \in 1..(N - k) : rest[i] = list[k + i]
  <2>1. k + 1 \in Int /\ N \in Int /\ \A i \in (k + 1)..N : list[i] \in TradeRec
    BY <1>1
  <2> HIDE DEF N
  <2>2. /\ rest \in Seq(TradeRec)
        /\ Len(rest) = IF k + 1 <= N THEN N - (k + 1) + 1 ELSE 0
        /\ \A i \in 1..(N - (k + 1) + 1) : rest[i] = list[k + 1 + i - 1]
    BY <2>1, SubSeqProperties
  <2> HIDE DEF rest
  <2>3. N - (k + 1) + 1 = N - k /\ \A i \in 1..(N - k) : k + 1 + i - 1 = k + i
    BY <1>1
  <2>4. QED
    BY <1>1, <2>2, <2>3
<1>4. /\ \A i : i \in All <=> i \in 1..N /\ Won(list[i]) = winning
      /\ \A i : i \in A <=> i \in 1..k /\ Won(first[i]) = winning
      /\ \A i : i \in B <=> i \in 1..(N - k) /\ Won(rest[i]) = winning
  BY <1>2, <1>3 DEF Result
<1> HIDE DEF N, first, rest, All, A, B
<1>5. A \cup C = All /\ A \cap C = {}
  <2>1. \A i : i \in A <=> i \in All /\ i <= k
    BY <1>1, <1>2, <1>4
  <2>2. \A i \in All : i \in Int
    BY <1>1, <1>4
  <2>3. QED
    BY <1>1, <2>1, <2>2
<1>6. f \in Bijection(B, C)
  <2>1. \A i \in 1..(N - k) : k + i \in 1..N /\ k + i > k
    BY <1>1
  <2>2. \A i \in B : i \in 1..(N - k) /\ k + i \in C
    BY <1>3, <1>4, <2>1
  <2>3. \A c \in C : c - k \in B /\ k + (c - k) = c
    <3> SUFFICES ASSUME NEW c \in C PROVE c - k \in B /\ k + (c - k) = c
      OBVIOUS
    <3>1. c \in 1..N /\ c > k /\ Won(list[c]) = winning
      BY <1>4
    <3>2. c - k \in 1..(N - k) /\ k + (c - k) = c
      BY <1>1, <3>1
    <3>3. QED
      BY <1>3, <1>4, <3>1, <3>2
  <2>4. \A a, b \in B : k + a = k + b => a = b
    BY <1>1, <2>2
  <2>5. f \in [B -> C]
    BY <2>2
  <2>6. f \in Injection(B, C)
    BY <2>4, <2>5 DEF Injection, IsInjective
  <2>7. f \in Surjection(B, C)
    <3>1. \A c \in C : \E b \in B : f[b] = c
      BY <2>3
    <3>2. QED
      BY <2>5, <3>1 DEF Surjection
  <2>8. QED
    BY <2>6, <2>7 DEF Bijection
<1>7. IsFiniteSet(All)
  <2>1. IsFiniteSet(1..N) /\ All \subseteq 1..N
    BY <1>1, <1>4, FS_Interval
  <2>2. QED
    BY <2>1, FS_Subset
<1>8. /\ IsFiniteSet(A) /\ IsFiniteSet(C) /\ IsFiniteSet(B)
      /\ Cardinality(B) = Cardinality(C)
  <2>1. A \subseteq All /\ C \subseteq All
    BY <1>5
  <2>2. IsFiniteSet(A) /\ IsFiniteSet(C)
    BY <1>7, <2>1, FS_Subset
  <2> HIDE DEF C, f
  <2>3. IsFiniteSet(B) /\ Cardinality(B) = Cardinality(C)
    <3>1. B \subseteq 1..(N - k) /\ N - k \in Int /\ 1 \in Int
      BY <1>1, <1>4
    <3>2. IsFiniteSet(B)
      BY <3>1, FS_Interval, FS_Subset
    <3>3. ExistsBijection(B, C)
      BY <1>6 DEF ExistsBijection
    <3>4. QED
      BY <2>2, <3>2, <3>3, FS_Bijection
  <2>4. QED
    BY <2>2, <2>3
<1>9. Cardinality(All) = Cardinality(A) + Cardinality(C)
  <2> HIDE DEF C, f
  <2>1. Cardinality(A \cup C) = Cardinality(A) + Cardinality(C) - Cardinality(A \cap C)
    BY <1>8, FS_Union
  <2>2. Cardinality(A \cap C) = 0
    BY <1>5, FS_EmptySet
  <2> DEFINE a0 == Cardinality(A)
             c0 == Cardinality(C)
  <2>3. a0 \in Nat /\ c0 \in Nat
    BY <1>8, FS_CardinalityType
  <2>4. Cardinality(All) = a0 + c0 - 0
    BY <1>5, <2>1, <2>2, Zenon
  <2> HIDE DEF a0, c0
  <2>5. a0 + c0 - 0 = a0 + c0
    BY <2>3
  <2>6. QED
    BY <2>4, <2>5 DEF a0, c0
<1>10. QED
  BY <1>8, <1>9 DEF N, first, rest, All, A, B

(* What the summary of a backtest says of a ledger that has its curve. *)
LEMMA ReportAgrees ==
    ASSUME NEW list \in Seq(TradeRec), NEW e, NEW start \in Int, IsCurve(e, start, list),
           \A n \in 1..Len(list) : list[n].gross - list[n].fees = list[n].net
    PROVE  LET report == Summary(list, e)
           IN  /\ report.net = e[Len(list) + 1] - start
               /\ report.grossProfit - report.grossLoss - report.fees = report.net
               /\ report.wins + report.losses = Len(list)
               /\ report.longs + report.shorts = Len(list)
               /\ report.winStreak <= report.wins /\ report.lossStreak <= report.losses
               /\ report.drawdown = WorstFall(e)
<1> DEFINE N == Len(list)
           final == e[N + 1]
           report == Summary(list, e)
<1>1. /\ N \in Nat /\ e \in Seq(Int) /\ Len(e) = N + 1 /\ e # <<>> /\ e[1] = start
  BY DEF IsCurve
<1>3. report.net = final - start
  <2>1. Total(Each(list, "net")) = e[Len(list) + 1] - start
    BY NetIsTheRise
  <2>2. QED
    BY <2>1 DEF Summary
<1>4. report.grossProfit - report.grossLoss - report.fees = report.net
  <2> DEFINE won == Total(GrossOf(list, TRUE))
             lost == Total(GrossOf(list, FALSE))
             fees == Total(Each(list, "fees"))
  <2>1. /\ won \in Int /\ lost \in Int /\ fees \in Int
        /\ won + lost - fees = Total(Each(list, "net"))
    BY TotalsAddUp
  <2>2. /\ report.grossProfit = won /\ report.grossLoss = -lost
        /\ report.fees = fees /\ report.net = Total(Each(list, "net"))
    BY DEF Summary
  <2> HIDE DEF won, lost, fees
  <2>3. won - (-lost) - fees = won + lost - fees
    BY <2>1
  <2>4. QED
    BY <2>1, <2>2, <2>3
<1>5. report.wins + report.losses = N /\ report.longs + report.shorts = N
  BY ResultsAddUp DEF Summary
<1>6. report.winStreak <= report.wins /\ report.lossStreak <= report.losses
  <2>1. /\ LongestRun(list, TRUE) <= Cardinality(Result(list, TRUE))
        /\ LongestRun(list, FALSE) <= Cardinality(Result(list, FALSE))
    BY StreakIsAtMostTheResult
  <2>2. QED
    BY <2>1 DEF Summary
<1>7. /\ report.drawdown = WorstFall(e)
      /\ report.drawdown \in Int /\ IsWorstFall(report.drawdown, e)
  <2>1. WorstDrawdown(e) \in Int /\ IsWorstFall(WorstDrawdown(e), e)
    BY <1>1, DrawdownIsTheWorstFall
  <2>2. WorstFall(e) = WorstDrawdown(e)
    BY <1>1, <2>1, WorstFallIs
  <2>3. report.drawdown = WorstDrawdown(e)
    BY DEF Summary
  <2>4. QED
    BY <2>1, <2>2, <2>3
<1>8. QED
  BY <1>3, <1>4, <1>5, <1>6, <1>7

(* What the demo statistics say of the trades after the first k. *)
LEMMA DemoAgrees ==
    ASSUME NEW list \in Seq(TradeRec), NEW e, NEW begin \in Int, IsCurve(e, begin, list),
           NEW k \in 0..Len(list), NEW start \in Int
    PROVE  LET demo == DemoSummary(start, Reverse(SubSeq(list, k + 1, Len(list))))
               since == SubSeq(e, k + 1, Len(e))
           IN  /\ demo.drawdown = WorstFall(since)
               /\ demo.drawdown <= WorstFall(e)
               /\ demo.final = start + e[Len(list) + 1] - since[1]
               /\ demo.wins + Cardinality(Result(SubSeq(list, 1, k), TRUE))
                     = Cardinality(Result(list, TRUE))
<1> DEFINE N == Len(list)
           rest == SubSeq(list, k + 1, N)
           since == SubSeq(e, k + 1, Len(e))
           booked == Reverse(rest)
           demo == DemoSummary(start, booked)
           path == BalancePath(start, booked)
           worst == WorstDrawdown(since)
<1>1. /\ N \in Nat /\ e \in Seq(Int) /\ Len(e) = N + 1 /\ e # <<>> /\ k \in 0..N
      /\ \A i \in 1..(N + 1) : e[i] \in Int
  BY DEF IsCurve
<1>2. /\ rest \in Seq(TradeRec) /\ Len(rest) = N - k
      /\ since \in Seq(Int) /\ Len(since) = N - k + 1
      /\ \A n \in 1..Len(since) : since[n] = e[k + n]
      /\ IsCurve(since, e[k + 1], rest)
  BY CurveOfTheRest
<1>3. k + 1 \in 1..(N + 1) /\ e[k + 1] \in Int
  BY <1>1
<1>4. booked \in Seq(TradeRec) /\ Len(booked) = N - k
  <2> HIDE DEF rest, N
  <2>1. booked \in Seq(TradeRec)
    BY <1>2, ReverseIsTyped
  <2>2. Len(booked) = Len(rest)
    BY <1>2 DEF Reverse
  <2>3. QED
    BY <1>2, <2>1, <2>2
<1> HIDE DEF N, rest, since, booked
<1>5. IsCurve(path, start, booked)
  BY <1>4, PathIsCurve
<1> HIDE DEF path
<1>6. IsTurned(path, since, start)
  <2>1. IsCurve(path, start, Reverse(rest))
    BY <1>5 DEF booked
  <2> DEFINE open == e[k + 1]
  <2>2. open \in Int /\ IsCurve(since, open, rest)
    BY <1>2, <1>3
  <2> HIDE DEF open
  <2>3. rest \in Seq(TradeRec) /\ start \in Int
    BY <1>2
  <2>4. QED
    BY ONLY <2>1, <2>2, <2>3, ReversedCurve, Zenon
<1>7. since # <<>> /\ path \in Seq(Int) /\ path # <<>>
  BY <1>1, <1>2, <1>5, <1>6 DEF IsCurve, IsTurned
<1>8. worst \in Int /\ IsWorstFall(worst, since) /\ WorstFall(since) = worst
  <2>1. worst \in Int /\ IsWorstFall(worst, since)
    BY <1>2, <1>7, DrawdownIsTheWorstFall
  <2>2. QED
    BY <1>2, <2>1, WorstFallIs
<1> HIDE DEF worst
<1>9. demo.drawdown = worst
  <2>1. IsWorstFall(worst, path)
    BY <1>2, <1>6, <1>7, <1>8, SameFalls DEF IsTurned
  <2>2. WorstDrawdown(path) \in Int /\ IsWorstFall(WorstDrawdown(path), path)
    BY <1>7, DrawdownIsTheWorstFall
  <2>3. WorstFall(path) = worst /\ WorstFall(path) = WorstDrawdown(path)
    BY <1>7, <1>8, <2>1, <2>2, WorstFallIs
  <2>4. demo.drawdown = WorstDrawdown(path)
    BY DEF DemoSummary, path
  <2>5. QED
    BY <2>3, <2>4
<1>10. worst <= WorstFall(e)
  <2>1. PICK i, j \in 1..Len(since) : i <= j /\ worst = since[i] - since[j]
    BY <1>8 DEF IsWorstFall
  <2>2. k + i \in 1..Len(e) /\ k + j \in 1..Len(e) /\ k + i <= k + j
    BY <1>1, <1>2, <2>1
  <2>3. worst = e[k + i] - e[k + j]
    BY <1>2, <2>1
  <2>4. WorstDrawdown(e) \in Int /\ IsWorstFall(WorstDrawdown(e), e)
    BY <1>1, DrawdownIsTheWorstFall
  <2>5. WorstFall(e) = WorstDrawdown(e)
    BY <1>1, <2>4, WorstFallIs
  <2>6. e[k + i] - e[k + j] <= WorstDrawdown(e)
    BY <2>2, <2>4 DEF IsWorstFall
  <2>7. QED
    BY <2>3, <2>5, <2>6
<1>11. demo.final = start + e[N + 1] - since[1]
  <2> DEFINE last == Len(since)
  <2>1. last \in 1..last /\ last + 1 - last = 1 /\ last \in Nat
    BY <1>1, <1>2
  <2>2. path[last] = start + since[last] - since[1]
    BY <1>6, <2>1 DEF IsTurned
  <2>3. k + last = N + 1
    BY <1>1, <1>2
  <2>4. since[last] = e[k + last]
    BY <1>2, <2>1
  <2>5. demo.final = path[Len(path)]
    BY DEF DemoSummary, path
  <2>6. QED
    BY <1>6, <2>2, <2>3, <2>4, <2>5 DEF IsTurned
<1>12. demo.wins + Cardinality(Result(SubSeq(list, 1, k), TRUE)) = Cardinality(Result(list, TRUE))
  <2>1. demo.wins = Cardinality(Result(booked, TRUE))
    BY DEF DemoSummary
  <2>2. Cardinality(Result(booked, TRUE)) = Cardinality(Result(rest, TRUE))
    BY <1>2, ReversedResult DEF booked
  <2> DEFINE first == SubSeq(list, 1, k)
  <2>3. Cardinality(Result(first, TRUE)) + Cardinality(Result(rest, TRUE))
          = Cardinality(Result(list, TRUE))
    BY ResultsOfTheParts DEF rest, N
  <2>4. Cardinality(Result(first, TRUE)) \in Nat /\ Cardinality(Result(rest, TRUE)) \in Nat
    <3>1. \A trades0 : Result(trades0, TRUE) \subseteq DOMAIN trades0
      BY DEF Result
    <3>2. DOMAIN rest = 1..(N - k) /\ N - k \in Nat
      BY <1>1, <1>2
    <3>3. \A i \in 1..k : list[i] \in TradeRec
      BY <1>1 DEF N
    <3>4. first \in Seq(TradeRec)
      BY <1>1, <3>3, SubSeqProperties
    <3> HIDE DEF first
    <3>5. DOMAIN first = 1..Len(first) /\ Len(first) \in Nat
      BY <3>4
    <3>6. IsFiniteSet(1..(N - k)) /\ IsFiniteSet(1..Len(first))
      BY <3>2, <3>5, FS_Interval
    <3>7. IsFiniteSet(Result(first, TRUE)) /\ IsFiniteSet(Result(rest, TRUE))
      BY <3>1, <3>2, <3>5, <3>6, FS_Subset
    <3>8. QED
      BY <3>7, FS_CardinalityType
  <2> DEFINE f0 == Cardinality(Result(first, TRUE))
             r0 == Cardinality(Result(rest, TRUE))
  <2> HIDE DEF f0, r0
  <2>5. f0 \in Nat /\ r0 \in Nat /\ demo.wins = r0 /\ f0 + r0 = Cardinality(Result(list, TRUE))
    BY <2>1, <2>2, <2>3, <2>4 DEF f0, r0
  <2>6. r0 + f0 = f0 + r0
    BY <2>5
  <2>7. QED
    BY <2>5, <2>6 DEF f0
<1>13. QED
  BY <1>8, <1>9, <1>10, <1>11, <1>12 DEF N, rest, since, booked

(* StatisticsAgree, for any candles, analyses, thresholds, account settings   *)
(* and limit of trades shown, and so for ledgers of any length: the loops of  *)
(* BacktestStatistics.compute agree with the equity curve and with the worst  *)
(* fall between two of its points, and those of demo_statistics with the end  *)
(* of the ledger that list_trades hands them.                                 *)
THEOREM StatisticsDoAgree == Spec => []StatisticsAgree
<1>1. Init => Curve
  BY InitCurve
<1>2. Sound /\ Curve /\ [Next]_vars => Curve'
  BY CurveKept
<1>3. Sound /\ Curve => StatisticsAgree
  <2> SUFFICES ASSUME Sound, Curve PROVE StatisticsAgree
    OBVIOUS
  <2>1. /\ trades \in Seq(TradeRec) /\ InitialBalance \in Int
        /\ IsCurve(equity, InitialBalance, trades)
        /\ \A n \in 1..Len(trades) : trades[n].gross - trades[n].fees = trades[n].net
        /\ balance = equity[Len(trades) + 1] /\ counts.completed = Len(trades)
    BY DEF Sound, EngineTyped, Curve, ValidRun
  <2> DEFINE N == Len(trades)
             report == Summary(trades, equity)
             k == Earlier(trades, Shown)
             booked == ListTrades(trades, Shown)
             demo == DemoSummary(InitialBalance, booked)
             since == SubSeq(equity, k + 1, Len(equity))
             omitted == SubSeq(trades, 1, k)
             wins == Cardinality(Result(trades, TRUE))
             before == Cardinality(Result(omitted, TRUE))
  <2>2. /\ report.net = balance - InitialBalance
        /\ report.grossProfit - report.grossLoss - report.fees = report.net
        /\ report.wins + report.losses = counts.completed
        /\ report.longs + report.shorts = counts.completed
        /\ report.winStreak <= report.wins /\ report.lossStreak <= report.losses
        /\ report.drawdown = WorstFall(equity)
    BY <2>1, ReportAgrees
  <2>3. N \in Nat /\ k \in 0..N /\ (N <= Shown => k = 0)
    BY <2>1 DEF Earlier
  <2>4. booked = Reverse(SubSeq(trades, k + 1, N)) /\ Len(booked) = N - k
    <3>1. Len(SubSeq(trades, k + 1, N)) = N - k
      BY <2>1, <2>3, CurveOfTheRest
    <3>2. booked = Reverse(SubSeq(trades, k + 1, N))
      BY DEF ListTrades, Recent
    <3> HIDE DEF booked, k, N
    <3>3. Len(Reverse(SubSeq(trades, k + 1, N))) = Len(SubSeq(trades, k + 1, N))
      BY <2>3, <3>1 DEF Reverse
    <3>4. QED
      BY <3>1, <3>2, <3>3
  <2>5. N - Len(booked) = k
    BY <2>3, <2>4
  <2>6. /\ demo.drawdown = WorstFall(since) /\ demo.drawdown <= WorstFall(equity)
        /\ demo.final = InitialBalance + balance - since[1]
        /\ demo.wins + before = wins
    <3> HIDE DEF k
    <3> DEFINE shown == DemoSummary(InitialBalance, Reverse(SubSeq(trades, k + 1, Len(trades))))
    <3>1. /\ shown.drawdown = WorstFall(since) /\ shown.drawdown <= WorstFall(equity)
          /\ shown.final = InitialBalance + equity[Len(trades) + 1] - since[1]
          /\ shown.wins + before = wins
      BY <2>1, <2>3, DemoAgrees
    <3>2. demo = shown
      <4> HIDE DEF booked
      <4>1. QED
        BY <2>4, Zenon
    <3> HIDE DEF demo, shown, since, before, wins
    <3>3. QED
      BY <2>1, <3>1, <3>2
  <2>7. report.wins = wins
    BY DEF Summary
  <2>8. ASSUME N <= Shown
        PROVE  /\ demo.drawdown = report.drawdown
               /\ demo.final = balance /\ demo.wins = report.wins
    <3>1. k = 0
      BY <2>3, <2>8
    <3>2. /\ equity \in Seq(Int) /\ Len(equity) = N + 1 /\ equity[1] = InitialBalance
          /\ balance \in Int
      BY <2>1, <2>3 DEF IsCurve
    <3>3. since = equity
      <4>1. SubSeq(equity, 1, Len(equity)) = equity
        BY <3>2, WholeAndNothing
      <4>2. QED
        BY <3>1, <4>1
    <3>4. before = 0
      <4>1. omitted = <<>>
        BY <2>1, <3>1, WholeAndNothing
      <4>2. QED
        BY <4>1, NothingWon
    <3>5. demo.wins = wins
      <4>1. demo.wins = Cardinality(Result(booked, TRUE))
        BY DEF DemoSummary
      <4>2. SubSeq(trades, 1, N) = trades
        BY <2>1, WholeAndNothing
      <4>3. booked = Reverse(trades)
        <5>1. k + 1 = 1
          BY <3>1
        <5>2. SubSeq(trades, k + 1, N) = trades
          BY <4>2, <5>1, Zenon
        <5>3. QED
          BY <2>4, <5>2, Zenon
      <4>4. QED
        BY <2>1, <4>1, <4>3, ReversedResult
    <3>6. InitialBalance + balance - InitialBalance = balance
      BY <2>1, <3>2
    <3>7. QED
      BY <2>2, <2>6, <2>7, <3>2, <3>3, <3>5, <3>6
  <2>9. QED
    <3> HIDE DEF demo, report, since, before, wins, omitted, booked
    <3>1. /\ demo.drawdown <= report.drawdown
          /\ demo.wins + before = report.wins
      BY <2>2, <2>6, <2>7
    <3>2. QED
      BY <2>2, <2>5, <2>6, <2>8, <3>1
         DEF StatisticsAgree, demo, report, since, before, omitted, booked
<1>4. QED
  BY <1>1, <1>2, <1>3, TypesSound, PTL DEF Spec

===============================================================================
