--------------------------- MODULE BenchmarkProofs ---------------------------
(***************************************************************************)
(* Theorems about Benchmark, for any dataset, releases, proposals, guards, *)
(* wirings and numbers of runs and faults: what a failure counts for, what *)
(* a replay makes of a record, what the cache file keeps, and how the      *)
(* summary adds up.                                                        *)
(*                                                                         *)
(* The file holds one record of an hour, at most one line of it, the last, *)
(* is unended (FileSound), and a run remembers all the file holds          *)
(* (RunSound).                                                             *)
(***************************************************************************)
EXTENDS Benchmark, FiniteSetTheorems, TLAPS

Verdicts == {"wait", "created", "rejected"}

Records == [hour : 1 .. Hours, proposal : Proposals, verdict : Verdicts]

Lines == [record : SUBSET Records, ended : BOOLEAN, garbled : BOOLEAN]

(* The records of the lines that parse. *)
OnFile(lines) == UNION {lines[i].record : i \in DOMAIN lines}

(* No two records of an hour. *)
OnePerHour(records) == \A r, s \in records : r.hour = s.hour => r = s

(* Only the last line is unended, and no two lines hold records of an hour. *)
FileSound(lines) ==
    /\ lines \in Seq(Lines)
    /\ \A i \in DOMAIN lines : ~lines[i].ended => i = Len(lines)
    /\ \A i \in DOMAIN lines : \A r, s \in lines[i].record : r = s
    /\ \A i, j \in DOMAIN lines : \A r \in lines[i].record, s \in lines[j].record :
            r.hour = s.hour => i = j

(* What the next write will destroy of the file: itself and the unended line. *)
Debt(lines) == IF Unended(lines) THEN 1 + Cardinality(Last(lines).record) ELSE 0

-------------------------------------------------------------------------------
(* Sets of records *)

LEMMA PerHourIsFinite ==
    ASSUME NEW records \in SUBSET Records, OnePerHour(records)
    PROVE  IsFiniteSet(records) /\ Cardinality(records) \in Nat
<1> DEFINE f == [r \in records |-> r.hour]
<1>1. f \in Injection(records, 1 .. Hours)
  BY DEF Injection, IsInjective, OnePerHour, Records
<1>2. IsFiniteSet(1 .. Hours)
  BY FS_Interval, BenchmarkAssumption
<1> HIDE DEF f
<1>3. QED
  BY <1>1, <1>2, FS_Injection, FS_CardinalityType

(* So many hours that have a record, so many records. *)
LEMMA HoursHaveRecords ==
    ASSUME NEW records \in SUBSET Records, OnePerHour(records), NEW hours \in SUBSET (1 .. Hours),
           \A h \in hours : \E r \in records : r.hour = h
    PROVE  Cardinality(hours) <= Cardinality(records)
<1> DEFINE g == [h \in hours |-> CHOOSE r \in records : r.hour = h]
<1>1. \A h \in hours : g[h] \in records /\ g[h].hour = h
  OBVIOUS
<1>2. g \in [hours -> records]
  BY <1>1
<1> HIDE DEF g
<1>3. g \in Injection(hours, records)
  BY <1>1, <1>2 DEF Injection, IsInjective
<1>4. QED
  BY <1>3, PerHourIsFinite, FS_Injection

-------------------------------------------------------------------------------
(* The cache file *)

(* A line more, of another hour than the ended lines before it. *)
LEMMA Prolonged ==
    ASSUME NEW front, FileSound(front), \A i \in DOMAIN front : front[i].ended,
           NEW line \in Lines, \A r, s \in line.record : r = s,
           \A r \in OnFile(front), s \in line.record : r.hour # s.hour
    PROVE  LET new == Append(front, line)
           IN  /\ FileSound(new) /\ new # <<>> /\ Last(new) = line
               /\ OnFile(new) = OnFile(front) \cup line.record
<1> DEFINE new == Append(front, line)
           n == Len(front)
<1>1. /\ n \in Nat /\ DOMAIN front = 1 .. n /\ new \in Seq(Lines) /\ Len(new) = n + 1
      /\ DOMAIN new = 1 .. n + 1 /\ new[n + 1] = line /\ front \in Seq(Lines)
      /\ \A i \in 1 .. n : new[i] = front[i]
  BY DEF FileSound
<1> HIDE DEF new, n
<1>2. OnFile(new) = OnFile(front) \cup line.record
  <2>1. ASSUME NEW r \in OnFile(new) PROVE r \in OnFile(front) \cup line.record
    <3>1. PICK i \in DOMAIN new : r \in new[i].record
      BY <2>1 DEF OnFile
    <3>2. QED
      BY <1>1, <3>1 DEF OnFile
  <2>2. ASSUME NEW r \in OnFile(front) PROVE r \in OnFile(new)
    <3>1. PICK i \in DOMAIN front : r \in front[i].record
      BY <2>2 DEF OnFile
    <3>2. i \in DOMAIN new /\ new[i] = front[i]
      BY <1>1
    <3>3. QED
      BY <3>1, <3>2 DEF OnFile
  <2>3. ASSUME NEW r \in line.record PROVE r \in OnFile(new)
    <3>1. n + 1 \in DOMAIN new /\ new[n + 1].record = line.record
      BY <1>1
    <3>2. QED
      BY <3>1 DEF OnFile
  <2>4. QED
    BY <2>1, <2>2, <2>3
<1>3. Last(new) = line /\ new # <<>>
  BY <1>1 DEF Last
<1>4. \A i \in DOMAIN new : ~new[i].ended => i = Len(new)
  BY <1>1
<1>5. \A i \in DOMAIN new : \A r, s \in new[i].record : r = s
  BY <1>1 DEF FileSound
<1>6. ASSUME NEW i \in DOMAIN new, NEW j \in DOMAIN new,
             NEW r \in new[i].record, NEW s \in new[j].record, r.hour = s.hour
      PROVE  i = j
  <2>1. CASE i \in 1 .. n /\ j \in 1 .. n
    BY <1>1, <1>6, <2>1 DEF FileSound
  <2>2. CASE i \in 1 .. n /\ j = n + 1
    <3>1. r \in OnFile(front) /\ s \in line.record
      BY <1>1, <2>2 DEF OnFile
    <3>2. QED
      BY <1>6, <3>1
  <2>3. CASE j \in 1 .. n /\ i = n + 1
    <3>1. s \in OnFile(front) /\ r \in line.record
      BY <1>1, <2>3 DEF OnFile
    <3>2. QED
      BY <1>6, <3>1
  <2>4. QED
    BY <1>1, <2>1, <2>2, <2>3
<1>7. FileSound(new)
  BY <1>1, <1>4, <1>5, <1>6 DEF FileSound
<1>8. QED
  BY <1>2, <1>3, <1>7 DEF new

(* The lines before the last. *)
LEMMA Shortened ==
    ASSUME NEW lines, FileSound(lines), lines # <<>>
    PROVE  /\ FileSound(Front(lines)) /\ \A i \in DOMAIN Front(lines) : Front(lines)[i].ended
           /\ OnFile(Front(lines)) = OnFile(lines) \ Last(lines).record
           /\ Last(lines).record \subseteq OnFile(lines)
           /\ \A r, s \in Last(lines).record : r = s
<1> DEFINE front == Front(lines)
           n == Len(lines)
<1>1. /\ n \in Nat \ {0} /\ DOMAIN lines = 1 .. n /\ front \in Seq(Lines) /\ Len(front) = n - 1
      /\ DOMAIN front = 1 .. n - 1 /\ lines \in Seq(Lines)
      /\ \A i \in 1 .. n - 1 : front[i] = lines[i]
  <2>1. lines \in Seq(Lines) /\ n \in Nat /\ n # 0 /\ DOMAIN lines = 1 .. n
    BY DEF FileSound
  <2>2. /\ SubSeq(lines, 1, n - 1) \in Seq(Lines) /\ Len(SubSeq(lines, 1, n - 1)) = n - 1
        /\ \A i \in 1 .. n - 1 : SubSeq(lines, 1, n - 1)[i] = lines[i]
    BY <2>1
  <2>3. front = SubSeq(lines, 1, n - 1)
    BY DEF Front
  <2> HIDE DEF front, n
  <2>4. QED
    BY <2>1, <2>2, <2>3
<1> HIDE DEF front
<1>2. FileSound(front) /\ \A i \in DOMAIN front : front[i].ended
  <2>1. \A i \in DOMAIN front : i \in DOMAIN lines /\ front[i] = lines[i] /\ i # n
    BY <1>1
  <2>2. QED
    BY <1>1, <2>1 DEF FileSound
<1>3. n \in DOMAIN lines /\ Last(lines) = lines[n]
  BY <1>1 DEF Last
<1> HIDE DEF n
<1>4. ASSUME NEW r PROVE r \in OnFile(front) <=> r \in OnFile(lines) /\ r \notin lines[n].record
  <2>1. ASSUME r \in OnFile(front) PROVE r \in OnFile(lines) /\ r \notin lines[n].record
    <3>1. PICK i \in DOMAIN front : r \in front[i].record
      BY <2>1 DEF OnFile
    <3>2. i \in DOMAIN lines /\ i # n /\ front[i] = lines[i]
      BY <1>1
    <3>3. r \notin lines[n].record
      BY <1>3, <3>1, <3>2 DEF FileSound
    <3>4. QED
      BY <3>1, <3>2, <3>3 DEF OnFile
  <2>2. ASSUME r \in OnFile(lines), r \notin lines[n].record PROVE r \in OnFile(front)
    <3>1. PICK i \in DOMAIN lines : r \in lines[i].record
      BY <2>2 DEF OnFile
    <3>2. i \in DOMAIN front /\ front[i] = lines[i]
      BY <1>1, <2>2, <3>1
    <3>3. QED
      BY <3>1, <3>2 DEF OnFile
  <2>3. QED
    BY <2>1, <2>2
<1>5. lines[n].record \subseteq OnFile(lines)
  BY <1>3 DEF OnFile
<1>6. QED
  BY <1>2, <1>3, <1>4, <1>5 DEF front, FileSound

LEMMA FileIsTyped ==
    ASSUME NEW lines, FileSound(lines)
    PROVE  OnFile(lines) \in SUBSET Records /\ OnePerHour(OnFile(lines))
<1>1. ASSUME NEW i \in DOMAIN lines PROVE lines[i].record \subseteq Records
  <2>1. lines[i] \in Lines
    BY DEF FileSound
  <2>2. QED
    BY <2>1 DEF Lines
<1>2. ASSUME NEW r \in OnFile(lines), NEW s \in OnFile(lines), r.hour = s.hour PROVE r = s
  <2>1. PICK i \in DOMAIN lines : r \in lines[i].record
    BY DEF OnFile
  <2>2. PICK j \in DOMAIN lines : s \in lines[j].record
    BY DEF OnFile
  <2>3. QED
    BY <1>2, <2>1, <2>2 DEF FileSound
<1>3. QED
  BY <1>1, <1>2 DEF OnFile, OnePerHour

(* With one record of an hour, every record is the latest. *)
LEMMA ParsedIsOnFile ==
    ASSUME NEW lines, FileSound(lines)
    PROVE  Parsed(lines) = OnFile(lines)
<1> DEFINE good == {i \in DOMAIN lines : lines[i].record # {}}
           latest == {i \in good : \A j \in good :
                         j > i => \A old \in lines[i].record, new \in lines[j].record :
                                     new.hour # old.hour}
<1>1. good = latest
  <2>1. ASSUME NEW i \in good, NEW j \in good, j > i,
               NEW old \in lines[i].record, NEW new \in lines[j].record
        PROVE  new.hour # old.hour
    <3>1. i \in Nat /\ j \in Nat
      BY DEF FileSound
    <3>2. QED
      BY <2>1, <3>1 DEF FileSound
  <2>2. QED
    BY <2>1
<1>2. Parsed(lines) = UNION {lines[i].record : i \in latest}
  BY DEF Parsed
<1>3. QED
  BY <1>1, <1>2 DEF OnFile

(* The ended lines are those before an unended one, or all. *)
LEMMA SettledIsEnded ==
    ASSUME NEW lines, FileSound(lines)
    PROVE  /\ Settled(lines) \subseteq OnFile(lines)
           /\ Unended(lines) => Settled(lines) \subseteq OnFile(Front(lines))
<1>1. Settled(lines) \subseteq OnFile(lines)
  BY ParsedIsOnFile DEF Settled
<1>2. ASSUME Unended(lines), NEW r \in Settled(lines) PROVE r \in OnFile(Front(lines))
  <2>1. PICK i \in DOMAIN lines : lines[i].ended /\ lines[i].record = {r}
    BY DEF Settled
  <2>2. lines # <<>> /\ Last(lines) = lines[Len(lines)] /\ ~lines[Len(lines)].ended
    BY <1>2 DEF Unended, Last
  <2>3. r \notin Last(lines).record
    BY <2>1, <2>2 DEF FileSound
  <2>4. QED
    BY <1>1, <2>2, <2>3, Shortened
<1>3. QED
  BY <1>1, <1>2

LEMMA AllEnded ==
    ASSUME NEW lines, FileSound(lines), ~Unended(lines)
    PROVE  \A i \in DOMAIN lines : lines[i].ended
<1>1. SUFFICES ASSUME NEW i \in DOMAIN lines, ~lines[i].ended PROVE FALSE
  OBVIOUS
<1>2. i = Len(lines) /\ lines # <<>>
  BY <1>1 DEF FileSound
<1>3. QED
  BY <1>1, <1>2 DEF Unended, Last

LEMMA WithoutPart ==
    ASSUME NEW S, IsFiniteSet(S), NEW T \in SUBSET S
    PROVE  /\ Cardinality(T) \in Nat /\ Cardinality(S \ T) \in Nat
           /\ Cardinality(S \ T) = Cardinality(S) - Cardinality(T)
<1>1. S \cap T = T
  OBVIOUS
<1>2. IsFiniteSet(T) /\ IsFiniteSet(S \ T)
  BY FS_Subset, FS_Difference
<1>3. Cardinality(S \ T) = Cardinality(S) - Cardinality(S \cap T)
  BY FS_Difference
<1>4. QED
  BY <1>1, <1>2, <1>3, FS_CardinalityType

LEMMA LastIsLine ==
    ASSUME NEW lines, FileSound(lines), Unended(lines)
    PROVE  Last(lines) \in Lines /\ Last(lines).garbled \in BOOLEAN
<1>1. lines \in Seq(Lines) /\ lines # <<>> /\ Last(lines) = lines[Len(lines)]
  BY DEF FileSound, Unended, Last
<1>2. Last(lines) \in Lines
  BY <1>1
<1>3. QED
  BY <1>2 DEF Lines

(* Where a file is garbled. *)
LEMMA GarbledParts ==
    ASSUME NEW lines \in Seq(Lines), NEW line \in Lines
    PROVE  /\ Garbled(Append(lines, line)) => Garbled(lines) \/ line.garbled
           /\ lines # <<>> /\ (Garbled(Front(lines)) \/ Last(lines).garbled) => Garbled(lines)
<1>1. ASSUME Garbled(Append(lines, line)), ~line.garbled PROVE Garbled(lines)
  <2> DEFINE new == Append(lines, line)
  <2>1. PICK i \in DOMAIN new : new[i].garbled
    BY <1>1 DEF Garbled
  <2>2. /\ DOMAIN new = 1 .. Len(lines) + 1 /\ new[Len(lines) + 1] = line
        /\ \A n \in 1 .. Len(lines) : new[n] = lines[n]
    OBVIOUS
  <2> HIDE DEF new
  <2>3. i \in 1 .. Len(lines)
    BY <1>1, <2>1, <2>2
  <2>4. QED
    BY <2>1, <2>2, <2>3 DEF Garbled
<1>2. ASSUME lines # <<>>, Last(lines).garbled PROVE Garbled(lines)
  <2>1. Len(lines) \in DOMAIN lines /\ Last(lines) = lines[Len(lines)]
    BY <1>2 DEF Last
  <2>2. QED
    BY <1>2, <2>1 DEF Garbled
<1>3. ASSUME lines # <<>>, Garbled(Front(lines)) PROVE Garbled(lines)
  <2> DEFINE front == Front(lines)
  <2>1. PICK i \in DOMAIN front : front[i].garbled
    BY <1>3 DEF Garbled
  <2>2. i \in DOMAIN lines /\ front[i] = lines[i]
    BY <1>3, <2>1 DEF Front
  <2>3. QED
    BY <2>1, <2>2 DEF Garbled
<1>4. QED
  BY <1>1, <1>2, <1>3

(* A write garbles nothing: the line it continues is garbled as it was. *)
LEMMA AppendedGarblesNothing ==
    ASSUME NEW lines, FileSound(lines), NEW record \in Records, Garbled(Appended(lines, record))
    PROVE  Garbled(lines)
<1>1. lines \in Seq(Lines)
  BY DEF FileSound
<1>2. CASE Unended(lines)
  <2> DEFINE line == Line({}, TRUE, Last(lines).garbled)
  <2>1. line \in Lines /\ line.garbled = Last(lines).garbled
    BY <1>2, LastIsLine DEF Line, Lines
  <2>2. Appended(lines, record) = Append(Front(lines), line)
    BY <1>2 DEF Appended
  <2> HIDE DEF line
  <2>3. lines # <<>> /\ Front(lines) \in Seq(Lines)
    BY <1>2, Shortened DEF Unended, FileSound
  <2>4. Garbled(Front(lines)) \/ line.garbled
    BY <2>1, <2>2, <2>3, GarbledParts
  <2>5. line \in Lines
    BY <2>1
  <2>6. QED
    BY <1>1, <2>1, <2>3, <2>4, GarbledParts
<1>3. CASE ~Unended(lines)
  <2> DEFINE line == Line({record}, TRUE, FALSE)
  <2>1. line \in Lines /\ ~line.garbled
    BY DEF Line, Lines
  <2>2. Appended(lines, record) = Append(lines, line)
    BY <1>3 DEF Appended
  <2> HIDE DEF line
  <2>3. QED
    BY <1>1, <2>1, <2>2, GarbledParts
<1>4. QED
  BY <1>2, <1>3

(* A line in the place of an unended one. *)
LEMMA Overwritten ==
    ASSUME NEW lines, FileSound(lines), Unended(lines), NEW ended \in BOOLEAN,
           NEW garbled \in BOOLEAN
    PROVE  LET new == Append(Front(lines), Line({}, ended, garbled))
           IN  /\ FileSound(new) /\ (Unended(new) <=> ~ended)
               /\ Last(new).record = {}
               /\ OnFile(new) \subseteq OnFile(lines) /\ Settled(lines) \subseteq OnFile(new)
               /\ Cardinality(OnFile(new)) \in Nat
               /\ Debt(lines) \in Nat
               /\ Cardinality(OnFile(new)) = Cardinality(OnFile(lines)) - Debt(lines) + 1
<1> DEFINE line == Line({}, ended, garbled)
           new == Append(Front(lines), line)
           k == Cardinality(Last(lines).record)
<1>1. line \in Lines /\ line.record = {} /\ line.ended = ended
  BY DEF Line, Lines
<1> HIDE DEF line
<1>2. /\ lines # <<>> /\ FileSound(Front(lines))
      /\ \A i \in DOMAIN Front(lines) : Front(lines)[i].ended
      /\ OnFile(Front(lines)) = OnFile(lines) \ Last(lines).record
      /\ Last(lines).record \in SUBSET OnFile(lines)
  BY Shortened DEF Unended
<1>3. \A r, s \in line.record : r = s
  BY <1>1
<1>4. \A r \in OnFile(Front(lines)), s \in line.record : r.hour # s.hour
  BY <1>1
<1>5. /\ FileSound(new) /\ new # <<>> /\ Last(new) = line
      /\ OnFile(new) = OnFile(Front(lines)) \cup line.record
  BY <1>1, <1>2, <1>3, <1>4, Prolonged
<1>6. OnFile(new) = OnFile(lines) \ Last(lines).record
  BY <1>1, <1>2, <1>5
<1> HIDE DEF new
<1>7. IsFiniteSet(OnFile(lines)) /\ Cardinality(OnFile(lines)) \in Nat
  BY FileIsTyped, PerHourIsFinite
<1>8. k \in Nat /\ Cardinality(OnFile(new)) \in Nat
      /\ Cardinality(OnFile(new)) = Cardinality(OnFile(lines)) - k
  BY <1>2, <1>6, <1>7, WithoutPart
<1>9. Debt(lines) = 1 + k
  BY DEF Debt
<1>10. Settled(lines) \subseteq OnFile(new)
  BY <1>2, <1>6, SettledIsEnded
<1>11. Unended(new) <=> ~ended
  BY <1>1, <1>5 DEF Unended
<1> HIDE DEF k
<1>12. /\ FileSound(new) /\ Last(new).record = {} /\ OnFile(new) \subseteq OnFile(lines)
       /\ Debt(lines) \in Nat
       /\ Cardinality(OnFile(new)) = Cardinality(OnFile(lines)) - Debt(lines) + 1
  BY <1>1, <1>5, <1>6, <1>7, <1>8, <1>9
<1>13. QED
  BY <1>8, <1>10, <1>11, <1>12, Zenon DEF new, line

(* A record that is written: what it adds, and what goes with an unended line. *)
LEMMA AppendedSound ==
    ASSUME NEW lines, FileSound(lines), NEW record \in Records,
           \A r \in OnFile(lines) : r.hour # record.hour
    PROVE  LET new == Appended(lines, record)
           IN  /\ FileSound(new) /\ ~Unended(new)
               /\ OnFile(new) \subseteq OnFile(lines) \cup {record}
               /\ Settled(lines) \subseteq OnFile(new)
               /\ Cardinality(OnFile(lines)) - Debt(lines) + 1 <= Cardinality(OnFile(new))
<1> DEFINE new == Appended(lines, record)
           c == Cardinality(OnFile(lines))
<1>1. IsFiniteSet(OnFile(lines)) /\ c \in Nat
  BY FileIsTyped, PerHourIsFinite
<1>2. CASE Unended(lines)
  <2>1. /\ new = Append(Front(lines), Line({}, TRUE, Last(lines).garbled))
        /\ Last(lines).garbled \in BOOLEAN
    BY <1>2, LastIsLine DEF Appended
  <2> HIDE DEF new
  <2>2. /\ FileSound(new) /\ ~Unended(new)
        /\ OnFile(new) \subseteq OnFile(lines) /\ Settled(lines) \subseteq OnFile(new)
        /\ Cardinality(OnFile(new)) \in Nat /\ Debt(lines) \in Nat
        /\ Cardinality(OnFile(new)) = c - Debt(lines) + 1
    BY <1>2, <2>1, Overwritten
  <2> HIDE DEF c
  <2>3. c - Debt(lines) + 1 <= Cardinality(OnFile(new))
    BY <2>2
  <2>4. QED
    BY <2>2, <2>3 DEF new, c
<1>3. CASE ~Unended(lines)
  <2> DEFINE line == Line({record}, TRUE, FALSE)
  <2>1. new = Append(lines, line)
    BY <1>3 DEF Appended
  <2>2. line \in Lines /\ line.record = {record} /\ line.ended
    BY DEF Line, Lines
  <2> HIDE DEF line
  <2>3. /\ FileSound(new) /\ new # <<>> /\ Last(new) = line
        /\ OnFile(new) = OnFile(lines) \cup {record}
    BY <1>3, <2>1, <2>2, AllEnded, Prolonged
  <2>10. record \notin OnFile(lines)
    OBVIOUS
  <2>4. Cardinality(OnFile(new)) = c + 1
    BY <1>1, <2>3, <2>10, FS_AddElement
  <2>5. Debt(lines) = 0
    BY <1>3 DEF Debt
  <2> HIDE DEF new, c
  <2>6. c - Debt(lines) + 1 <= Cardinality(OnFile(new))
    BY <1>1, <2>4, <2>5
  <2>7. Settled(lines) \subseteq OnFile(new)
    BY <2>3, SettledIsEnded
  <2>8. ~Unended(new)
    BY <2>2, <2>3 DEF Unended
  <2>9. QED
    BY <2>3, <2>6, <2>7, <2>8 DEF new, c
<1>4. QED
  BY <1>2, <1>3

(* A write cut short. *)
LEMMA CutSound ==
    ASSUME NEW lines, FileSound(lines), NEW record \in Records,
           \A r \in OnFile(lines) : r.hour # record.hour,
           NEW new \in CutShort(lines, record)
    PROVE  /\ FileSound(new)
           /\ OnFile(new) \subseteq OnFile(lines) \cup {record}
           /\ Settled(lines) \subseteq OnFile(new)
           /\ Cardinality(OnFile(new)) \in Nat /\ Debt(new) \in Nat
           /\ Cardinality(OnFile(lines)) - Debt(lines)
                <= Cardinality(OnFile(new)) - Debt(new) + 1
<1> DEFINE c == Cardinality(OnFile(lines))
<1>1. IsFiniteSet(OnFile(lines)) /\ c \in Nat
  BY FileIsTyped, PerHourIsFinite
<1>2. CASE Unended(lines)
  <2>1. PICK garbled \in BOOLEAN : new = Append(Front(lines), Line({}, FALSE, garbled))
    BY <1>2, LastIsLine DEF CutShort
  <2>2. /\ FileSound(new) /\ Unended(new) /\ Last(new).record = {}
        /\ OnFile(new) \subseteq OnFile(lines) /\ Settled(lines) \subseteq OnFile(new)
        /\ Cardinality(OnFile(new)) \in Nat /\ Debt(lines) \in Nat
        /\ Cardinality(OnFile(new)) = c - Debt(lines) + 1
    BY <1>2, <2>1, Overwritten
  <2>3. Debt(new) = 1
    BY <2>2, FS_EmptySet DEF Debt
  <2> HIDE DEF c
  <2>4. c - Debt(lines) <= Cardinality(OnFile(new)) - Debt(new) + 1
    BY <1>1, <2>2, <2>3
  <2>5. QED
    BY <2>2, <2>3, <2>4 DEF c
<1>3. CASE ~Unended(lines)
  <2>1. PICK part \in {{}, {record}}, garbled \in BOOLEAN :
          new = Append(lines, Line(part, FALSE, garbled))
    BY <1>3 DEF CutShort
  <2> DEFINE line == Line(part, FALSE, garbled)
             d == Cardinality(OnFile(new))
  <2>2. line \in Lines /\ line.record = part /\ ~line.ended
    BY DEF Line, Lines
  <2>3. new = Append(lines, line)
    BY <2>1
  <2> HIDE DEF line
  <2>4. /\ FileSound(new) /\ new # <<>> /\ Last(new) = line
        /\ OnFile(new) = OnFile(lines) \cup part
    BY <1>3, <2>2, <2>3, AllEnded, Prolonged
  <2>5. Debt(lines) = 0 /\ Debt(new) = 1 + Cardinality(part)
    BY <1>3, <2>2, <2>4 DEF Debt, Unended
  <2>6. Cardinality(part) \in Nat /\ d = c + Cardinality(part)
    <3>1. CASE part = {}
      BY <1>1, <2>4, <3>1, FS_EmptySet
    <3>2. CASE part = {record}
      <4>1. record \notin OnFile(lines)
        OBVIOUS
      <4>2. Cardinality(part) = 1
        BY <3>2, FS_Singleton
      <4>3. d = c + 1
        BY <1>1, <2>4, <3>2, <4>1, FS_AddElement
      <4> HIDE DEF c, d
      <4>4. QED
        BY <4>2, <4>3
    <3>3. QED
      BY <3>1, <3>2
  <2> HIDE DEF c, d
  <2>7. d \in Nat /\ Debt(new) \in Nat /\ c - Debt(lines) <= d - Debt(new) + 1
    BY <1>1, <2>5, <2>6
  <2>8. Settled(lines) \subseteq OnFile(new)
    BY <2>4, SettledIsEnded
  <2>9. QED
    BY <2>4, <2>7, <2>8 DEF c, d
<1>4. QED
  BY <1>2, <1>3

LEMMA NothingOnFile ==
    FileSound(<<>>) /\ OnFile(<<>>) = {} /\ Debt(<<>>) = 0 /\ ~Garbled(<<>>)
BY DEF FileSound, OnFile, Debt, Unended, Garbled

LEMMA DebtIsTyped ==
    ASSUME NEW lines, FileSound(lines)
    PROVE  Debt(lines) \in Nat /\ Cardinality(OnFile(lines)) \in Nat /\ IsFiniteSet(OnFile(lines))
<1>1. IsFiniteSet(OnFile(lines)) /\ Cardinality(OnFile(lines)) \in Nat
  BY FileIsTyped, PerHourIsFinite
<1>2. CASE Unended(lines)
  <2>1. Last(lines).record \in SUBSET OnFile(lines)
    BY <1>2, Shortened DEF Unended
  <2>2. Cardinality(Last(lines).record) \in Nat
    BY <1>1, <2>1, FS_Subset, FS_CardinalityType
  <2>3. QED
    BY <1>1, <1>2, <2>2 DEF Debt
<1>3. CASE ~Unended(lines)
  BY <1>1, <1>3 DEF Debt
<1>4. QED
  BY <1>2, <1>3

-------------------------------------------------------------------------------
(* Verdicts *)

LEMMA VerdictIsTyped ==
    ASSUME NEW analysis
    PROVE  /\ Verdict(analysis) \in Verdicts
           /\ Verdict(analysis) = "wait" <=> analysis.decision = "WAIT"
           /\ Verdict(analysis) = "created" => analysis.decision \in {"LONG", "SHORT"}
BY DEF Verdict, Verdicts, Valid

(* The fallback is no signal: its stop is its entry, where there is one. *)
LEMMA FallbackIsRejected == Verdict(Fallback) = "rejected"
<1>1. /\ Fallback.decision = "LONG"
      /\ Fallback["entry"] = Market.close /\ Fallback["stop"] = Market.close
      /\ Fallback.entry = Market.close /\ Fallback.stop = Market.close
  BY DEF Fallback, InContext
<1>2. ASSUME Valid(Fallback, Guards) PROVE FALSE
  <2>1. \E price \in Market.close : price > 0
    BY <1>1, <1>2 DEF Valid, HasPrices
  <2> DEFINE price == CHOOSE price \in Market.close : TRUE
  <2>2. price \in Int
    BY <2>1, BenchmarkAssumption
  <2>3. Price(Fallback, "entry") = price /\ Price(Fallback, "stop") = price
    BY <1>1 DEF Price
  <2> HIDE DEF price
  <2>4. \E take : PricesOrdered("LONG", price, price, take)
    BY <1>1, <1>2, <2>3 DEF Valid
  <2>5. QED
    BY <2>2, <2>4 DEF PricesOrdered
<1>3. QED
  BY <1>1, <1>2 DEF Verdict

(* A replay knows the close and nothing else: every guard that reads more is *)
(* skipped, the others decide as they did.                                   *)
LEMMA ReplayLoosens ==
    ASSUME NEW proposal, NEW wiring, Verdict(InContext(proposal, Context(wiring))) # "rejected"
    PROVE  Verdict(InContext(proposal, NoContext)) = Verdict(InContext(proposal, Context(wiring)))
<1> DEFINE full == InContext(proposal, Context(wiring))
           bare == InContext(proposal, NoContext)
<1>1. /\ bare.decision = full.decision /\ bare.entry = full.entry /\ bare.stop = full.stop
      /\ bare.take = full.take /\ bare.confidence = full.confidence /\ bare.close = full.close
      /\ bare.atr = {} /\ bare.funding = {} /\ bare.regime = {}
      /\ \A field \in {"entry", "stop", "take"} : bare[field] = full[field]
  BY DEF InContext, Context, NoContext
<1> HIDE DEF full, bare
<1>2. ASSUME Valid(full, Guards) PROVE Valid(bare, Guards)
  <2>1. /\ Price(bare, "entry") = Price(full, "entry") /\ Price(bare, "stop") = Price(full, "stop")
        /\ Price(bare, "take") = Price(full, "take")
    BY <1>1 DEF Price
  <2>2. HasPrices(bare)
    BY <1>1, <1>2 DEF HasPrices, Valid
  <2> DEFINE entry == Price(full, "entry")
             stop == Price(full, "stop")
             take == Price(full, "take")
  <2>3. /\ PricesOrdered(bare.decision, entry, stop, take) /\ Confident(bare.confidence, Guards)
        /\ LevelsSound(entry, stop, take, full.atr, full.close, Guards)
    BY <1>1, <1>2 DEF Valid
  <2> HIDE DEF entry, stop, take
  <2>4. LevelsSound(entry, stop, take, bare.atr, bare.close, Guards)
    BY <1>1, <2>3 DEF LevelsSound
  <2>5. /\ NotCrowded(bare.decision, bare.funding, Guards)
        /\ WithRegime(bare.decision, bare.regime, Guards)
    BY <1>1 DEF NotCrowded, WithRegime
  <2>6. QED
    BY <1>1, <1>2, <2>1, <2>2, <2>3, <2>4, <2>5 DEF Valid, entry, stop, take
<1>3. QED
  BY <1>1, <1>2 DEF Verdict, full, bare

-------------------------------------------------------------------------------
(* The invariant *)

(* What a record says of the model's answer, now and in a replay. *)
Faithful(record) ==
    /\ record.verdict # "rejected" => Verdict(Rebuilt(record)) = record.verdict
    /\ record.verdict = "wait" <=> record.proposal.decision = "WAIT"
    /\ record.verdict = "created" => record.proposal.decision \in {"LONG", "SHORT"}

(* The records are those of the latest answers. *)
RecordsSound ==
    /\ FileSound(file)
    /\ memory \in SUBSET Records /\ OnePerHour(memory)
    /\ \A r \in OnFile(file) \cup memory : Faithful(r) /\ r.verdict = history.verdict[r.hour]

(* One run at a time: what it remembers, and where it is. *)
RunSound ==
    /\ run = {} => memory = {} /\ pending = {} /\ call = {} /\ source = Nowhere
    /\ run # {} => OnFile(file) \subseteq memory
    /\ \A r, s \in run : r = s
    /\ \A r \in run : r.force => \A m \in memory : m.hour < hour \/ m \in pending
    /\ call # {} => hour <= Hours /\ pending = {} /\ Cached(hour) = {}
    /\ \A r, s \in pending : r = s
    /\ \A r \in pending :
            r \in memory /\ r.hour = hour /\ (\A other \in OnFile(file) : other.hour # hour)

(* Every put is on file, but for what faults cost and are about to cost; only *)
(* a fault garbles.                                                           *)
PaidSound ==
    /\ history \in [puts : Nat, verdict : [1 .. Hours -> Verdicts \cup {"none"}],
                    runs : Nat, faults : Nat]
    /\ history.puts - Cardinality(OnFile(file)) + Debt(file) <= history.faults
    /\ Garbled(file) => history.faults > 0

Sourced(sources, kind) == {h \in 1 .. Hours : sources[h] = kind}

(* What the engine made of the hours before this one. *)
EngineSound ==
    /\ hour \in 1 .. Hours + 1
    /\ judged \in [1 .. Hours -> Verdicts \cup {"none"}]
    /\ source \in [1 .. Hours -> {"cache", "model", "failed", "none"}]
    /\ \A h \in 1 .. Hours : source[h] # "none" => h < hour
    /\ \A h \in 1 .. Hours : judged[h] = "none" <=> source[h] = "none"
    /\ \A h \in 1 .. Hours : source[h] = "failed" => judged[h] = "rejected"
    /\ stats \in [cached : Nat, fresh : Nat, failed : Nat]
    /\ stats.cached = Cardinality(Sourced(source, "cache"))
    /\ stats.failed = Cardinality(Sourced(source, "failed"))
    /\ stats.fresh = Cardinality(Sourced(source, "model")) + stats.failed

ReplaysSound ==
    \A h \in 1 .. Hours :
        source[h] = "cache" /\ history.verdict[h] # "rejected" => judged[h] = history.verdict[h]

(* The record an hour was decided by. *)
Decides(record, h, verdict) ==
    /\ record.hour = h
    /\ verdict = "wait" => record.verdict # "rejected" /\ record.proposal.decision = "WAIT"
    /\ verdict = "created" =>
            record.verdict = "rejected" \/ record.proposal.decision \in {"LONG", "SHORT"}

FailedYetKept == {h \in Sourced(source, "failed") : Cached(h) # {}}

SummarySound ==
    /\ \A h \in 1 .. Hours :
            source[h] \in {"cache", "model"} => \E m \in memory : Decides(m, h, judged[h])
    /\ Cardinality(FailedYetKept) <= history.faults

Sound ==
    RecordsSound /\ RunSound /\ PaidSound /\ EngineSound /\ ReplaysSound /\ SummarySound

LEMMA HoursAreCounted ==
    ASSUME NEW hours \in SUBSET (1 .. Hours)
    PROVE  IsFiniteSet(hours) /\ Cardinality(hours) \in Nat
<1>1. IsFiniteSet(1 .. Hours)
  BY FS_Interval, BenchmarkAssumption
<1>2. QED
  BY <1>1, FS_Subset, FS_CardinalityType

(* Nothing decided. *)
LEMMA NowhereIsSound ==
    /\ Nowhere \in [1 .. Hours -> Verdicts \cup {"none"}]
    /\ Nowhere \in [1 .. Hours -> {"cache", "model", "failed", "none"}]
    /\ \A h \in 1 .. Hours : Nowhere[h] = "none"
    /\ \A kind \in {"cache", "model", "failed"} :
            Sourced(Nowhere, kind) = {} /\ Cardinality(Sourced(Nowhere, kind)) = 0
<1>1. \A h \in 1 .. Hours : Nowhere[h] = "none"
  BY DEF Nowhere
<1>2. \A kind \in {"cache", "model", "failed"} : Sourced(Nowhere, kind) = {}
  BY <1>1 DEF Sourced
<1>3. QED
  BY <1>1, <1>2, FS_EmptySet DEF Nowhere

LEMMA InitSound == ASSUME Init PROVE Sound
<1>1. /\ file = <<>> /\ OnFile(file) = {} /\ FileSound(file) /\ Debt(file) = 0
      /\ ~Garbled(file)
  BY NothingOnFile DEF Init
<1>2. RecordsSound
  BY <1>1 DEF Init, RecordsSound, OnePerHour
<1>3. RunSound
  BY <1>1 DEF Init, RunSound, InferenceInit
<1>4. PaidSound
  <2>1. Cardinality({}) = 0
    BY FS_EmptySet
  <2>2. history = [puts |-> 0, verdict |-> Nowhere, runs |-> 0, faults |-> 0]
    BY DEF Init
  <2>3. history \in [puts : Nat, verdict : [1 .. Hours -> Verdicts \cup {"none"}],
                    runs : Nat, faults : Nat]
    <3>1. Nowhere \in [1 .. Hours -> Verdicts \cup {"none"}]
      BY NowhereIsSound
    <3>2. QED
      BY <2>2, <3>1
  <2>4. history.puts - Cardinality(OnFile(file)) + Debt(file) <= history.faults
    <3>1. Cardinality(OnFile(file)) = 0 /\ Debt(file) = 0
      BY <1>1, <2>1
    <3>2. history.puts = 0 /\ history.faults = 0
      BY <2>2
    <3>3. QED
      BY <3>1, <3>2
  <2>5. QED
    BY <1>1, <2>3, <2>4 DEF PaidSound
<1>5. hour = 1 /\ judged = Nowhere /\ source = Nowhere /\ stats = NoStats
  BY DEF Init
<1>6. EngineSound /\ ReplaysSound
  BY <1>5, NowhereIsSound, BenchmarkAssumption DEF EngineSound, ReplaysSound, NoStats
<1>7. SummarySound
  <2>1. FailedYetKept = {} /\ Cardinality(FailedYetKept) = 0
    BY <1>5, NowhereIsSound, FS_EmptySet DEF FailedYetKept
  <2>2. QED
    BY <1>4, <1>5, <2>1, NowhereIsSound DEF SummarySound, PaidSound
<1>8. QED
  BY <1>2, <1>3, <1>4, <1>6, <1>7 DEF Sound

-------------------------------------------------------------------------------
(* An hour is decided *)

LEMMA ConcludeSound ==
    ASSUME EngineSound, hour <= Hours,
           NEW verdict \in Verdicts, NEW from \in {"cache", "model", "failed"},
           Conclude(verdict, from), stats' = Counted(from),
           from = "failed" => verdict = "rejected"
    PROVE  /\ EngineSound' /\ hour' = hour + 1
           /\ source[hour] = "none"
           /\ source' = [source EXCEPT ![hour] = from] /\ judged' = [judged EXCEPT ![hour] = verdict]
           /\ Sourced(source', from) = Sourced(source, from) \cup {hour}
           /\ \A kind \in {"cache", "model", "failed"} \ {from} :
                   Sourced(source', kind) = Sourced(source, kind)
<1>1. /\ hour \in 1 .. Hours /\ hour' = hour + 1
      /\ source' = [source EXCEPT ![hour] = from] /\ judged' = [judged EXCEPT ![hour] = verdict]
      /\ DOMAIN source = 1 .. Hours /\ DOMAIN judged = 1 .. Hours /\ Hours \in Nat
  BY BenchmarkAssumption DEF EngineSound, Conclude
<1>2. source[hour] = "none"
  BY <1>1 DEF EngineSound
<1>3. Sourced(source', from) = Sourced(source, from) \cup {hour}
  BY <1>1 DEF Sourced
<1>4. ASSUME NEW kind \in {"cache", "model", "failed"} \ {from}
      PROVE  Sourced(source', kind) = Sourced(source, kind)
  BY <1>1, <1>2, <1>4 DEF Sourced
<1>5. /\ hour' \in 1 .. Hours + 1
      /\ judged' \in [1 .. Hours -> Verdicts \cup {"none"}]
      /\ source' \in [1 .. Hours -> {"cache", "model", "failed", "none"}]
  BY <1>1 DEF EngineSound
<1>6. /\ \A h \in 1 .. Hours : source'[h] # "none" => h < hour'
      /\ \A h \in 1 .. Hours : judged'[h] = "none" <=> source'[h] = "none"
      /\ \A h \in 1 .. Hours : source'[h] = "failed" => judged'[h] = "rejected"
  BY <1>1 DEF EngineSound, Verdicts
<1>7. \A kind \in {"cache", "model", "failed"} :
         Cardinality(Sourced(source, kind)) \in Nat /\ IsFiniteSet(Sourced(source, kind))
  BY HoursAreCounted DEF Sourced
<1>8. Cardinality(Sourced(source', from)) = Cardinality(Sourced(source, from)) + 1
  <2>1. hour \notin Sourced(source, from)
    BY <1>2 DEF Sourced
  <2>2. QED
    BY <1>3, <1>7, <2>1, FS_AddElement
<1>9. /\ stats' \in [cached : Nat, fresh : Nat, failed : Nat]
      /\ stats'.cached = Cardinality(Sourced(source', "cache"))
      /\ stats'.failed = Cardinality(Sourced(source', "failed"))
      /\ stats'.fresh = Cardinality(Sourced(source', "model")) + stats'.failed
  <2>1. CASE from = "cache"
    BY <1>4, <1>7, <1>8, <2>1 DEF EngineSound, Counted
  <2>2. CASE from = "model"
    BY <1>4, <1>7, <1>8, <2>2 DEF EngineSound, Counted
  <2>3. CASE from = "failed"
    <3>1. stats' = [stats EXCEPT !.fresh = @ + 1, !.failed = @ + 1]
      BY <2>3 DEF Counted
    <3>2. stats \in [cached : Nat, fresh : Nat, failed : Nat]
      BY DEF EngineSound
    <3>3. /\ stats' \in [cached : Nat, fresh : Nat, failed : Nat]
          /\ stats'.cached = stats.cached /\ stats'.fresh = stats.fresh + 1
          /\ stats'.failed = stats.failed + 1
      <4> DEFINE more == [stats EXCEPT !.fresh = @ + 1]
      <4>1. /\ more \in [cached : Nat, fresh : Nat, failed : Nat]
            /\ more.cached = stats.cached /\ more.fresh = stats.fresh + 1
            /\ more.failed = stats.failed
        BY <3>2
      <4>2. stats' = [more EXCEPT !.failed = more.failed + 1]
        BY <3>1, <4>1
      <4> HIDE DEF more
      <4>3. QED
        BY <3>2, <4>1, <4>2
    <3>4. /\ Sourced(source', "cache") = Sourced(source, "cache")
          /\ Sourced(source', "model") = Sourced(source, "model")
      BY <1>4, <2>3
    <3>5. QED
      BY <1>7, <1>8, <2>3, <3>2, <3>3, <3>4 DEF EngineSound
  <2>4. QED
    BY <2>1, <2>2, <2>3
<1>10. EngineSound'
  BY <1>5, <1>6, <1>9 DEF EngineSound
<1>11. QED
  BY <1>1, <1>2, <1>3, <1>4, <1>10

(* An hour is decided by the fallback; the disk may have refused its record. *)
LEMMA FailureSound ==
    ASSUME Sound, hour <= Hours, UNCHANGED memory, history'.verdict = history.verdict,
           Conclude(Verdict(Fallback), "failed"), stats' = Counted("failed"),
           \/ Cached(hour) = {} /\ history'.faults = history.faults
           \/ history'.faults = history.faults + 1
    PROVE  EngineSound' /\ ReplaysSound' /\ SummarySound' /\ hour' = hour + 1
<1>1. /\ EngineSound' /\ hour' = hour + 1 /\ source[hour] = "none"
      /\ source' = [source EXCEPT ![hour] = "failed"]
      /\ judged' = [judged EXCEPT ![hour] = "rejected"]
      /\ Sourced(source', "failed") = Sourced(source, "failed") \cup {hour}
  BY FallbackIsRejected, ConcludeSound DEF Sound, Verdicts
<1>2. DOMAIN source = 1 .. Hours /\ DOMAIN judged = 1 .. Hours
  BY DEF Sound, EngineSound
<1>3. ReplaysSound'
  BY <1>1, <1>2 DEF Sound, ReplaysSound
<1>4. \A h \in 1 .. Hours :
         source'[h] \in {"cache", "model"} => \E m \in memory' : Decides(m, h, judged'[h])
  BY <1>1, <1>2 DEF Sound, SummarySound
<1>5. \A h : Cached(h)' = Cached(h)
  BY DEF Cached
<1>6. FailedYetKept' = {h \in Sourced(source', "failed") : Cached(h) # {}}
  BY <1>5 DEF FailedYetKept
<1>7. IsFiniteSet(FailedYetKept) /\ Cardinality(FailedYetKept) \in Nat
      /\ Cardinality(FailedYetKept) <= history.faults /\ history.faults \in Nat
  BY HoursAreCounted DEF FailedYetKept, Sourced, Sound, SummarySound, PaidSound
<1>8. Cardinality(FailedYetKept') <= history'.faults
  <2>1. CASE Cached(hour) = {}
    <3>1. FailedYetKept' = FailedYetKept
      BY <1>1, <1>6, <2>1 DEF FailedYetKept
    <3>2. QED
      BY <1>7, <3>1
  <2>2. CASE Cached(hour) # {}
    <3>1. FailedYetKept' = FailedYetKept \cup {hour}
      BY <1>1, <1>6, <2>2 DEF FailedYetKept
    <3> DEFINE kept == FailedYetKept
               k == Cardinality(kept)
               k2 == Cardinality(kept \cup {hour})
    <3>2. IsFiniteSet(kept)
      BY <1>7
    <3>3. k2 = k \/ k2 = k + 1
      <4> HIDE DEF kept
      <4>1. QED
        BY <3>2, FS_AddElement
    <3>4. k \in Nat /\ k <= history.faults /\ history.faults \in Nat
      BY <1>7
    <3>5. history'.faults = history.faults + 1
      BY <2>2
    <3>6. Cardinality(FailedYetKept') = k2
      BY <3>1
    <3> HIDE DEF kept, k, k2
    <3>7. QED
      BY <3>3, <3>4, <3>5, <3>6
  <2>3. QED
    BY <2>1, <2>2
<1>9. QED
  BY <1>1, <1>3, <1>4, <1>8 DEF SummarySound

(* The call raises, the wiring clashes or the answer is refused. *)
LEMMA CallFailsSound ==
    ASSUME Sound, CallRaises \/ WiringClashes \/ AnswerRefused
    PROVE  Sound'
<1>1. /\ Conclude(Verdict(Fallback), "failed") /\ stats' = Counted("failed")
      /\ UNCHANGED <<file, memory, run, history, pending>>
  BY DEF CallRaises, WiringClashes, AnswerRefused, Fail, cache
<1>2. /\ hour <= Hours /\ pending = {} /\ run # {} /\ Cached(hour) = {} /\ call' = {}
  <2>1. CASE call # {}
    <3>1. call' = {}
      BY <2>1 DEF CallRaises, WiringClashes, AnswerRefused, Raises, Deciding
    <3>2. QED
      BY <2>1, <3>1 DEF Sound, RunSound
  <2>2. CASE call = {}
    <3>1. WiringClashes
      BY <2>2 DEF CallRaises, AnswerRefused, Raises, Answered
    <3>2. PICK r \in run : Deciding(r) /\ Usable(r, hour) = {} /\ UNCHANGED call
      BY <3>1 DEF WiringClashes, inference
    <3>3. hour <= Hours /\ pending = {}
      BY <3>2 DEF Deciding
    <3>4. Cached(hour) = {}
      <4>1. CASE r.force
        <5>1. \A m \in memory : m.hour < hour
          BY <3>2, <3>3, <4>1 DEF Sound, RunSound
        <5>2. QED
          BY <5>1 DEF Cached, Sound, EngineSound
      <4>2. CASE ~r.force
        BY <3>2, <4>2 DEF Usable
      <4>3. QED
        BY <4>1, <4>2
    <3>5. QED
      BY <2>2, <3>2, <3>3, <3>4
  <2>3. QED
    BY <2>1, <2>2
<1>3. EngineSound' /\ ReplaysSound' /\ SummarySound' /\ hour' = hour + 1
  BY <1>1, <1>2, FailureSound
<1>4. RecordsSound' /\ PaidSound'
  BY <1>1 DEF Sound, RecordsSound, PaidSound
<1>5. RunSound'
  <2>1. \A m \in memory : m.hour \in Nat
    BY DEF Sound, RecordsSound, Records
  <2>2. hour \in Nat
    BY DEF Sound, EngineSound
  <2>3. \A r \in run' : r.force => \A m \in memory' : m.hour < hour'
    BY <1>1, <1>2, <1>3, <2>1, <2>2 DEF Sound, RunSound
  <2>4. QED
    BY <1>1, <1>2, <2>3 DEF Sound, RunSound
<1>6. QED
  BY <1>3, <1>4, <1>5 DEF Sound

-------------------------------------------------------------------------------
(* The steps of a run *)

LEMMA SkipSound == ASSUME Sound, Skip PROVE Sound'
<1>1. /\ UNCHANGED <<call, file, memory, run, judged, source, stats, pending, history>>
      /\ hour' = hour + 1 /\ hour <= Hours /\ call = {} /\ pending = {}
  BY DEF Skip, Deciding, inference, cache
<1>2. hour \in Nat /\ Hours \in Nat /\ \A m \in memory : m.hour \in Nat
  BY BenchmarkAssumption DEF Sound, EngineSound, RecordsSound, Records
<1>3. RecordsSound' /\ PaidSound' /\ ReplaysSound' /\ SummarySound'
  BY <1>1 DEF Sound, RecordsSound, PaidSound, ReplaysSound, SummarySound, FailedYetKept, Cached
<1>4. EngineSound'
  BY <1>1, <1>2 DEF Sound, EngineSound
<1>5. RunSound'
  BY <1>1, <1>2 DEF Sound, RunSound
<1>6. QED
  BY <1>3, <1>4, <1>5 DEF Sound

LEMMA AskSound == ASSUME Sound, Consult \/ AskRole PROVE Sound'
<1>1. UNCHANGED <<file, memory, run, hour, judged, source, stats, pending, history>>
  BY DEF Consult, AskRole, cache, engine
<1>2. hour <= Hours /\ run # {} /\ pending = {} /\ Cached(hour) = {}
  <2>1. CASE call # {}
    BY <2>1 DEF Sound, RunSound
  <2>2. CASE call = {}
    <3>1. Consult
      BY <2>2 DEF AskRole, Ask
    <3>2. PICK r \in run : Deciding(r) /\ Usable(r, hour) = {}
      BY <3>1 DEF Consult
    <3>3. CASE r.force
      <4>1. \A m \in memory : m.hour < hour
        BY <3>2, <3>3 DEF Sound, RunSound, Deciding
      <4>2. QED
        BY <3>2, <4>1 DEF Cached, Sound, EngineSound, Deciding
    <3>4. CASE ~r.force
      BY <3>2, <3>4 DEF Usable, Deciding
    <3>5. QED
      BY <3>3, <3>4
  <2>3. QED
    BY <2>1, <2>2
<1>3. RecordsSound' /\ PaidSound' /\ ReplaysSound' /\ SummarySound' /\ EngineSound'
  BY <1>1 DEF Sound, RecordsSound, PaidSound, ReplaysSound, SummarySound, EngineSound,
          FailedYetKept, Cached
<1>4. RunSound'
  BY <1>1, <1>2 DEF Sound, RunSound, Cached
<1>5. QED
  BY <1>3, <1>4 DEF Sound

(* A record of the cache is replayed. *)
LEMMA ReplaySound == ASSUME Sound, Replay PROVE Sound'
<1>1. PICK r \in run : /\ Deciding(r)
                       /\ \E record \in Usable(r, hour) : Conclude(Verdict(Rebuilt(record)), "cache")
  BY DEF Replay
<1>2. PICK record \in Usable(r, hour) : Conclude(Verdict(Rebuilt(record)), "cache")
  BY <1>1
<1> DEFINE verdict == Verdict(Rebuilt(record))
<1>3. /\ UNCHANGED <<call, file, memory, run, pending, history>> /\ stats' = Counted("cache")
      /\ hour <= Hours /\ call = {} /\ pending = {}
  BY <1>1 DEF Replay, Deciding, inference, cache
<1>4. record \in memory /\ record.hour = hour
  BY DEF Usable, Cached
<1>5. Rebuilt(record).decision = record.proposal.decision
  BY DEF Rebuilt, InContext
<1>6. /\ verdict \in Verdicts
      /\ verdict = "wait" <=> record.proposal.decision = "WAIT"
      /\ verdict = "created" => record.proposal.decision \in {"LONG", "SHORT"}
  BY <1>5, VerdictIsTyped
<1>7. Faithful(record) /\ record.verdict = history.verdict[hour]
  BY <1>4 DEF Sound, RecordsSound
<1> HIDE DEF verdict
<1>8. Conclude(verdict, "cache")
  BY <1>2 DEF verdict
<1>9. /\ EngineSound' /\ hour' = hour + 1 /\ source[hour] = "none"
      /\ source' = [source EXCEPT ![hour] = "cache"] /\ judged' = [judged EXCEPT ![hour] = verdict]
      /\ Sourced(source', "failed") = Sourced(source, "failed")
  BY <1>3, <1>6, <1>8, ConcludeSound DEF Sound
<1>10. DOMAIN source = 1 .. Hours /\ DOMAIN judged = 1 .. Hours
  BY DEF Sound, EngineSound
<1>11. history.verdict[hour] # "rejected" => verdict = history.verdict[hour]
  BY <1>7 DEF Faithful, verdict
<1>12. ReplaysSound'
  BY <1>3, <1>9, <1>10, <1>11 DEF Sound, ReplaysSound
<1>13. Decides(record, hour, verdict)
  BY <1>4, <1>6, <1>7 DEF Decides, Faithful
<1>14. SummarySound'
  <2>1. FailedYetKept' = FailedYetKept
    BY <1>3, <1>9 DEF FailedYetKept, Cached
  <2>2. QED
    BY <1>3, <1>4, <1>9, <1>10, <1>13, <2>1 DEF Sound, SummarySound
<1>15. RecordsSound' /\ PaidSound'
  BY <1>3 DEF Sound, RecordsSound, PaidSound
<1>16. RunSound'
  <2>1. \A m \in memory : m.hour \in Nat
    BY DEF Sound, RecordsSound, Records
  <2>2. hour \in Nat
    BY DEF Sound, EngineSound
  <2>3. \A o \in run' : o.force => \A m \in memory' : m.hour < hour'
    BY <1>3, <1>9, <2>1, <2>2 DEF Sound, RunSound
  <2>4. QED
    BY <1>1, <1>3, <2>3 DEF Sound, RunSound
<1>17. QED
  BY <1>9, <1>12, <1>14, <1>15, <1>16 DEF Sound


(* The answer is classified and kept in memory. *)
LEMMA RecordSound == ASSUME Sound, Record PROVE Sound'
<1>1. PICK r \in run, proposal \in Proposals :
        /\ Answered
        /\ LET verdict == Verdict(InContext(proposal, Context(r.wiring)))
               record == [hour |-> hour, proposal |-> proposal, verdict |-> verdict]
           IN  /\ pending' = {record} /\ memory' = Remembered(record)
               /\ history' = [history EXCEPT !.verdict[hour] = verdict]
        /\ call' = {}
        /\ UNCHANGED <<binding, file, run, engine>>
  BY DEF Record
<1> DEFINE full == InContext(proposal, Context(r.wiring))
           verdict == Verdict(full)
           record == [hour |-> hour, proposal |-> proposal, verdict |-> verdict]
<1>2. /\ pending' = {record} /\ memory' = Remembered(record)
      /\ history' = [history EXCEPT !.verdict[hour] = verdict]
      /\ call' = {} /\ call # {} /\ UNCHANGED <<file, run, hour, judged, source, stats>>
  BY <1>1 DEF engine, Answered
<1>3. full.decision = proposal.decision
  BY DEF InContext
<1>4. /\ verdict \in Verdicts
      /\ verdict = "wait" <=> proposal.decision = "WAIT"
      /\ verdict = "created" => proposal.decision \in {"LONG", "SHORT"}
  BY <1>3, VerdictIsTyped
<1>5. verdict # "rejected" => Verdict(InContext(proposal, NoContext)) = verdict
  BY ReplayLoosens
<1> HIDE DEF verdict
<1>6. record.hour = hour /\ record.proposal = proposal /\ record.verdict = verdict
  OBVIOUS
<1> HIDE DEF record
<1>7. Faithful(record)
  BY <1>4, <1>5, <1>6 DEF Faithful, Rebuilt
<1>8. /\ hour \in 1 .. Hours /\ pending = {} /\ Cached(hour) = {} /\ OnFile(file) \subseteq memory
      /\ run # {} /\ memory \in SUBSET Records
  BY <1>2, BenchmarkAssumption DEF Sound, RunSound, EngineSound, RecordsSound
<1>9. record \in Records
  BY <1>4, <1>8 DEF Records, record
<1>10. \A m \in memory : m.hour # hour
  BY <1>8 DEF Cached
<1>11. memory' = memory \cup {record}
  BY <1>2, <1>6, <1>10 DEF Remembered
<1>12. /\ history'.puts = history.puts /\ history'.runs = history.runs
       /\ history'.faults = history.faults
       /\ history'.verdict = [history.verdict EXCEPT ![hour] = verdict]
       /\ history' \in [puts : Nat, verdict : [1 .. Hours -> Verdicts \cup {"none"}],
                        runs : Nat, faults : Nat]
  BY <1>2, <1>4, <1>8 DEF Sound, PaidSound
<1>13. /\ history'.verdict[hour] = verdict
       /\ \A h \in 1 .. Hours \ {hour} : history'.verdict[h] = history.verdict[h]
  <2>1. history.verdict \in [1 .. Hours -> Verdicts \cup {"none"}]
    BY DEF Sound, PaidSound
  <2>2. QED
    BY <1>8, <1>12, <2>1
<1>14. RecordsSound'
  <2>1. FileSound(file')
    BY <1>2 DEF Sound, RecordsSound
  <2>2. memory' \in SUBSET Records /\ OnePerHour(memory')
    BY <1>6, <1>8, <1>9, <1>10, <1>11 DEF Sound, RecordsSound, OnePerHour
  <2>3. ASSUME NEW m \in OnFile(file') \cup memory'
        PROVE  Faithful(m) /\ m.verdict = history'.verdict[m.hour]
    <3>1. CASE m = record
      BY <1>6, <1>7, <1>13, <3>1
    <3>2. CASE m \in memory
      <4>1. m.hour \in 1 .. Hours \ {hour}
        BY <1>8, <1>10, <3>2 DEF Records
      <4>2. QED
        BY <1>13, <3>2, <4>1 DEF Sound, RecordsSound
    <3>3. QED
      BY <1>2, <1>8, <1>11, <2>3, <3>1, <3>2
  <2>4. QED
    BY <2>1, <2>2, <2>3 DEF RecordsSound
<1>15. RunSound'
  BY <1>2, <1>6, <1>8, <1>10, <1>11 DEF Sound, RunSound
<1>16. PaidSound'
  BY <1>2, <1>12 DEF Sound, PaidSound
<1>17. EngineSound'
  BY <1>2 DEF Sound, EngineSound
<1>18. \A h \in 1 .. Hours : source[h] # "none" => h # hour
  BY DEF Sound, EngineSound
<1>19. ReplaysSound'
  BY <1>2, <1>13, <1>18 DEF Sound, ReplaysSound
<1>20. SummarySound'
  <2>1. \A h \in 1 .. Hours : h # hour => Cached(h)' = Cached(h)
    BY <1>6, <1>11 DEF Cached
  <2>2. FailedYetKept' = FailedYetKept
    BY <1>2, <1>18, <2>1 DEF FailedYetKept, Sourced
  <2>3. QED
    BY <1>2, <1>11, <1>12, <2>2 DEF Sound, SummarySound
<1>21. QED
  BY <1>14, <1>15, <1>16, <1>17, <1>19, <1>20 DEF Sound

(* What a pending record is to the file. *)
LEMMA PendingIsNew ==
    ASSUME Sound, NEW record \in pending
    PROVE  /\ record \in Records /\ record \in memory /\ record.hour = hour /\ pending = {record}
           /\ hour \in 1 .. Hours /\ run # {} /\ call = {}
           /\ FileSound(file) /\ \A r \in OnFile(file) : r.hour # record.hour
           /\ Faithful(record) /\ record.verdict = history.verdict[hour]
BY DEF Sound, RunSound, RecordsSound, Records

(* Then in the file. *)
LEMMA WriteSound == ASSUME Sound, Write PROVE Sound'
<1>1. PICK record \in pending :
        /\ file' = Appended(file, record) /\ Conclude(record.verdict, "model")
        /\ pending' = {} /\ stats' = Counted("model")
        /\ history' = [history EXCEPT !.puts = @ + 1]
        /\ UNCHANGED <<call, memory, run>>
  BY DEF Write, inference
<1>2. /\ record \in Records /\ record \in memory /\ record.hour = hour /\ pending = {record}
      /\ hour \in 1 .. Hours /\ run # {} /\ call = {}
      /\ FileSound(file) /\ \A r \in OnFile(file) : r.hour # record.hour
      /\ Faithful(record) /\ record.verdict = history.verdict[hour]
  BY PendingIsNew
<1>3. /\ FileSound(file') /\ ~Unended(file')
      /\ OnFile(file') \subseteq OnFile(file) \cup {record}
      /\ Cardinality(OnFile(file)) - Debt(file) + 1 <= Cardinality(OnFile(file'))
  BY <1>1, <1>2, AppendedSound
<1>4. record.verdict \in Verdicts /\ hour \in Nat /\ Hours \in Nat /\ hour <= Hours
  BY <1>2, BenchmarkAssumption DEF Records
<1>5. /\ EngineSound' /\ hour' = hour + 1
      /\ source' = [source EXCEPT ![hour] = "model"]
      /\ judged' = [judged EXCEPT ![hour] = record.verdict]
      /\ Sourced(source', "failed") = Sourced(source, "failed")
  BY <1>1, <1>4, ConcludeSound DEF Sound
<1>6. OnFile(file) \subseteq memory /\ OnFile(file') \subseteq memory
  BY <1>2, <1>3 DEF Sound, RunSound
<1>7. DOMAIN source = 1 .. Hours /\ DOMAIN judged = 1 .. Hours
  BY DEF Sound, EngineSound
<1>8. /\ history'.verdict = history.verdict /\ history'.faults = history.faults
      /\ history'.puts = history.puts + 1
      /\ history' \in [puts : Nat, verdict : [1 .. Hours -> Verdicts \cup {"none"}],
                       runs : Nat, faults : Nat]
  BY <1>1 DEF Sound, PaidSound
<1>9. RecordsSound'
  BY <1>1, <1>3, <1>6, <1>8 DEF Sound, RecordsSound
<1>10. RunSound'
  <2>1. \A m \in memory : m.hour \in Nat
    BY DEF Sound, RecordsSound, Records
  <2>2. \A r \in run' : r.force => \A m \in memory' : m.hour < hour'
    BY <1>1, <1>2, <1>4, <1>5, <2>1 DEF Sound, RunSound
  <2>3. QED
    BY <1>1, <1>2, <1>6, <2>2 DEF Sound, RunSound
<1>11. PaidSound'
  <2> DEFINE c == Cardinality(OnFile(file))
             d == Debt(file)
             c2 == Cardinality(OnFile(file'))
  <2>1. c \in Nat /\ d \in Nat /\ c2 \in Nat
    BY <1>2, <1>3, DebtIsTyped
  <2>2. Debt(file') = 0
    BY <1>3 DEF Debt
  <2>3. history.puts \in Nat /\ history.faults \in Nat /\ history.puts - c + d <= history.faults
    BY DEF Sound, PaidSound
  <2>4. c - d + 1 <= c2
    BY <1>3
  <2> HIDE DEF c, d, c2
  <2>5. history'.puts - c2 + 0 <= history'.faults
    BY <1>8, <2>1, <2>3, <2>4
  <2>6. Garbled(file') => history'.faults > 0
    BY <1>1, <1>2, <1>8, AppendedGarblesNothing DEF Sound, PaidSound
  <2>7. QED
    BY <1>8, <2>2, <2>5, <2>6 DEF PaidSound, c2
<1>12. ReplaysSound'
  BY <1>5, <1>7, <1>8 DEF Sound, ReplaysSound
<1>13. SummarySound'
  <2>1. Decides(record, hour, record.verdict)
    BY <1>2 DEF Decides, Faithful
  <2>2. FailedYetKept' = FailedYetKept
    BY <1>1, <1>5 DEF FailedYetKept, Cached
  <2>3. QED
    BY <1>1, <1>2, <1>5, <1>7, <1>8, <2>1, <2>2 DEF Sound, SummarySound
<1>14. QED
  BY <1>5, <1>9, <1>10, <1>11, <1>12, <1>13 DEF Sound

(* What a fault leaves of the file. *)
LEMMA AfterFaultIsSound ==
    ASSUME Sound, NEW new \in AfterFault
    PROVE  /\ FileSound(new)
           /\ OnFile(new) \subseteq OnFile(file) \cup pending
           /\ Settled(file) \subseteq OnFile(new)
           /\ history.puts - Cardinality(OnFile(new)) + Debt(new) <= history.faults + 1
<1>1. FileSound(file)
  BY DEF Sound, RecordsSound
<1>2. /\ history.puts \in Nat /\ history.faults \in Nat
      /\ history.puts - Cardinality(OnFile(file)) + Debt(file) <= history.faults
  BY DEF Sound, PaidSound
<1>3. Debt(file) \in Nat /\ Cardinality(OnFile(file)) \in Nat
  BY <1>1, DebtIsTyped
<1>4. CASE new = file
  BY <1>1, <1>2, <1>3, <1>4, SettledIsEnded
<1>5. CASE new # file
  <2>1. PICK record \in pending : new \in CutShort(file, record)
    BY <1>5 DEF AfterFault
  <2>2. record \in Records /\ \A r \in OnFile(file) : r.hour # record.hour
    BY PendingIsNew
  <2>3. /\ FileSound(new) /\ OnFile(new) \subseteq OnFile(file) \cup {record}
        /\ Settled(file) \subseteq OnFile(new)
        /\ Cardinality(OnFile(new)) \in Nat /\ Debt(new) \in Nat
        /\ Cardinality(OnFile(file)) - Debt(file) <= Cardinality(OnFile(new)) - Debt(new) + 1
    BY <1>1, <2>1, <2>2, CutSound
  <2>4. history.puts - Cardinality(OnFile(new)) + Debt(new) <= history.faults + 1
    BY <1>2, <1>3, <2>3
  <2>5. QED
    BY <2>3, <2>4
<1>6. QED
  BY <1>4, <1>5

LEMMA WriteFailsSound == ASSUME Sound, WriteFails PROVE Sound'
<1>1. /\ Conclude(Verdict(Fallback), "failed") /\ stats' = Counted("failed")
      /\ file' \in AfterFault /\ pending # {} /\ pending' = {}
      /\ history' = [history EXCEPT !.faults = @ + 1]
      /\ UNCHANGED <<call, memory, run>>
  BY DEF WriteFails, inference
<1>2. PICK record \in pending : TRUE
  BY <1>1
<1>3. /\ record \in memory /\ record.hour = hour /\ pending = {record}
      /\ hour \in 1 .. Hours /\ run # {} /\ call = {}
  BY PendingIsNew
<1>4. /\ FileSound(file') /\ OnFile(file') \subseteq OnFile(file) \cup pending
      /\ history.puts - Cardinality(OnFile(file')) + Debt(file') <= history.faults + 1
  BY <1>1, AfterFaultIsSound
<1>5. /\ history'.verdict = history.verdict /\ history'.faults = history.faults + 1
      /\ history'.puts = history.puts
      /\ history' \in [puts : Nat, verdict : [1 .. Hours -> Verdicts \cup {"none"}],
                       runs : Nat, faults : Nat]
  BY <1>1 DEF Sound, PaidSound
<1>6. hour <= Hours /\ hour \in Nat
  BY <1>3, BenchmarkAssumption
<1>7. EngineSound' /\ ReplaysSound' /\ SummarySound' /\ hour' = hour + 1
  BY <1>1, <1>5, <1>6, FailureSound
<1>8. OnFile(file) \subseteq memory /\ OnFile(file') \subseteq memory
  BY <1>3, <1>4 DEF Sound, RunSound
<1>9. RecordsSound'
  BY <1>1, <1>4, <1>5, <1>8 DEF Sound, RecordsSound
<1>10. RunSound'
  <2>1. \A m \in memory : m.hour \in Nat
    BY DEF Sound, RecordsSound, Records
  <2>2. \A r \in run' : r.force => \A m \in memory' : m.hour < hour'
    BY <1>1, <1>3, <1>6, <1>7, <2>1 DEF Sound, RunSound
  <2>3. QED
    BY <1>1, <1>3, <1>8, <2>2 DEF Sound, RunSound
<1>11. PaidSound'
  <2>1. history.faults \in Nat
    BY DEF Sound, PaidSound
  <2>2. history'.faults > 0
    BY <1>5, <2>1
  <2>3. QED
    BY <1>4, <1>5, <2>2 DEF PaidSound
<1>12. QED
  BY <1>7, <1>9, <1>10, <1>11 DEF Sound

-------------------------------------------------------------------------------
(* The beginning and the end of a run *)

(* A process that is gone leaves the file. *)
LEMMA ExitSound ==
    ASSUME Sound, Exit, call' = {}, pending' = {}, history'.verdict = history.verdict,
           OnFile(file') \subseteq OnFile(file) \cup pending, FileSound(file'), PaidSound'
    PROVE  Sound'
<1>1. /\ run' = {} /\ memory' = {} /\ hour' = 1
      /\ judged' = Nowhere /\ source' = Nowhere /\ stats' = NoStats
  BY DEF Exit
<1>2. \A r \in pending : r \in memory
  BY DEF Sound, RunSound
<1>3. RecordsSound'
  BY <1>1, <1>2 DEF Sound, RecordsSound, OnePerHour
<1>4. RunSound'
  BY <1>1 DEF RunSound
<1>5. EngineSound' /\ ReplaysSound'
  BY <1>1, NowhereIsSound, BenchmarkAssumption DEF EngineSound, ReplaysSound, NoStats
<1>6. SummarySound'
  <2>1. FailedYetKept' = {} /\ Cardinality(FailedYetKept') = 0
    BY <1>1, NowhereIsSound, FS_EmptySet DEF FailedYetKept
  <2>2. QED
    BY <1>1, <2>1, NowhereIsSound DEF SummarySound, PaidSound
<1>7. QED
  BY <1>3, <1>4, <1>5, <1>6 DEF Sound

LEMMA FinishSound == ASSUME Sound, Finish PROVE Sound'
<1>1. Exit /\ UNCHANGED <<call, file, pending, history>> /\ run # {} /\ hour > Hours
  BY DEF Finish, inference
<1>2. hour \in Nat /\ Hours \in Nat
  BY BenchmarkAssumption DEF Sound, EngineSound
<1>3. pending = {}
  <2>1. SUFFICES ASSUME NEW record \in pending PROVE FALSE
    OBVIOUS
  <2>2. hour \in 1 .. Hours
    BY PendingIsNew
  <2>3. QED
    BY <1>1, <1>2, <2>2
<1>4. call = {}
  BY <1>1, <1>2 DEF Sound, RunSound
<1>5. FileSound(file') /\ PaidSound'
  BY <1>1 DEF Sound, RecordsSound, PaidSound
<1>6. QED
  BY <1>1, <1>3, <1>4, <1>5, ExitSound

LEMMA CrashSound == ASSUME Sound, Crash PROVE Sound'
<1>1. /\ Exit /\ call' = {} /\ pending' = {} /\ file' \in AfterFault
      /\ history' = [history EXCEPT !.faults = @ + 1]
  BY DEF Crash
<1>2. /\ FileSound(file') /\ OnFile(file') \subseteq OnFile(file) \cup pending
      /\ history.puts - Cardinality(OnFile(file')) + Debt(file') <= history.faults + 1
  BY <1>1, AfterFaultIsSound
<1>3. /\ history'.verdict = history.verdict /\ history'.faults = history.faults + 1
      /\ history'.puts = history.puts
      /\ history' \in [puts : Nat, verdict : [1 .. Hours -> Verdicts \cup {"none"}],
                       runs : Nat, faults : Nat]
  BY <1>1 DEF Sound, PaidSound
<1>4. PaidSound'
  <2>1. history.faults \in Nat
    BY DEF Sound, PaidSound
  <2>2. history'.faults > 0
    BY <1>3, <2>1
  <2>3. QED
    BY <1>2, <1>3, <2>2 DEF PaidSound
<1>5. QED
  BY <1>1, <1>2, <1>3, <1>4, ExitSound

LEMMA StartSound ==
    ASSUME Sound, NEW wiring, NEW force \in BOOLEAN, NEW pipeline, Start(wiring, force, pipeline)
    PROVE  Sound'
<1>1. /\ run = {} /\ run' = {[wiring |-> wiring, force |-> force, pipeline |-> pipeline]}
      /\ file' = IF force THEN <<>> ELSE file
      /\ memory' = IF force THEN {} ELSE Parsed(file)
      /\ history' = [history EXCEPT !.runs = @ + 1, !.puts = IF force THEN 0 ELSE @,
                                    !.verdict = IF force THEN Nowhere ELSE @]
      /\ UNCHANGED <<call, hour, judged, source, stats, pending>>
  BY DEF Start, inference, engine
<1>2. memory = {} /\ pending = {} /\ call = {} /\ source = Nowhere
  BY <1>1 DEF Sound, RunSound
<1>3. FileSound(file) /\ Parsed(file) = OnFile(file)
  BY ParsedIsOnFile DEF Sound, RecordsSound
<1>4. OnFile(file) \in SUBSET Records /\ OnePerHour(OnFile(file))
  BY <1>3, FileIsTyped
<1>5. history \in [puts : Nat, verdict : [1 .. Hours -> Verdicts \cup {"none"}],
                   runs : Nat, faults : Nat]
  BY DEF Sound, PaidSound
<1>6. /\ FileSound(file') /\ memory' = OnFile(file')
      /\ force => /\ file' = <<>> /\ OnFile(file') = {} /\ Debt(file') = 0
                   /\ ~Garbled(file')
      /\ ~force => file' = file
  BY <1>1, <1>3, NothingOnFile
<1>7. /\ history' \in [puts : Nat, verdict : [1 .. Hours -> Verdicts \cup {"none"}],
                       runs : Nat, faults : Nat]
      /\ history'.faults = history.faults
      /\ force => history'.puts = 0
      /\ ~force => history'.puts = history.puts /\ history'.verdict = history.verdict
  <2> DEFINE more == [history EXCEPT !.runs = @ + 1]
             last == [more EXCEPT !.puts = IF force THEN 0 ELSE history.puts]
  <2>1. /\ more \in [puts : Nat, verdict : [1 .. Hours -> Verdicts \cup {"none"}],
                     runs : Nat, faults : Nat]
        /\ more.faults = history.faults /\ more.puts = history.puts
        /\ more.verdict = history.verdict
    BY <1>5
  <2>2. /\ last \in [puts : Nat, verdict : [1 .. Hours -> Verdicts \cup {"none"}],
                     runs : Nat, faults : Nat]
        /\ last.faults = history.faults /\ last.puts = IF force THEN 0 ELSE history.puts
        /\ last.verdict = history.verdict
    <3> HIDE DEF more
    <3>1. (IF force THEN 0 ELSE history.puts) \in Nat
      BY <1>5
    <3>2. QED
      BY <2>1, <3>1
  <2>3. history' = [last EXCEPT !.verdict = IF force THEN Nowhere ELSE history.verdict]
    BY <1>1, <1>5
  <2> HIDE DEF last
  <2>4. (IF force THEN Nowhere ELSE history.verdict) \in [1 .. Hours -> Verdicts \cup {"none"}]
    BY <1>5, NowhereIsSound
  <2>5. QED
    BY <2>2, <2>3, <2>4
<1>8. RecordsSound'
  <2>1. memory' \in SUBSET Records /\ OnePerHour(memory')
    BY <1>4, <1>6 DEF OnePerHour
  <2>2. \A m \in OnFile(file') \cup memory' : Faithful(m) /\ m.verdict = history'.verdict[m.hour]
    BY <1>6, <1>7 DEF Sound, RecordsSound
  <2>3. QED
    BY <1>6, <2>1, <2>2 DEF RecordsSound
<1>9. RunSound'
  <2>1. run' # {} /\ \A r, s \in run' : r = s
    BY <1>1
  <2>2. \A r \in run' : r.force => memory' = {}
    BY <1>1, <1>6
  <2>3. pending' = {} /\ call' = {}
    BY <1>1, <1>2
  <2>4. QED
    BY <1>6, <2>1, <2>2, <2>3 DEF RunSound
<1>10. PaidSound'
  <2>1. CASE force
    <3>1. Cardinality(OnFile(file')) = 0 /\ Debt(file') = 0 /\ history'.puts = 0
      BY <1>6, <1>7, <2>1, FS_EmptySet
    <3>2. history'.faults \in Nat
      BY <1>5, <1>7
    <3>3. QED
      BY <1>6, <1>7, <2>1, <3>1, <3>2 DEF PaidSound
  <2>2. CASE ~force
    BY <1>6, <1>7, <2>2 DEF Sound, PaidSound
  <2>3. QED
    BY <2>1, <2>2
<1>11. EngineSound'
  BY <1>1 DEF Sound, EngineSound
<1>12. ReplaysSound'
  BY <1>1, <1>2, NowhereIsSound DEF ReplaysSound
<1>13. SummarySound'
  <2>1. FailedYetKept' = {} /\ Cardinality(FailedYetKept') = 0
    BY <1>1, <1>2, NowhereIsSound, FS_EmptySet DEF FailedYetKept
  <2>2. history'.faults \in Nat
    BY <1>5, <1>7
  <2>3. source' = Nowhere
    BY <1>1, <1>2
  <2>4. \A h \in 1 .. Hours : source'[h] = "none"
    BY <2>3, NowhereIsSound
  <2>5. QED
    BY <2>1, <2>2, <2>4 DEF SummarySound
<1>14. QED
  BY <1>8, <1>9, <1>10, <1>11, <1>12, <1>13 DEF Sound

LEMMA LoadRaisesSound == ASSUME Sound, LoadRaises PROVE Sound'
<1>1. /\ history' = [history EXCEPT !.runs = @ + 1]
      /\ UNCHANGED <<call, file, memory, run, hour, judged, source, stats, pending>>
  BY DEF LoadRaises, inference, cache, engine
<1>2. /\ history'.verdict = history.verdict /\ history'.faults = history.faults
      /\ history'.puts = history.puts
      /\ history' \in [puts : Nat, verdict : [1 .. Hours -> Verdicts \cup {"none"}],
                       runs : Nat, faults : Nat]
  BY <1>1 DEF Sound, PaidSound
<1>3. RecordsSound'
  BY <1>1, <1>2 DEF Sound, RecordsSound
<1>4. RunSound'
  BY <1>1 DEF Sound, RunSound, Cached
<1>5. PaidSound' /\ EngineSound'
  BY <1>1, <1>2 DEF Sound, PaidSound, EngineSound
<1>6. ReplaysSound'
  BY <1>1, <1>2 DEF Sound, ReplaysSound
<1>7. SummarySound'
  BY <1>1, <1>2 DEF Sound, SummarySound, FailedYetKept, Cached
<1>8. QED
  BY <1>3, <1>4, <1>5, <1>6, <1>7 DEF Sound

LEMMA NextSound == ASSUME Sound, [Next]_vars PROVE Sound'
<1>1. CASE UNCHANGED vars
  BY <1>1 DEF vars, inference, cache, engine, Sound, RecordsSound, RunSound, PaidSound, EngineSound,
          ReplaysSound, SummarySound, FailedYetKept, Cached
<1>2. ASSUME NEW wiring \in Wirings, NEW force \in BOOLEAN, NEW pipeline \in Pipelines,
             Start(wiring, force, pipeline)
      PROVE  Sound'
  BY <1>2, StartSound
<1>3. CASE Step
  BY <1>3, SkipSound, ReplaySound, AskSound, CallFailsSound, RecordSound, WriteSound,
     WriteFailsSound, FinishSound DEF Step
<1>4. CASE Crash
  BY <1>4, CrashSound
<1>5. CASE LoadRaises
  BY <1>5, LoadRaisesSound
<1>6. QED
  BY <1>1, <1>2, <1>3, <1>4, <1>5 DEF Next, Exhausted

-------------------------------------------------------------------------------
(* The theorems *)

(* The types, with the invariant behind the theorems below: the cache file     *)
(* holds at most one record of an hour and a run remembers all of them.        *)
THEOREM SoundAlways == Spec => []Sound
<1>1. Init => Sound
  BY InitSound
<1>2. Sound /\ [Next]_vars => Sound'
  BY NextSound
<1>3. QED
  BY <1>1, <1>2, PTL DEF Spec

(* provider.py's promise: a failed call is an explicit rejection, for any    *)
(* prices, guards and dataset, because the fallback's stop is its entry.     *)
THEOREM FailuresAreRejections == Spec => []FailureNeverTraded
<1>1. Sound => FailureNeverTraded
  BY DEF Sound, EngineSound, FailureNeverTraded
<1>2. QED
  BY <1>1, SoundAlways, PTL

(* An answer is put once and read ever after, but for the record that a fault *)
(* costs, and no fault costs more than the one line it cut short and the one  *)
(* written after it -- unless a fault cuts a line inside a character, which   *)
(* leaves nothing to be read.                                                 *)
THEOREM PaidForOnce == Spec => []PaidOnce
<1>1. ASSUME Sound PROVE PaidOnce
  <2>1. FileSound(file) /\ (~Garbled(file) => Readable(file) = OnFile(file))
    BY <1>1, ParsedIsOnFile DEF Sound, RecordsSound, Readable
  <2>2. Debt(file) \in Nat /\ Cardinality(OnFile(file)) \in Nat
    BY <2>1, DebtIsTyped
  <2>3. /\ history.puts \in Nat /\ history.faults \in Nat
        /\ history.puts - Cardinality(OnFile(file)) + Debt(file) <= history.faults
    BY <1>1 DEF Sound, PaidSound
  <2> DEFINE c == Cardinality(OnFile(file))
  <2>4. history.puts - c <= history.faults
    <3> HIDE DEF c
    <3>1. c \in Nat /\ history.puts - c + Debt(file) <= history.faults
      BY <2>2, <2>3 DEF c
    <3>2. QED
      BY <2>2, <2>3, <3>1
  <2>5. Garbled(file) => history.faults > 0
    BY <1>1 DEF Sound, PaidSound
  <2>6. QED
    BY <2>1, <2>4, <2>5 DEF PaidOnce
<1>2. QED
  BY <1>1, SoundAlways, PTL

(* A replay knows no funding, regime or ATR, and every guard that misses its  *)
(* input lets pass: what the run that asked let through, every rerun does.    *)
THEOREM ReplaysOnlyLoosen == Spec => []ReplayOnlyLoosens
<1>1. Sound => ReplayOnlyLoosens
  BY DEF Sound, ReplaysSound, ReplayOnlyLoosens
<1>2. QED
  BY <1>1, SoundAlways, PTL

(* cache.py's promise: no run, crash or refused write loses a record whose     *)
(* line had been ended, and only --force-fresh empties the file; but the lines *)
(* can be read only until a fault cuts one inside a character.                 *)
THEOREM RecordsAreKept == Spec => RecordsKept
<1> DEFINE Keeps == Settled(file) \subseteq Parsed(file')
           Spoils == Garbled(file') /\ ~Garbled(file) => history'.faults > history.faults
           Kept0 == file' # <<>> =>
                        /\ Settled(file) \subseteq Parsed(file')
                        /\ ~Garbled(file') => Settled(file) \subseteq Readable(file')
                        /\ Spoils
<1>1. ASSUME Sound, Sound', [Next]_vars PROVE file' # <<>> => Keeps /\ Spoils
  <2>1. FileSound(file) /\ FileSound(file') /\ Parsed(file') = OnFile(file')
    BY <1>1, ParsedIsOnFile DEF Sound, RecordsSound
  <2>2. CASE file' = file
    BY <2>1, <2>2, SettledIsEnded
  <2>3. CASE file' \in AfterFault /\ history' = [history EXCEPT !.faults = @ + 1]
    <3>1. Keeps
      BY <1>1, <2>1, <2>3, AfterFaultIsSound
    <3>2. history.faults \in Nat /\ history'.faults = history.faults + 1
      BY <1>1, <2>3 DEF Sound, PaidSound
    <3>3. history'.faults > history.faults
      BY <3>2
    <3>4. QED
      BY <3>1, <3>3
  <2>4. CASE Write
    <3>1. PICK record \in pending : file' = Appended(file, record)
      BY <2>4 DEF Write
    <3>2. record \in Records /\ \A r \in OnFile(file) : r.hour # record.hour
      BY <1>1, PendingIsNew
    <3>3. Settled(file) \subseteq OnFile(file')
      BY <2>1, <3>1, <3>2, AppendedSound
    <3>4. Garbled(file') => Garbled(file)
      BY <2>1, <3>1, <3>2, AppendedGarblesNothing
    <3>5. QED
      BY <2>1, <3>3, <3>4
  <2>5. ASSUME NEW wiring \in Wirings, NEW force \in BOOLEAN, NEW pipeline \in Pipelines,
               Start(wiring, force, pipeline)
        PROVE  file' = <<>> \/ file' = file
    BY <2>5 DEF Start
  <2>6. CASE Step /\ ~Write
    <3>1. \/ file' = file
          \/ file' \in AfterFault /\ history' = [history EXCEPT !.faults = @ + 1]
      BY <2>6 DEF Step, Skip, Replay, Consult, AskRole, CallRaises, WiringClashes, AnswerRefused,
                  Fail, Record, WriteFails, Finish, cache
    <3>2. QED
      BY <2>2, <2>3, <3>1
  <2>7. CASE Crash
    BY <2>3, <2>7 DEF Crash
  <2>8. CASE LoadRaises
    BY <2>2, <2>8 DEF LoadRaises, cache
  <2>9. QED
    BY <1>1, <2>2, <2>4, <2>5, <2>6, <2>7, <2>8 DEF Next, Exhausted, vars, cache
<1>2. ASSUME Sound, Sound', [Next]_vars PROVE [Kept0]_vars
  <2>1. ASSUME file' # <<>> PROVE Kept0
    <3>1. Keeps /\ Spoils
      BY <1>1, <1>2, <2>1
    <3>2. ~Garbled(file') => Readable(file') = Parsed(file')
      BY DEF Readable
    <3>3. QED
      BY <3>1, <3>2
  <2>2. QED
    BY <2>1
<1>3. QED
  BY <1>2, SoundAlways, PTL DEF Spec, RecordsKept

(* Three parts without a common member. *)
LEMMA ThreeParts ==
    ASSUME NEW A, NEW B, NEW C, IsFiniteSet(A), IsFiniteSet(B), IsFiniteSet(C),
           A \cap B = {}, A \cap C = {}, B \cap C = {}
    PROVE  /\ IsFiniteSet(A \cup B \cup C)
           /\ Cardinality(A \cup B \cup C) = Cardinality(A) + Cardinality(B) + Cardinality(C)
<1> DEFINE two == A \cup B
           a == Cardinality(A)
           b == Cardinality(B)
           c == Cardinality(C)
<1>1. a \in Nat /\ b \in Nat /\ c \in Nat /\ Cardinality({}) = 0
  BY FS_CardinalityType, FS_EmptySet
<1>2. IsFiniteSet(two) /\ Cardinality(two) = a + b - Cardinality(A \cap B)
  BY FS_Union
<1>3. Cardinality(A \cap B) = 0
  BY <1>1
<1> HIDE DEF a, b, c
<1>4. Cardinality(two) = a + b
  BY <1>1, <1>2, <1>3
<1>5. two \cap C = {}
  OBVIOUS
<1> HIDE DEF two
<1>6. /\ IsFiniteSet(two \cup C)
      /\ Cardinality(two \cup C) = Cardinality(two) + c - Cardinality(two \cap C)
  BY <1>2, FS_Union DEF c
<1>7. Cardinality(two \cap C) = 0
  BY <1>1, <1>5
<1>8. Cardinality(two \cup C) = a + b + c
  BY <1>1, <1>4, <1>6, <1>7
<1>9. QED
  BY <1>6, <1>8 DEF two, a, b, c

(* At the end of a run, whatever failed and whatever earlier runs left, each  *)
(* half of the summary covers the other: the engine's counters, the inference *)
(* statistics and the records.                                                *)
THEOREM SummaryAdds == Spec => []SummaryAddsUp
<1>1. ASSUME Sound PROVE SummaryAddsUp
  <2> DEFINE Made(verdict) == {h \in 1 .. Hours : judged[h] = verdict}
             Ok(decision) == {r \in memory : r.verdict # "rejected"
                                              /\ r.proposal.decision = decision}
             invalid == {r \in memory : r.verdict = "rejected"}
             kinds == {"cache", "model", "failed"}
  <2>1. /\ judged \in [1 .. Hours -> Verdicts \cup {"none"}]
        /\ source \in [1 .. Hours -> {"cache", "model", "failed", "none"}]
        /\ \A h \in 1 .. Hours : judged[h] = "none" <=> source[h] = "none"
        /\ \A h \in 1 .. Hours : source[h] = "failed" => judged[h] = "rejected"
        /\ stats.cached = Cardinality(Sourced(source, "cache"))
        /\ stats.failed = Cardinality(Sourced(source, "failed"))
        /\ stats.fresh = Cardinality(Sourced(source, "model")) + stats.failed
    BY <1>1 DEF Sound, EngineSound
  <2>2. /\ \A h \in 1 .. Hours :
              source[h] \in {"cache", "model"} => \E m \in memory : Decides(m, h, judged[h])
        /\ Cardinality(FailedYetKept) <= history.faults
    BY <1>1 DEF Sound, SummarySound
  <2>3. memory \in SUBSET Records /\ OnePerHour(memory)
    BY <1>1 DEF Sound, RecordsSound
  <2>4. /\ \A verdict : IsFiniteSet(Made(verdict)) /\ Cardinality(Made(verdict)) \in Nat
        /\ \A kind : IsFiniteSet(Sourced(source, kind)) /\ Cardinality(Sourced(source, kind)) \in Nat
    BY HoursAreCounted DEF Sourced
  <2>5. IsFiniteSet(memory) /\ Cardinality(memory) \in Nat
    BY <2>3, PerHourIsFinite
  <2>6. Cardinality(Made("created")) + Cardinality(Made("rejected")) + Cardinality(Made("wait"))
        = Cardinality(Sourced(source, "cache")) + Cardinality(Sourced(source, "model"))
          + Cardinality(Sourced(source, "failed"))
    <3>1. Made("created") \cup Made("rejected") \cup Made("wait")
          = Sourced(source, "cache") \cup Sourced(source, "model") \cup Sourced(source, "failed")
      BY <2>1 DEF Sourced, Verdicts
    <3>2. /\ Made("created") \cap Made("rejected") = {} /\ Made("created") \cap Made("wait") = {}
          /\ Made("rejected") \cap Made("wait") = {}
      OBVIOUS
    <3>3. /\ Sourced(source, "cache") \cap Sourced(source, "model") = {}
          /\ Sourced(source, "cache") \cap Sourced(source, "failed") = {}
          /\ Sourced(source, "model") \cap Sourced(source, "failed") = {}
      BY DEF Sourced
    <3> HIDE DEF Made
    <3>4. Cardinality(Made("created") \cup Made("rejected") \cup Made("wait"))
          = Cardinality(Made("created")) + Cardinality(Made("rejected")) + Cardinality(Made("wait"))
      <4> DEFINE created == Made("created")
                 rejected == Made("rejected")
                 wait == Made("wait")
      <4>1. IsFiniteSet(created) /\ IsFiniteSet(rejected) /\ IsFiniteSet(wait)
        BY <2>4
      <4>2. created \cap rejected = {} /\ created \cap wait = {} /\ rejected \cap wait = {}
        BY <3>2
      <4> HIDE DEF created, rejected, wait
      <4>3. Cardinality(created \cup rejected \cup wait)
            = Cardinality(created) + Cardinality(rejected) + Cardinality(wait)
        BY <4>1, <4>2, ThreeParts
      <4>4. QED
        BY <4>3 DEF created, rejected, wait
    <3>5. Cardinality(Sourced(source, "cache") \cup Sourced(source, "model")
                      \cup Sourced(source, "failed"))
          = Cardinality(Sourced(source, "cache")) + Cardinality(Sourced(source, "model"))
            + Cardinality(Sourced(source, "failed"))
      BY <2>4, <3>3, ThreeParts
    <3>6. QED
      BY <3>1, <3>4, <3>5
  <2>7. Cardinality(Sourced(source, "cache")) + Cardinality(Sourced(source, "model"))
        <= Cardinality(memory)
    <3> DEFINE decided == Sourced(source, "cache") \cup Sourced(source, "model")
    <3>1. decided \in SUBSET (1 .. Hours)
      BY DEF Sourced
    <3>2. \A h \in decided : \E m \in memory : m.hour = h
      BY <2>2 DEF Sourced, Decides
    <3>3. Cardinality(decided) <= Cardinality(memory)
      <4> HIDE DEF decided
      <4>1. QED
        BY <2>3, <3>1, <3>2, HoursHaveRecords
    <3> DEFINE c == Cardinality(Sourced(source, "cache"))
               m == Cardinality(Sourced(source, "model"))
               d == Cardinality(decided)
    <3>4. Cardinality(Sourced(source, "cache") \cap Sourced(source, "model")) = 0
      BY FS_EmptySet DEF Sourced
    <3>5. d = c + m - Cardinality(Sourced(source, "cache") \cap Sourced(source, "model"))
      BY <2>4, FS_Union
    <3>6. c \in Nat /\ m \in Nat /\ d <= Cardinality(memory)
      BY <2>4, <3>3
    <3> HIDE DEF c, m, d
    <3>7. c + m <= Cardinality(memory)
      BY <3>4, <3>5, <3>6
    <3>8. QED
      BY <3>7 DEF c, m
  <2>8. Cardinality(Made("wait")) <= Cardinality(Ok("WAIT"))
    <3>1. Ok("WAIT") \in SUBSET Records /\ OnePerHour(Ok("WAIT"))
      BY <2>3 DEF OnePerHour
    <3>2. ASSUME NEW h \in Made("wait") PROVE \E m \in Ok("WAIT") : m.hour = h
      <4>1. source[h] \in {"cache", "model"}
        BY <2>1
      <4>2. PICK m \in memory : Decides(m, h, "wait")
        BY <2>2, <4>1
      <4>3. QED
        BY <4>2 DEF Decides
    <3>3. Made("wait") \in SUBSET (1 .. Hours)
      OBVIOUS
    <3> HIDE DEF Made, Ok
    <3>4. QED
      BY <3>1, <3>2, <3>3, HoursHaveRecords
  <2>9. Cardinality(Made("created"))
        <= Cardinality(Ok("LONG")) + Cardinality(Ok("SHORT")) + Cardinality(invalid)
    <3> DEFINE traded == Ok("LONG") \cup Ok("SHORT") \cup invalid
    <3>1. traded \in SUBSET Records /\ OnePerHour(traded)
      BY <2>3 DEF OnePerHour
    <3>2. ASSUME NEW h \in Made("created") PROVE \E m \in traded : m.hour = h
      <4>1. source[h] \in {"cache", "model"}
        BY <2>1
      <4>2. PICK m \in memory : Decides(m, h, "created")
        BY <2>2, <4>1
      <4>3. QED
        BY <4>2 DEF Decides
    <3>3. Made("created") \in SUBSET (1 .. Hours)
      OBVIOUS
    <3>4. Cardinality(Made("created")) <= Cardinality(traded)
      <4> HIDE DEF Made, traded
      <4>1. QED
        BY <3>1, <3>2, <3>3, HoursHaveRecords
    <3>5. /\ Ok("LONG") \cap Ok("SHORT") = {} /\ Ok("LONG") \cap invalid = {}
          /\ Ok("SHORT") \cap invalid = {}
          /\ IsFiniteSet(Ok("LONG")) /\ IsFiniteSet(Ok("SHORT")) /\ IsFiniteSet(invalid)
      BY <2>5, FS_Subset
    <3>6. Cardinality(traded)
          = Cardinality(Ok("LONG")) + Cardinality(Ok("SHORT")) + Cardinality(invalid)
      <4> HIDE DEF Ok, invalid
      <4>1. QED
        BY <3>5, ThreeParts
    <3>7. QED
      BY <3>4, <3>6
  <2>10. Cardinality({h \in Sourced(source, "failed") : Cached(h) # {}}) <= history.faults
    BY <2>2 DEF FailedYetKept
  <2>11. /\ SignalQuality.analyzed = Cardinality(memory)
         /\ SignalQuality.invalid = Cardinality(invalid)
         /\ SignalQuality.longs = Cardinality(Ok("LONG"))
         /\ SignalQuality.shorts = Cardinality(Ok("SHORT"))
         /\ SignalQuality.waits = Cardinality(Ok("WAIT"))
    BY DEF SignalQuality
  <2>12. /\ EngineCounts.analyzed = Cardinality(Made("created")) + Cardinality(Made("rejected"))
                                     + Cardinality(Made("wait"))
         /\ EngineCounts.waits = Cardinality(Made("wait"))
         /\ EngineCounts.created = Cardinality(Made("created"))
    BY DEF EngineCounts
  <2>13. /\ Cardinality(Ok("LONG")) \in Nat /\ Cardinality(Ok("SHORT")) \in Nat
         /\ Cardinality(invalid) \in Nat
    BY <2>5, FS_Subset, FS_CardinalityType
  <2> DEFINE n(kind) == Cardinality(Sourced(source, kind))
  <2>14. /\ EngineCounts.analyzed = stats.cached + stats.fresh
         /\ EngineCounts.analyzed - stats.failed <= SignalQuality.analyzed
    <3>1. n("cache") \in Nat /\ n("model") \in Nat /\ n("failed") \in Nat
      BY <2>4
    <3>2. EngineCounts.analyzed = n("cache") + n("model") + n("failed")
      BY <2>6, <2>12
    <3>3. n("cache") + n("model") <= Cardinality(memory)
      BY <2>7
    <3>4. stats.cached = n("cache") /\ stats.failed = n("failed")
          /\ stats.fresh = n("model") + n("failed")
      BY <2>1
    <3> HIDE DEF n
    <3>5. QED
      BY <2>5, <2>11, <3>1, <3>2, <3>3, <3>4
  <2>15. /\ EngineCounts.waits <= SignalQuality.waits
         /\ EngineCounts.created
              <= SignalQuality.longs + SignalQuality.shorts + SignalQuality.invalid
    BY <2>8, <2>9, <2>11, <2>12
  <2>16. QED
    BY <2>10, <2>14, <2>15 DEF SummaryAddsUp, Sourced
<1>2. QED
  BY <1>1, SoundAlways, PTL
===============================================================================
