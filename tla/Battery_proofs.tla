--------------------------- MODULE Battery_proofs ---------------------------
(***************************************************************************)
(* battery.c, for all voltages and times.  The percentage: the search in   *)
(* the curve finds the row of every voltage, and the smoothing and the two *)
(* limits keep what is shown and saved in bounds and on the side that the  *)
(* mode allows.  The timer: the interval is in range whenever the thread   *)
(* is not about to limit it, although the product overflows and the        *)
(* callbacks change and read the two words of it at any point; what makes  *)
(* it so is that the callbacks only ever store the default, whose upper    *)
(* word is that of every interval in range.                                *)
(***************************************************************************)
EXTENDS Battery, BatteryTimer, TLAPS

-----------------------------------------------------------------------------
(* The curve                                                                *)

LEMMA Curve ==
    /\ Cap(0) = Row(0, 3306, 3426, 1)     /\ Cap(1) = Row(1, 3427, 3638, 9)
    /\ Cap(2) = Row(10, 3639, 3697, 10)   /\ Cap(3) = Row(20, 3698, 3729, 10)
    /\ Cap(4) = Row(30, 3730, 3748, 10)   /\ Cap(5) = Row(40, 3749, 3776, 10)
    /\ Cap(6) = Row(50, 3777, 3827, 10)   /\ Cap(7) = Row(60, 3828, 3895, 10)
    /\ Cap(8) = Row(70, 3896, 3954, 10)   /\ Cap(9) = Row(80, 3955, 4050, 10)
    /\ Cap(10) = Row(90, 4051, 4119, 10)  /\ Cap(11) = Row(100, 4120, 4240, 1)
BY DEF Cap, capParams

LEMMA Rows == \A i \in 0..11 : \/ i = 0 \/ i = 1 \/ i = 2 \/ i = 3 \/ i = 4 \/ i = 5
                               \/ i = 6 \/ i = 7 \/ i = 8 \/ i = 9 \/ i = 10 \/ i = 11
OBVIOUS

\* The rows are in order, none is empty, and the steps within a row are of 1 mV at
\* least.
LEMMA Ordered ==
    /\ \A i \in 0..11 : /\ Cap(i).min \in Int /\ Cap(i).max \in Int
                        /\ Cap(i).hysteresis \in 1..10
                        /\ Cap(i).max - Cap(i).min >= Cap(i).hysteresis
                        /\ Cap(i).capacity \in 0..100
    /\ \A i, j \in 0..11 : i < j => /\ Cap(i).max < Cap(j).min
                                    /\ Cap(i).capacity < Cap(j).capacity
<1>1. \A i \in 0..11 : /\ Cap(i).min \in Int /\ Cap(i).max \in Int
                        /\ Cap(i).hysteresis \in 1..10
                        /\ Cap(i).max - Cap(i).min >= Cap(i).hysteresis
                        /\ Cap(i).capacity \in 0..100
  BY Curve, Rows DEF Row
<1>2. \A i \in 0..10 : /\ Cap(i).max < Cap(i + 1).min
                       /\ Cap(i).capacity < Cap(i + 1).capacity
  BY Curve, Rows DEF Row
<1>3. \A i, j \in 0..11 : i < j => /\ Cap(i).max < Cap(j).min
                                    /\ Cap(i).capacity < Cap(j).capacity
  BY Curve, Rows DEF Row
<1> QED
  BY <1>1, <1>3

-----------------------------------------------------------------------------
(* FIND_INDEX_BY_BAT                                                        *)

Ranges == {rows \in [low : 0..11, high : 0..11] : rows.low <= rows.high}

LEMMA MiddleInside ==
    ASSUME NEW rows \in Ranges
    PROVE  /\ Middle(rows) \in Int /\ rows.low <= Middle(rows) /\ Middle(rows) <= rows.high
           /\ 2 * Middle(rows) \in {rows.low + rows.high, rows.low + rows.high - 1}
BY DEF Middle, Ranges

LEMMA HalvedType == ASSUME NEW v \in Int, NEW rows \in Ranges PROVE Halved(v, rows) \in Ranges
BY MiddleInside DEF Halved, Ranges

\* The index is one of a row, whatever the voltage is.
LEMMA FindIndexType == ASSUME NEW v \in Int PROVE FindIndex(v) \in 0..11
<1>1. [low |-> 0, high |-> Size - 1] \in Ranges
  BY DEF Ranges, Size
<1> DEFINE last == Halved(v, Halved(v, Halved(v, [low |-> 0, high |-> Size - 1])))
<1>2. last \in Ranges
  BY <1>1, HalvedType
<1>3. FindIndex(v) = Middle(last)
  BY DEF FindIndex
<1> HIDE DEF last
<1> QED
  BY <1>2, <1>3, MiddleInside DEF Ranges

\* The row that holds the voltage is never left out, and at least half of the
\* others are, until it is found.
LEMMA Narrows ==
    ASSUME NEW v \in Int, NEW i \in 0..11, Cap(i).min <= v, v <= Cap(i).max,
           NEW rows \in Ranges, rows.low <= i, i <= rows.high
    PROVE  LET half == Halved(v, rows)
           IN  /\ half \in Ranges /\ half.low <= i /\ i <= half.high
               /\ \/ half = rows /\ Middle(rows) = i
                  \/ 2 * (half.high - half.low) <= rows.high - rows.low - 1
<1> DEFINE mid == Middle(rows)
<1>1. /\ mid \in 0..11 /\ rows.low <= mid /\ mid <= rows.high
      /\ 2 * mid \in {rows.low + rows.high, rows.low + rows.high - 1}
      /\ rows.low \in 0..11 /\ rows.high \in 0..11
  BY MiddleInside DEF Ranges
<1>2. Halved(v, rows) \in Ranges
  BY HalvedType
<1>3. CASE mid = i
  BY <1>2, <1>3, Ordered DEF Halved
<1>4. CASE i < mid
  <2>1. v < Cap(mid).min
    BY <1>1, <1>4, Ordered
  <2>2. Halved(v, rows) = [rows EXCEPT !.high = mid - 1]
    BY <1>1, <1>4, <2>1 DEF Halved
  <2> QED
    BY <1>1, <1>2, <1>4, <2>2 DEF Ranges
<1>5. CASE i > mid
  <2>1. v > Cap(mid).max /\ ~(v < Cap(mid).min)
    BY <1>1, <1>5, Ordered
  <2>2. Halved(v, rows) = [rows EXCEPT !.low = mid + 1]
    BY <1>1, <1>5, <2>1 DEF Halved
  <2> QED
    BY <1>1, <1>2, <1>5, <2>2 DEF Ranges
<1> QED
  BY <1>1, <1>3, <1>4, <1>5

\* Three rounds find the row of every voltage on the curve.
LEMMA Found ==
    ASSUME NEW v \in Int, NEW i \in 0..11, Cap(i).min <= v, v <= Cap(i).max
    PROVE  FindIndex(v) = i
<1> DEFINE r0 == [low |-> 0, high |-> Size - 1]
           r1 == Halved(v, r0)
           r2 == Halved(v, r1)
           r3 == Halved(v, r2)
           Holds(r) == r \in Ranges /\ r.low <= i /\ i <= r.high
           Shrinks(r, h) == \/ h = r /\ Middle(r) = i
                            \/ 2 * (h.high - h.low) <= r.high - r.low - 1
<1>0. Holds(r0) /\ r0.high - r0.low = 11
  BY DEF Ranges, Size
<1>1. Holds(r1) /\ Shrinks(r0, r1)
  BY <1>0, Narrows
<1>2. Holds(r2) /\ Shrinks(r1, r2)
  BY <1>1, Narrows
<1>3. Holds(r3) /\ Shrinks(r2, r3)
  BY <1>2, Narrows
<1>4. FindIndex(v) = Middle(r3)
  BY DEF FindIndex
<1>5. (r1 = r0 => r2 = r1) /\ (r2 = r1 => r3 = r2)
  OBVIOUS
<1>6. \A r \in Ranges : r.low \in Int /\ r.high \in Int
  BY DEF Ranges
<1> HIDE DEF r0, r1, r2, r3
<1>7. Middle(r3) = i \/ r3.high - r3.low <= 0
  BY <1>0, <1>1, <1>2, <1>3, <1>5, <1>6
<1> QED
  BY <1>3, <1>4, <1>6, <1>7, MiddleInside
-----------------------------------------------------------------------------
(* The percentage of a voltage, and the voltage of a percentage             *)

LEMMA PercentType == ASSUME NEW v \in Int PROVE Percent(v) \in 0..100
<1> DEFINE i == FindIndex(v)
           c0 == Cap(i).capacity
           c1 == Cap(i + 1).capacity
           offset == ((c1 - c0) * (v - Cap(i).min) * 10) \div (Cap(i + 1).min - Cap(i).min)
           cap == c0 + offset \div 10 + (IF offset % 10 >= 5 THEN 1 ELSE 0)
<1>1. i \in 0..11
  BY FindIndexType
<1>2. ASSUME i \in 1..10 PROVE cap \in Int /\ c0 \in 0..100 /\ c1 \in 0..100
  <2>1. c0 \in 0..100 /\ c1 \in 0..100
    BY <1>2, Ordered
  <2>2. Cap(i + 1).min - Cap(i).min \in Nat \ {0} /\ Cap(i).min \in Int
    BY <1>2, Ordered
  <2>3. (c1 - c0) * (v - Cap(i).min) * 10 \in Int
    BY <2>1, <2>2
  <2> HIDE DEF i, c0, c1
  <2>4. offset \in Int
    BY <2>2, <2>3
  <2> HIDE DEF offset
  <2> QED
    BY <2>1, <2>4
<1> HIDE DEF cap
<1>3. \/ Percent(v) \in {0, 100, c0}
      \/ i \in 1..10 /\ Percent(v) = c1
      \/ i \in 1..10 /\ Percent(v) = cap /\ c0 <= cap /\ cap <= c1
  <2>1. Percent(v) = IF v < Cap(0).min THEN 0
                     ELSE IF v > Cap(Size - 1).max THEN 100
                     ELSE IF i \in {0, Size - 1} THEN c0
                     ELSE IF cap > c1 THEN c1 ELSE IF cap < c0 THEN c0 ELSE cap
    BY DEF Percent, cap
  <2> HIDE DEF i, c0, c1
  <2> QED
    BY <1>1, <1>2, <2>1 DEF Size
<1>4. c0 \in 0..100
  BY <1>1, Ordered
<1> HIDE DEF i, c0, c1
<1> QED
  BY <1>2, <1>3, <1>4

\* What a saved percentage is restored to lies in the row that begins with it or
\* before it.
LEMMA RestoredRow ==
    ASSUME NEW p \in 1..99
    PROVE  \E i \in 1..10 :
              /\ Cap(i).capacity <= p /\ p < Cap(i + 1).capacity
              /\ RestoredVoltage(p) = Cap(i).min + ((p % Cap(i).hysteresis)
                     * (Cap(i).max - Cap(i).min)) \div Cap(i).hysteresis
<1> DEFINE In(j) == p >= Cap(j).capacity /\ p < Cap(j + 1).capacity
           i == CHOOSE j \in 0..Size - 2 : In(j)
<1>1. \E j \in 0..Size - 2 : In(j)
  <2>1. \/ In(1) \/ In(2) \/ In(3) \/ In(4) \/ In(5)
        \/ In(6) \/ In(7) \/ In(8) \/ In(9) \/ In(10)
    BY Curve DEF Row
  <2> HIDE DEF In
  <2> QED
    BY <2>1 DEF Size
<1>2. i \in 0..Size - 2 /\ In(i)
  BY <1>1
<1>3. i # 0
  BY <1>2, Curve DEF Row
<1>4. RestoredVoltage(p) = Cap(i).min + ((p % Cap(i).hysteresis)
                     * (Cap(i).max - Cap(i).min)) \div Cap(i).hysteresis
  BY DEF RestoredVoltage
<1> HIDE DEF i
<1> QED
  BY <1>2, <1>3, <1>4 DEF Size

\* The rounding down on the way to a voltage and the rounding on the way back, in
\* a row of ten percent and in the row of 1 to 9.
LEMMA ThereAndBack ==
    ASSUME NEW k \in 0..9, NEW w \in {58, 31, 18, 27, 50, 67, 95, 68}
    PROVE  LET d == (k * w) \div 10
               offset == (10 * d * 10) \div (w + 1)
           IN  k - (offset \div 10 + (IF offset % 10 >= 5 THEN 1 ELSE 0)) \in -1..1
<1>1. \/ k = 0 \/ k = 1 \/ k = 2 \/ k = 3 \/ k = 4 \/ k = 5 \/ k = 6 \/ k = 7 \/ k = 8 \/ k = 9
  OBVIOUS
<1> QED
  BY <1>1

LEMMA Between == ASSUME NEW v \in Int, NEW low \in Voltages, NEW high \in Voltages,
                        low <= v, v <= high
                 PROVE  v \in Voltages
<1>1. low \in Int /\ 0 <= low
  BY DEF Voltages
<1>2. high \in Int /\ high <= 5000
  BY DEF Voltages
<1>3. 0 <= v /\ v <= 5000
  BY <1>1, <1>2
<1> QED
  BY <1>3 DEF Voltages

\* A part of a row's width, rounded down, lies within the row.
LEMMA PartOfRow ==
    ASSUME NEW i \in 1..10, NEW p \in 1..99
    PROVE  ((p % Cap(i).hysteresis) * (Cap(i).max - Cap(i).min)) \div Cap(i).hysteresis
                \in 0..(Cap(i).max - Cap(i).min)
<1>1. CASE i = 1
  <2>1. Cap(i).hysteresis = 9 /\ Cap(i).max - Cap(i).min = 211
    BY <1>1, Curve DEF Row
  <2>2. p % 9 \in 0..8
    OBVIOUS
  <2>3. ((p % 9) * 211) \div 9 \in 0..211
    BY <2>2
  <2> QED
    BY <2>1, <2>3
<1>2. CASE i \in 2..10
  <2>1. Cap(i).hysteresis = 10 /\ Cap(i).max - Cap(i).min \in {58, 31, 18, 27, 50, 67, 95, 68}
    BY <1>2, Rows, Curve DEF Row
  <2>2. p % 10 \in 0..9
    OBVIOUS
  <2>3. ASSUME NEW k \in 0..9, NEW w \in {58, 31, 18, 27, 50, 67, 95, 68}
        PROVE  (k * w) \div 10 \in 0..w
    OBVIOUS
  <2> DEFINE rest == p % 10
             w == Cap(i).max - Cap(i).min
  <2>4. (rest * w) \div 10 \in 0..w
    <3> HIDE DEF rest, w
    <3>1. rest \in 0..9 /\ w \in {58, 31, 18, 27, 50, 67, 95, 68}
      BY <2>1, <2>2 DEF rest, w
    <3> QED
      BY <3>1, <2>3
  <2> QED
    BY <2>1, <2>4
<1> QED
  BY <1>1, <1>2

LEMMA RestoredType == ASSUME NEW p \in 1..100 PROVE RestoredVoltage(p) \in Voltages
<1>1. CASE p = 100
  BY <1>1, Curve DEF RestoredVoltage, Row, Size, Voltages
<1>2. CASE p \in 1..99
  <2>0. PICK i \in 1..10 : RestoredVoltage(p) = Cap(i).min + ((p % Cap(i).hysteresis)
                     * (Cap(i).max - Cap(i).min)) \div Cap(i).hysteresis
    BY <1>2, RestoredRow
  <2>1. /\ RestoredVoltage(p) \in Int
        /\ Cap(i).min <= RestoredVoltage(p) /\ RestoredVoltage(p) <= Cap(i).max
    <3>1. RestoredVoltage(p) - Cap(i).min \in 0..(Cap(i).max - Cap(i).min)
          /\ RestoredVoltage(p) \in Int
      <4> DEFINE part == ((p % Cap(i).hysteresis) * (Cap(i).max - Cap(i).min))
                              \div Cap(i).hysteresis
      <4>1. part \in 0..(Cap(i).max - Cap(i).min) /\ RestoredVoltage(p) = Cap(i).min + part
        BY <2>0, <1>2, PartOfRow
      <4> HIDE DEF part
      <4> QED
        BY <4>1, Ordered
    <3> QED
      BY <3>1, Ordered
  <2>2. Cap(i).min \in Voltages /\ Cap(i).max \in Voltages
    <3>1. Cap(0).max = 3426 /\ Cap(11).min = 4120
      BY Curve DEF Row
    <3>2. /\ Cap(i).min \in Int /\ Cap(i).max \in Int /\ Cap(i).min <= Cap(i).max
          /\ 3426 < Cap(i).min /\ Cap(i).max < 4120
      BY <3>1, Ordered
    <3>3. ASSUME NEW x \in Int, 3426 <= x, x <= 4120 PROVE x \in Voltages
      BY <3>3 DEF Voltages
    <3>4. /\ 3426 <= Cap(i).min /\ Cap(i).min <= 4120
          /\ 3426 <= Cap(i).max /\ Cap(i).max <= 4120
      BY <3>2
    <3>5. Cap(i).min \in Voltages
      BY <3>2, <3>3, <3>4
    <3>6. Cap(i).max \in Voltages
      BY <3>2, <3>3, <3>4
    <3> QED
      BY <3>5, <3>6
  <2> QED
    BY <2>1, <2>2, Between
<1> QED
  BY <1>1, <1>2

\* Every saved percentage but 9 is restored to a voltage of its row that is shown
\* within 1 of it.
LEMMA RestoredWithin1 ==
    ASSUME NEW p \in (1..100) \ {9}
    PROVE  p - Percent(RestoredVoltage(p)) \in -1..1
<1>1. CASE p = 100
  <2>1. RestoredVoltage(p) = 4120
    BY <1>1, Curve DEF RestoredVoltage, Row, Size
  <2>2. FindIndex(4120) = 11
    BY Found, Curve DEF Row
  <2> QED
    BY <1>1, <2>1, <2>2, Curve DEF Percent, Row, Size
<1>2. CASE p \in 1..99
  <2> PICK i \in 1..10 :
         /\ Cap(i).capacity <= p /\ p < Cap(i + 1).capacity
         /\ RestoredVoltage(p) = Cap(i).min + ((p % Cap(i).hysteresis)
                     * (Cap(i).max - Cap(i).min)) \div Cap(i).hysteresis
    BY <1>2, RestoredRow
  <2> DEFINE v == RestoredVoltage(p)
             c0 == Cap(i).capacity
             c1 == Cap(i + 1).capacity
             offset == ((c1 - c0) * (v - Cap(i).min) * 10) \div (Cap(i + 1).min - Cap(i).min)
             cap == c0 + offset \div 10 + (IF offset % 10 >= 5 THEN 1 ELSE 0)
  <2>1. v \in Int /\ Cap(i).min <= v /\ v <= Cap(i).max
    <3> DEFINE part == ((p % Cap(i).hysteresis) * (Cap(i).max - Cap(i).min))
                            \div Cap(i).hysteresis
    <3>1. part \in 0..(Cap(i).max - Cap(i).min) /\ v = Cap(i).min + part
      BY <1>2, PartOfRow
    <3> HIDE DEF part, v
    <3> QED
      BY <3>1, Ordered
  <2>2. FindIndex(v) = i
    BY <2>1, Found
  <2>3. Cap(0).min <= v /\ v <= Cap(11).max
    BY <2>1, Ordered
  <2>4. Percent(v) = IF cap > c1 THEN c1 ELSE IF cap < c0 THEN c0 ELSE cap
    <3>1. Cap(0).min \in Int /\ Cap(11).max \in Int
      BY Ordered
    <3>2. ~(v < Cap(0).min) /\ ~(v > Cap(11).max) /\ i \notin {0, 11}
      <4> HIDE DEF v
      <4> QED
        BY <2>1, <2>3, <3>1
    <3>3. Size - 1 = 11
      BY DEF Size
    <3> QED
      BY <2>2, <3>2, <3>3, Zenon DEF Percent
  <2>5. CASE i = 1
    <3>1. /\ Cap(1).min = 3427 /\ Cap(1).max = 3638 /\ Cap(1).hysteresis = 9 /\ c0 = 1 /\ c1 = 10
          /\ Cap(2).min = 3639
      BY <2>5, Curve DEF Row
    <3>2. p \in 1..8 /\ v = 3427 + (p * 211) \div 9
      BY <2>5, <3>1
    <3>3. \/ p = 1 \/ p = 2 \/ p = 3 \/ p = 4 \/ p = 5 \/ p = 6 \/ p = 7 \/ p = 8
      BY <3>2
    <3>4. offset = (9 * (v - 3427) * 10) \div 212
      BY <2>5, <3>1
    <3>5. cap \in Int /\ p - cap \in -1..1
      BY <3>1, <3>2, <3>3, <3>4
    <3> QED
      BY <2>4, <3>1, <3>2, <3>5
  <2>6. CASE i \in 2..10
    <3> DEFINE k == p - c0
               w == Cap(i).max - Cap(i).min
               d == (k * w) \div 10
               off == (10 * d * 10) \div (w + 1)
               back == off \div 10 + (IF off % 10 >= 5 THEN 1 ELSE 0)
    <3>1. /\ w \in {58, 31, 18, 27, 50, 67, 58, 95, 68} /\ Cap(i).hysteresis = 10
          /\ Cap(i + 1).min - Cap(i).min = w + 1 /\ c1 - c0 = 10
          /\ c0 \in Int /\ c1 \in Int /\ c0 % 10 = 0 /\ Cap(i).min \in Int
      BY <2>6, Rows, Curve DEF Row
    <3>2. k \in 0..9 /\ p % 10 = k
      <4>1. /\ c0 \in {10, 20, 30, 40, 50, 60, 70, 80, 90} /\ c0 <= p /\ p < c0 + 10
        BY <2>6, Rows, Curve DEF Row
      <4> HIDE DEF c0
      <4> QED
        BY <4>1
    <3>3. v - Cap(i).min = d /\ d \in Int
      <4>1. d \in Int /\ v = Cap(i).min + d
        BY <3>1, <3>2
      <4> QED
        BY <3>1, <4>1
    <3>4. offset = off /\ cap = c0 + back
      BY <3>1, <3>3
    <3>5. k - back \in -1..1
      <4>1. k \in 0..9 /\ w \in {58, 31, 18, 27, 50, 67, 95, 68}
        BY <3>1, <3>2
      <4> HIDE DEF k, w
      <4> QED
        BY <4>1, ThereAndBack
    <3> HIDE DEF k, w
    <3>6. back \in Int
      <4>1. w + 1 \in Nat \ {0}
        BY <3>1
      <4>2. off \in Int
        BY <3>3, <4>1
      <4> HIDE DEF off
      <4> QED
        BY <4>2
    <3> HIDE DEF cap, back, off, d
    <3>7. cap \in Int /\ p - cap \in -1..1
      BY <3>1, <3>4, <3>5, <3>6 DEF k
    <3> QED
      BY <2>4, <3>1, <3>7
  <2> QED
    BY <2>5, <2>6
<1> QED
  BY <1>1, <1>2
-----------------------------------------------------------------------------
(* The smoothed voltage                                                     *)

LEMMA Strides ==
    \A i \in 0..11 : (Cap(i).max - Cap(i).min) \div Cap(i).hysteresis \in Nat \ {0}
BY Rows, Curve DEF Row

LEMMA FifthBetween ==
    ASSUME NEW d \in Int
    PROVE  /\ Fifth(d) \in Int
           /\ d >= 0 => 0 <= Fifth(d) /\ Fifth(d) <= d
           /\ d <= 0 => d <= Fifth(d) /\ Fifth(d) <= 0
           /\ d \notin -4..4 => Fifth(d) # 0
BY DEF Fifth

\* Half a stride is no more than the difference it is applied to.
LEMMA SmoothedBetween ==
    ASSUME NEW v \in Int, pre_voltage \in Int, pre_voltage # 0
    PROVE  /\ Smoothed(v) \in Int
           /\ \/ pre_voltage <= Smoothed(v) /\ Smoothed(v) <= v
              \/ v <= Smoothed(v) /\ Smoothed(v) <= pre_voltage
           /\ v - pre_voltage \notin -4..4 => Smoothed(v) # pre_voltage
<1> DEFINE diff == v - pre_voltage
           row == Cap(FindIndex(pre_voltage))
           m_stride == (row.max - row.min) \div row.hysteresis
           half == (m_stride + 1) \div 2
<1>1. m_stride \in Nat \ {0}
  BY FindIndexType, Strides
<1>2. Smoothed(v) = IF diff >= m_stride THEN pre_voltage + half
                    ELSE IF diff <= -m_stride THEN pre_voltage - half
                    ELSE pre_voltage + Fifth(diff)
  BY DEF Smoothed
<1> HIDE DEF m_stride
<1>3. half \in Nat \ {0} /\ half <= m_stride
  BY <1>1
<1>4. diff \in Int /\ /\ Fifth(diff) \in Int
                      /\ diff >= 0 => 0 <= Fifth(diff) /\ Fifth(diff) <= diff
                      /\ diff <= 0 => diff <= Fifth(diff) /\ Fifth(diff) <= 0
                      /\ diff \notin -4..4 => Fifth(diff) # 0
  BY FifthBetween
<1> HIDE DEF half
<1> QED
  BY <1>1, <1>2, <1>3, <1>4

LEMMA Millivolts == Voltages \subseteq Int
BY DEF Voltages

\* With a voltage there is from the supply.
LEMMA SmoothedType == TypeOK => Smoothed(vbat) \in Voltages /\ vbat \in Voltages
<1> SUFFICES ASSUME TypeOK PROVE Smoothed(vbat) \in Voltages /\ vbat \in Voltages
  OBVIOUS
<1>1. vbat \in Voltages /\ pre_voltage \in Voltages
  BY BatteryAssumption DEF TypeOK
<1>2. CASE pre_voltage = 0
  BY <1>1, <1>2 DEF Smoothed
<1>3. CASE pre_voltage # 0
  <2>1. vbat \in Int /\ pre_voltage \in Int
    BY <1>1, Millivolts
  <2> QED
    BY <1>1, <1>3, <2>1, SmoothedBetween, Between
<1> QED
  BY <1>2, <1>3

-----------------------------------------------------------------------------
(* The percentage that is shown                                             *)

\* Between the two reads of the mode the percentage is still that of the smoothed
\* voltage, and one that is above the last is already held back while discharging.
Limiting ==
    /\ pc \in {"limit", "limit2"} => percent = Percent(pre_voltage)
    /\ pc = "limit2" /\ ~flipped /\ battery_mode = "discharging" => percent <= pre_percent
    /\ pc \notin {"limit2", "record"} => ~flipped

PercentInv == TypeOK /\ Limiting /\ OnTheSafeSide

LEMMA PercentInitially == Init => PercentInv
<1> SUFFICES ASSUME Init PROVE PercentInv
  OBVIOUS
<1>1. 0 \in Voltages
  BY DEF Voltages
<1>2. pc = "off" /\ flipped = FALSE
  BY DEF Init
<1>3. Limiting /\ OnTheSafeSide
  BY <1>2 DEF Limiting, OnTheSafeSide
<1>4. TypeOK
  <2>1. flipped \in BOOLEAN
    BY <1>2
  <2> QED
    BY <1>1, <2>1 DEF Init, TypeOK, Modes
<1> QED
  BY <1>3, <1>4 DEF PercentInv

\* What the gradient does to a percentage of the curve.
LEMMA OversteppedType ==
    ASSUME NEW p \in 0..100, pre_percent \in Int
    PROVE  /\ Overstepped(p) \in -1..101
           /\ p <= pre_percent => Overstepped(p) <= p
           /\ p >= pre_percent => Overstepped(p) >= p
BY DEF Overstepped

\* The second read of the mode, and the gradient.
LEMMA Limited ==
    ASSUME PercentInv, HoldCharging
    PROVE  /\ percent' \in -1..101 /\ pre_percent' = percent'
           /\ ~flipped => IF battery_mode = "discharging"
                          THEN percent' <= percent /\ pre_percent' <= pre_percent
                          ELSE percent' >= percent /\ pre_percent' >= pre_percent
<1>1. percent \in 0..100
  <2>1. pc = "limit2"
    BY DEF HoldCharging
  <2>2. percent = Percent(pre_voltage)
    BY <2>1 DEF PercentInv, Limiting
  <2>3. pre_voltage \in Int
    BY Millivolts DEF PercentInv, TypeOK
  <2> QED
    BY <2>2, <2>3, PercentType
<1>2. pre_percent \in -1..101
  BY DEF PercentInv, TypeOK
<1>3. /\ percent' = IF battery_mode = "charging" /\ pre_percent > percent
                    THEN pre_percent ELSE Overstepped(percent)
      /\ pre_percent' = percent'
  BY DEF HoldCharging
<1>4. /\ Overstepped(percent) \in -1..101
      /\ percent <= pre_percent => Overstepped(percent) <= percent
      /\ percent >= pre_percent => Overstepped(percent) >= percent
  BY <1>1, <1>2, OversteppedType
<1>5. battery_mode \in {"charging", "discharging"}
  BY DEF PercentInv, TypeOK, Modes
<1>6. ~flipped /\ battery_mode = "discharging" => percent <= pre_percent
  BY DEF HoldCharging, PercentInv, Limiting
<1> QED
  BY <1>1, <1>2, <1>3, <1>4, <1>5, <1>6

LEMMA PercentInductive == PercentInv /\ [Next]_vars => PercentInv'
<1> SUFFICES ASSUME PercentInv, [Next]_vars PROVE PercentInv'
  OBVIOUS
<1>0. /\ vbat \in Supply /\ battery_mode \in Modes /\ pre_voltage \in Voltages
      /\ pre_percent \in -1..101 /\ percent \in -1..101 /\ saved \in 0..101 \cup {Nothing}
      /\ flipped \in BOOLEAN
  BY DEF PercentInv, TypeOK
<1>1. Percent(vbat) \in 0..100 /\ Percent(pre_voltage) \in 0..100 /\ vbat \in Voltages
  <2>1. vbat \in Voltages
    BY <1>0, BatteryAssumption
  <2> QED
    BY <1>0, <2>1, Millivolts, PercentType
<1>2. CASE SupplyMoves
  BY <1>2 DEF SupplyMoves, PercentInv, TypeOK, Limiting, OnTheSafeSide
<1>3. CASE Boot \/ PowerCut
  <2>1. /\ pc' \in {"off", "restore"} /\ flipped' = FALSE /\ battery_mode' = "discharging"
        /\ pre_voltage' = 0 /\ pre_percent' = 0 /\ percent' = 0
        /\ UNCHANGED <<vbat, saved>>
    BY <1>3 DEF Boot, PowerCut
  <2>2. Limiting' /\ OnTheSafeSide'
    BY <2>1 DEF Limiting, OnTheSafeSide
  <2>3. 0 \in Voltages
    BY DEF Voltages
  <2>4. TypeOK'
    <3>1. flipped' \in BOOLEAN
      BY <2>1
    <3> QED
      BY <1>0, <2>1, <2>3, <3>1 DEF TypeOK, Modes
  <2> QED
    BY <2>2, <2>4 DEF PercentInv
<1>4. CASE Restore
  <2>1. /\ pc = "restore" /\ pc' = "wait"
        /\ UNCHANGED <<vbat, battery_mode, percent, saved, flipped>>
    BY <1>4 DEF Restore
  <2>2. pre_percent' \in -1..101 /\ pre_voltage' \in Voltages
    <3>1. CASE saved \in 1..100
      BY <1>4, <3>1, RestoredType DEF Restore
    <3>2. CASE saved \notin 1..100
      BY <1>1, <1>4, <3>2 DEF Restore
    <3> QED
      BY <3>1, <3>2
  <2> QED
    BY <1>0, <2>1, <2>2 DEF PercentInv, TypeOK, Limiting, OnTheSafeSide
<1>5. ASSUME NEW m \in Modes, UsbCallback(m) PROVE PercentInv'
  <2>1. /\ battery_mode' = m /\ flipped' = (flipped \/ pc \in {"limit2", "record"})
        /\ UNCHANGED <<vbat, pre_voltage, pre_percent, percent, saved, pc>>
    BY <1>5 DEF UsbCallback
  <2>2. flipped' <=> flipped \/ pc \in {"limit2", "record"}
    BY <2>1
  <2>3. Limiting' /\ OnTheSafeSide'
    BY <2>1, <2>2 DEF PercentInv, Limiting, OnTheSafeSide
  <2>4. flipped' \in BOOLEAN
    BY <1>0, <2>1
  <2>5. TypeOK'
    BY <2>1, <2>4 DEF PercentInv, TypeOK
  <2> QED
    BY <2>3, <2>5 DEF PercentInv
<1>6. CASE Measure
  <2>1. Smoothed(vbat) \in Voltages
    BY SmoothedType DEF PercentInv
  <2>2. Percent(Smoothed(vbat)) \in 0..100
    BY <2>1, Millivolts, PercentType
  <2> QED
    BY <1>0, <1>6, <2>1, <2>2 DEF Measure, PercentInv, TypeOK, Limiting, OnTheSafeSide
<1>7. CASE HoldDischarging
  <2>1. percent = Percent(pre_voltage) /\ ~flipped /\ pc = "limit"
    BY <1>7 DEF HoldDischarging, PercentInv, Limiting
  <2> QED
    BY <1>0, <1>7, <2>1 DEF HoldDischarging, PercentInv, TypeOK, Limiting, OnTheSafeSide
<1>8. CASE HoldCharging
  <2>1. /\ pc' = "record" /\ UNCHANGED <<vbat, battery_mode, pre_voltage, saved, flipped>>
        /\ percent = Percent(pre_voltage)
    BY <1>8 DEF HoldCharging, PercentInv, Limiting
  <2> QED
    BY <1>0, <1>8, <2>1, Limited DEF PercentInv, TypeOK, Limiting, OnTheSafeSide
<1>9. CASE Record
  <2>1. /\ pc' = "wait" /\ flipped' = FALSE
        /\ UNCHANGED <<vbat, battery_mode, pre_voltage, pre_percent, percent>>
        /\ saved' = IF percent >= 0 THEN percent ELSE saved
    BY <1>9 DEF Record
  <2>2. Limiting' /\ OnTheSafeSide'
    BY <2>1 DEF Limiting, OnTheSafeSide
  <2>3. saved' \in 0..101 \cup {Nothing}
    BY <1>0, <2>1
  <2>4. TypeOK'
    BY <1>0, <2>1, <2>3 DEF TypeOK
  <2> QED
    BY <2>2, <2>4 DEF PercentInv
<1>10. CASE UNCHANGED vars
  BY <1>10 DEF vars, PercentInv, TypeOK, Limiting, OnTheSafeSide
<1> QED
  BY <1>2, <1>3, <1>4, <1>5, <1>6, <1>7, <1>8, <1>9, <1>10 DEF Next, Detect

\* The percentage that battery.c shows leaves 0..100 by 1 at most, for every supply
\* and wherever the callback or a power cut comes, and none below 0 is saved.
THEOREM PercentTypes == Spec => []TypeOK
<1>1. PercentInv => TypeOK
  BY DEF PercentInv
<1> QED
  BY <1>1, PercentInitially, PercentInductive, PTL DEF Spec

\* gradient_limit_percent saves no more than the smoothed voltage stands for while
\* discharging and no less while charging, unless the mode changes within it.
THEOREM SavedOnTheSafeSide == Spec => []OnTheSafeSide
<1>1. PercentInv => OnTheSafeSide
  BY DEF PercentInv
<1> QED
  BY <1>1, PercentInitially, PercentInductive, PTL DEF Spec

\* Although its gradient points the wrong way, gradient_limit_percent never lets
\* the percentage rise while discharging or fall while charging, but for the race.
THEOREM NeverAgainstTheMode == Spec => MovesWithTheMode
<1> DEFINE Moves == HoldCharging /\ ~flipped =>
                       /\ pre_percent' > pre_percent => battery_mode = "charging"
                       /\ pre_percent' < pre_percent => battery_mode = "discharging"
<1>1. PercentInv /\ [Next]_vars => [Moves]_vars
  <2> SUFFICES ASSUME PercentInv, HoldCharging, ~flipped
               PROVE  /\ pre_percent' > pre_percent => battery_mode = "charging"
                      /\ pre_percent' < pre_percent => battery_mode = "discharging"
    OBVIOUS
  <2>1. /\ pre_percent \in Int /\ pre_percent' \in Int
        /\ battery_mode \in {"charging", "discharging"}
    BY Limited DEF PercentInv, TypeOK, Modes
  <2> QED
    BY <2>1, Limited
<1> QED
  BY <1>1, PercentInitially, PercentInductive, PTL DEF Spec, MovesWithTheMode

\* calculate_battery_voltage brings the smoothed voltage nearer to the measured one
\* in every row of the curve and never past it, and stops within 4 mV of it only.
THEOREM SmoothingNeverOvershoots == Spec => SmoothingApproaches
<1> DEFINE Approaches ==
        Measure /\ pre_voltage # 0 =>
          /\ \/ pre_voltage <= pre_voltage' /\ pre_voltage' <= vbat
             \/ vbat <= pre_voltage' /\ pre_voltage' <= pre_voltage
          /\ vbat - pre_voltage \notin -4..4 => pre_voltage' # pre_voltage
<1>1. PercentInv /\ [Next]_vars => [Approaches]_vars
  <2> SUFFICES ASSUME PercentInv, Measure, pre_voltage # 0 PROVE Approaches
    OBVIOUS
  <2>1. vbat \in Int /\ pre_voltage \in Int
    BY BatteryAssumption, Millivolts DEF PercentInv, TypeOK
  <2>2. pre_voltage' = Smoothed(vbat)
    BY DEF Measure
  <2> QED
    BY <2>1, <2>2, SmoothedBetween
<1> QED
  BY <1>1, PercentInitially, PercentInductive, PTL DEF Spec, SmoothingApproaches

\* get_battery_before_poweroff starts from a voltage that the saved percentage is
\* shown for, within 1, for every percentage but 9.
THEOREM RebootGoesOn == Spec => RestoreAgrees
<1>1. [Next]_vars => [Restore /\ saved \in (1..100) \ {9} =>
                         saved - Percent(pre_voltage') \in -1..1]_vars
  <2> SUFFICES ASSUME Restore, saved \in (1..100) \ {9}
               PROVE  saved - Percent(pre_voltage') \in -1..1
    OBVIOUS
  <2>1. pre_voltage' = RestoredVoltage(saved)
    BY DEF Restore
  <2> QED
    BY <2>1, RestoredWithin1
<1> QED
  BY <1>1, PTL DEF Spec, RestoreAgrees

-----------------------------------------------------------------------------
(* The timer's interval                                                     *)

Default == Interval(DEFAULT_INTERVAL)
Maximum == Interval(MAX_INTERVAL)

\* A word that the thread has stored is there, unless a plug came after it.
StoredOrPlugged ==
    step = "write" => \A w \in Halves \ todo : time_interval[w] \in {reg[w], Default[w]}

\* What is stored before the thread goes on is one of the limits.
LimitsStored == step = "write" /\ then # "zero" => reg \in {Default, Maximum}

\* A word that the thread has loaded is still there, unless a plug came after it.
LoadedOrPlugged ==
    step \in {"zero", "max"} => \/ time_interval = Default
                              \/ \A w \in Halves \ todo : reg[w] = time_interval[w]

\* After the first test the interval is not 0, and a plug does not change that.
NotZero == step = "max" => ~IsZero(time_interval)

\* A plug that counts leaves nothing else for the thread to load or to store.
Plugged == plugged => /\ time_interval = Default
                      /\ step \in {"zero", "max"} => \A w \in Halves \ todo : reg[w] = Default[w]
                      /\ step = "write" => reg = Default

\* tvTable has room when the thread records.
Room == step \in {"write", "zero", "max", "jump", "record"} => table_index < RecordCount

TimerInv == /\ TimerTypeOK /\ Room
        /\ StoredOrPlugged /\ LimitsStored /\ LoadedOrPlugged /\ NotZero
        /\ IntervalInRange /\ Plugged

-----------------------------------------------------------------------------
(* Intervals                                                                *)

\* The words decide whether an interval is in range, also when they come from two.
LEMMA Words ==
    ASSUME NEW i \in Intervals, NEW r \in Intervals
    PROVE  /\ (\A w \in Halves : i[w] = r[w]) => i = r
           /\ (\A w \in Halves : i[w] \in {r[w], Default[w]}) /\ r \in {Default, Maximum}
              => InRange(i)
BY DEF Intervals, Halves, Default, Maximum, Interval, InRange, IsZero, TooLong,
       DEFAULT_INTERVAL, MAX_INTERVAL

LEMMA Limits == /\ Default \in Intervals /\ Maximum \in Intervals
                /\ InRange(Default) /\ InRange(Maximum)
BY DEF Intervals, Default, Maximum, Interval, InRange, IsZero, TooLong,
       DEFAULT_INTERVAL, MAX_INTERVAL

\* Whatever the product overflows to, the quotient is a number.
LEMMA QuotientType ==
    ASSUME NEW ms \in Nat, NEW mv \in Nat \ {0} PROVE Interval(Quotient(ms, mv)) \in Intervals
<1>1. (ms * 125) % 2^26 \in Int
  <2>1. ms * 125 \in Int /\ 2^26 \in Int /\ 2^26 > 0
    OBVIOUS
  <2> QED
    BY <2>1
<1>2. Product(ms) \in Int
  BY <1>1 DEF Product
<1>3. (64 * Product(ms)) \div mv \in Int /\ -((-64 * Product(ms)) \div mv) \in Int
  BY <1>2
<1>4. Quotient(ms, mv) \in Int
  BY <1>3 DEF Quotient
<1> QED
  BY <1>4 DEF Interval, Intervals

-----------------------------------------------------------------------------
(* The steps                                                                *)

LEMMA TimerInitially == TimerInit => TimerInv
<1> SUFFICES ASSUME TimerInit PROVE TimerInv
  OBVIOUS
<1>1. Interval(0) \in Intervals
  BY DEF Interval, Intervals
<1>2. RecordCount \in Nat \ {0} /\ MaxPosts \in Nat \ {0}
  BY TimerAssumption
<1>3. /\ time_interval = Default /\ armed = Default /\ reg = Interval(0) /\ todo = {}
      /\ then = "wait" /\ step = "wait" /\ table_index = 0 /\ detect_state = 0
      /\ plugged = FALSE
  BY DEF TimerInit, Default
<1>4. TimerTypeOK
  <2>1. table_index \in 0..RecordCount /\ detect_state \in 0..MaxPosts
    BY <1>2, <1>3
  <2>2. plugged \in BOOLEAN
    BY <1>3
  <2> QED
    BY <1>1, <1>3, <2>1, <2>2, Limits DEF TimerTypeOK
<1> QED
  BY <1>3, <1>4, Limits DEF TimerInv, Room, StoredOrPlugged, LimitsStored, LoadedOrPlugged, NotZero,
                            IntervalInRange, Plugged

\* The thread's reads and writes.
LEMMA ThreadStep == ASSUME TimerInv, Detecting PROVE TimerInv'
<1> USE TimerAssumption DEF TimerInv
<1> USE DEF TimerTypeOK, Room, StoredOrPlugged, LimitsStored, LoadedOrPlugged, NotZero,
            IntervalInRange, Plugged
<1>1. CASE Wait
  BY <1>1 DEF Wait, Go
<1>2. CASE Recalculate
  <2> PICK ms \in Spans, mv \in Drops :
             IF mv = 0 THEN Write(Interval(MAX_INTERVAL), "jump")
                       ELSE Write(Interval(Quotient(ms, mv)), "zero")
    BY <1>2 DEF Recalculate
  <2>1. /\ time_interval' = time_interval /\ table_index' = 0 /\ plugged' = FALSE
        /\ UNCHANGED <<detect_state, armed>>
    BY <1>2 DEF Recalculate
  <2>2. /\ step' = "write" /\ todo' = Halves /\ reg' \in Intervals /\ then' \in {"jump", "zero"}
        /\ then' # "zero" => reg' = Maximum
    <3>1. CASE mv = 0
      BY <3>1, Limits DEF Write, Maximum
    <3>2. CASE mv # 0
      BY <3>2, QuotientType DEF Write
    <3> QED
      BY <3>1, <3>2
  <2>3. TimerTypeOK' /\ table_index' < RecordCount
    <3>1. table_index' < RecordCount /\ table_index' \in 0..RecordCount
      BY <2>1
    <3>2. plugged' \in BOOLEAN
      BY <2>1
    <3> QED
      BY <2>1, <2>2, <3>1, <3>2
  <2> QED
    BY <2>1, <2>2, <2>3
<1>3. ASSUME NEW w \in Halves, Store(w) PROVE TimerInv'
  <2>1. /\ step = "write" /\ w \in todo /\ todo' = todo \ {w}
        /\ time_interval' = [time_interval EXCEPT ![w] = reg[w]]
        /\ UNCHANGED <<reg, then, step, table_index, detect_state, plugged, armed>>
    BY <1>3 DEF Store
  <2>2. time_interval' \in Intervals
    BY <2>1 DEF Intervals, Halves
  <2>3. \A v \in Halves : time_interval'[v] = IF v = w THEN reg[v] ELSE time_interval[v]
    BY <2>1 DEF Intervals, Halves
  <2>4. plugged => time_interval' = Default
    BY <2>1 DEF Intervals, Halves
  <2> QED
    BY <2>1, <2>2, <2>3, <2>4
<1>4. CASE Stored
  <2>1. then = "zero" \/ InRange(time_interval)
    BY <1>4, Words DEF Stored
  <2> QED
    BY <1>4, <2>1 DEF Stored, Read, Go
<1>5. ASSUME NEW w \in Halves, Load(w) PROVE TimerInv'
  <2>1. /\ step \in {"zero", "max"} /\ w \in todo /\ todo' = todo \ {w}
        /\ reg' = [reg EXCEPT ![w] = time_interval[w]]
        /\ UNCHANGED <<time_interval, then, step, table_index, detect_state, plugged,
                       armed>>
    BY <1>5 DEF Load
  <2>2. reg' \in Intervals
    BY <2>1 DEF Intervals, Halves
  <2>3. \A v \in Halves : reg'[v] = IF v = w THEN time_interval[v] ELSE reg[v]
    BY <2>1 DEF Intervals, Halves
  <2> QED
    BY <2>1, <2>2, <2>3
<1>6. CASE LimitBelow
  <2>1. time_interval = Default \/ reg = time_interval
    BY <1>6, Words DEF LimitBelow
  <2>2. plugged => reg = Default
    BY <1>6, Words, Limits DEF LimitBelow
  <2>3. CASE IsZero(reg)
    BY <1>6, <2>2, <2>3, Limits DEF LimitBelow, Write, Default, InRange
  <2>4. CASE ~IsZero(reg)
    <3>1. ~IsZero(time_interval)
      BY <2>1, <2>4, Limits DEF InRange
    <3> QED
      BY <1>6, <2>4, <3>1 DEF LimitBelow, Read
  <2> QED
    BY <2>3, <2>4
<1>7. CASE LimitAbove
  <2>1. time_interval = Default \/ reg = time_interval
    BY <1>7, Words DEF LimitAbove
  <2>2. plugged => reg = Default
    BY <1>7, Words, Limits DEF LimitAbove
  <2>3. CASE TooLong(reg)
    BY <1>7, <2>2, <2>3, Limits DEF LimitAbove, Write, Maximum, InRange
  <2>4. CASE ~TooLong(reg)
    <3>1. InRange(time_interval)
      BY <1>7, <2>1, <2>4, Limits DEF LimitAbove, InRange
    <3> QED
      BY <1>7, <2>4, <3>1 DEF LimitAbove, Go
  <2> QED
    BY <2>3, <2>4
<1>8. CASE Jump
  BY <1>8, Limits DEF Jump, Write, Go, Default
<1>9. CASE RecordVoltage
  BY <1>9 DEF RecordVoltage, Go
<1> QED
  BY <1>1, <1>2, <1>3, <1>4, <1>5, <1>6, <1>7, <1>8, <1>9 DEF Detecting

\* The timer only reads the interval, and the plug stores both words of the default.
LEMMA CallbackStep == ASSUME TimerInv, TimerFires \/ Plug PROVE TimerInv'
<1> USE TimerAssumption, Limits DEF TimerInv
<1>1. detect_state' \in 0..MaxPosts
  <2>1. MaxPosts \in Nat /\ detect_state \in 0..MaxPosts
    BY DEF TimerTypeOK
  <2>2. detect_state' = IF detect_state < MaxPosts THEN detect_state + 1 ELSE detect_state
    BY DEF TimerFires, Plug, Post
  <2> QED
    BY <2>1, <2>2
<1> USE DEF TimerTypeOK, Room, StoredOrPlugged, LimitsStored, LoadedOrPlugged, NotZero,
            IntervalInRange, Plugged
<1>2. CASE TimerFires
  BY <1>1, <1>2 DEF TimerFires, Thread
<1>3. CASE Plug
  <2>1. /\ time_interval' = Default /\ UNCHANGED <<reg, todo, then, step, table_index, armed>>
        /\ plugged' = \/ plugged
                      \/ step \in {"wait", "jump", "record"}
                      \/ step \in {"zero", "max"} /\ todo = Halves
    BY <1>3 DEF Plug, Thread, Default
  <2> QED
    BY <1>1, <2>1 DEF InRange
<1> QED
  BY <1>2, <1>3

LEMMA TimerInductive == TimerInv /\ [TimerNext]_timer_vars => TimerInv'
<1> SUFFICES ASSUME TimerInv, [TimerNext]_timer_vars PROVE TimerInv'
  OBVIOUS
<1>1. CASE UNCHANGED timer_vars
  BY <1>1 DEF timer_vars, TimerInv, TimerTypeOK, Room, StoredOrPlugged, LimitsStored, LoadedOrPlugged, NotZero,
              IntervalInRange, Plugged
<1> QED
  BY <1>1, ThreadStep, CallbackStep DEF TimerNext

-----------------------------------------------------------------------------

\* tvTable never gets more than RECORD_COUNT records.
THEOREM TimerTypes == TimerSpec => []TimerTypeOK
<1>1. TimerInv => TimerTypeOK
  BY DEF TimerInv
<1> QED
  BY <1>1, TimerInitially, TimerInductive, PTL DEF TimerSpec

\* calculate_battery_voltage leaves an interval above 0 and at most MAX_INTERVAL,
\* for every span and every drop and wherever the callbacks interrupt it.
THEOREM AlwaysInRange == TimerSpec => []IntervalInRange
<1>1. TimerInv => IntervalInRange
  BY DEF TimerInv
<1> QED
  BY <1>1, TimerInitially, TimerInductive, PTL DEF TimerSpec

\* hrtimer_cb starts the timer with an interval that is too long only between
\* the store of the quotient and the end of the tests that limit it.
THEOREM RestartsInRange == TimerSpec => RestartedInRange
<1>1. TimerInv /\ [TimerNext]_timer_vars =>
         [TimerFires /\ TooLong(armed') => step \in {"write", "zero", "max"}]_timer_vars
  <2> SUFFICES ASSUME TimerInv, TimerFires, TooLong(armed') PROVE step \in {"write", "zero", "max"}
    OBVIOUS
  <2>1. armed' = time_interval
    BY DEF TimerFires
  <2> QED
    BY <2>1 DEF TimerInv, TimerTypeOK, IntervalInRange, InRange
<1> QED
  BY <1>1, TimerInitially, TimerInductive, PTL DEF TimerSpec, RestartedInRange

\* What udisk_battery_callback stores outside the computation stays until the
\* next one: the thread has nothing in its registers that would replace it.
THEOREM PlugKept == TimerSpec => []PlugKeepsDefault
<1>1. TimerInv => PlugKeepsDefault
  BY DEF TimerInv, Plugged, PlugKeepsDefault, Default
<1> QED
  BY <1>1, TimerInitially, TimerInductive, PTL DEF TimerSpec
=============================================================================
