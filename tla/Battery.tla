------------------------------- MODULE Battery -------------------------------
(***************************************************************************)
(* battery_detect/battery.c: from the measured voltage to the percentage   *)
(* that is shown and saved.  The detect thread measures, smooths the       *)
(* voltage, looks it up in the curve and limits how the percentage may     *)
(* move; the USB callback changes the mode at any moment, also between the *)
(* thread's two reads of it; the power can go at any moment, and the next  *)
(* boot starts from the saved percentage.  When the thread measures is the *)
(* business of its timer, not of this module.                              *)
(***************************************************************************)
EXTENDS Integers

CONSTANTS Supply,       \* what get_battery_voltage can return, in mV
          Nothing       \* no percentage is saved

Voltages == 0..5000

ASSUME BatteryAssumption == Supply \subseteq Voltages /\ Nothing \notin Int

VARIABLES vbat,             \* the voltage at the battery
          battery_mode,     \* the fields of mybattery
          pre_voltage,
          pre_percent,
          percent,          \* the thread's local variable
          saved,            \* what ds_write has stored
          pc,               \* the thread's next step
          flipped           \* history: the mode has changed since the limiter read it

vars == <<vbat, battery_mode, pre_voltage, pre_percent, percent, saved, pc, flipped>>

-----------------------------------------------------------------------------
(* The curve                                                                *)

\* capParams, without the offset, which is 0 everywhere.
Row(capacity, min, max, hysteresis) ==
    [capacity |-> capacity, min |-> min, max |-> max, hysteresis |-> hysteresis]
capParams == <<Row(0, 3306, 3426, 1),    Row(1, 3427, 3638, 9),
               Row(10, 3639, 3697, 10),  Row(20, 3698, 3729, 10),
               Row(30, 3730, 3748, 10),  Row(40, 3749, 3776, 10),
               Row(50, 3777, 3827, 10),  Row(60, 3828, 3895, 10),
               Row(70, 3896, 3954, 10),  Row(80, 3955, 4050, 10),
               Row(90, 4051, 4119, 10),  Row(100, 4120, 4240, 1)>>
Size == 12

\* The code counts the rows from 0.
Cap(i) == capParams[i + 1]

Middle(rows) == (rows.low + rows.high) \div 2

\* A round of FIND_INDEX_BY_BAT, of the rows that are left: where the loop breaks,
\* or would leave none, it ends with the row that it looked at.
Halved(v, rows) ==
    LET mid == Middle(rows) IN
    IF v < Cap(mid).min /\ mid - 1 >= rows.low THEN [rows EXCEPT !.high = mid - 1]
    ELSE IF v > Cap(mid).max /\ rows.high >= mid + 1 THEN [rows EXCEPT !.low = mid + 1]
    ELSE rows

\* FIND_INDEX_BY_BAT: of 12 rows, three rounds leave one.
FindIndex(v) ==
    Middle(Halved(v, Halved(v, Halved(v, [low |-> 0, high |-> Size - 1]))))

\* calculate_battery_percent; its last two comparisons never apply.
Percent(v) ==
    LET i  == FindIndex(v)
        c0 == Cap(i).capacity
        c1 == Cap(i + 1).capacity
        offset == ((c1 - c0) * (v - Cap(i).min) * 10) \div (Cap(i + 1).min - Cap(i).min)
        cap == c0 + offset \div 10 + (IF offset % 10 >= 5 THEN 1 ELSE 0)
    IN  IF v < Cap(0).min THEN 0
        ELSE IF v > Cap(Size - 1).max THEN 100
        ELSE IF i \in {0, Size - 1} THEN c0
        ELSE IF cap > c1 THEN c1 ELSE IF cap < c0 THEN c0 ELSE cap

\* Mutant: a percentage that begins a row is looked up in the row before.
RestoredVoltageRowBefore(p) ==
    LET i == CHOOSE j \in 0..Size - 2 : p > Cap(j).capacity /\ p <= Cap(j + 1).capacity
    IN  Cap(i).min + ((p % Cap(i).hysteresis) * (Cap(i).max - Cap(i).min))
                         \div Cap(i).hysteresis

\* get_battery_before_poweroff: the voltage for a saved percentage.
RestoredVoltage(p) ==
    IF p = 100 THEN Cap(Size - 1).min
    ELSE LET i == CHOOSE j \in 0..Size - 2 : p >= Cap(j).capacity /\ p < Cap(j + 1).capacity
         IN  Cap(i).min + ((p % Cap(i).hysteresis) * (Cap(i).max - Cap(i).min))
                              \div Cap(i).hysteresis

\* A fifth of the difference, cut off towards zero.
Fifth(d) == IF d >= 0 THEN d \div 5 ELSE -((-d) \div 5)

\* Mutant: the step is that of the whole curve (capTable.stride), not of the row.
SmoothedByWholeCurve(v) ==
    LET diff == v - pre_voltage
        row  == Cap(FindIndex(pre_voltage))
        m_stride == (row.max - row.min) \div row.hysteresis
        stride == (Cap(Size - 1).min - Cap(0).min) \div 100
    IN  IF pre_voltage = 0 THEN v
        ELSE IF diff >= m_stride THEN pre_voltage + stride
        ELSE IF diff <= -m_stride THEN pre_voltage - stride
        ELSE pre_voltage + Fifth(diff)

\* calculate_battery_voltage: half a percent's worth for a large difference, a fifth of
\* a small one.
Smoothed(v) ==
    LET diff == v - pre_voltage
        row  == Cap(FindIndex(pre_voltage))
        m_stride == (row.max - row.min) \div row.hysteresis
        half == (m_stride + 1) \div 2
    IN  IF pre_voltage = 0 THEN v
        ELSE IF diff >= m_stride THEN pre_voltage + half
        ELSE IF diff <= -m_stride THEN pre_voltage - half
        ELSE pre_voltage + Fifth(diff)

-----------------------------------------------------------------------------
Modes == {"charging", "discharging"}

Init == /\ vbat \in Supply
        /\ saved = Nothing
        /\ battery_mode = "discharging"
        /\ pre_voltage = 0 /\ pre_percent = 0 /\ percent = 0
        /\ pc = "off"
        /\ flipped = FALSE

\* The load and the charger move the voltage.
SupplyMoves == /\ vbat' \in Supply \ {vbat}
               /\ UNCHANGED <<battery_mode, pre_voltage, pre_percent, percent,
                              saved, pc, flipped>>

\* battery_params_init: the mode is discharging, plugged in or not.
Boot == /\ pc = "off"
        /\ battery_mode' = "discharging"
        /\ pre_voltage' = 0 /\ pre_percent' = 0 /\ percent' = 0
        /\ pc' = "restore"
        /\ flipped' = FALSE
        /\ UNCHANGED <<vbat, saved>>

\* What is in memory is lost; what is saved stays.
PowerCut == /\ pc # "off"
            /\ pc' = "off"
            /\ battery_mode' = "discharging"
            /\ pre_voltage' = 0 /\ pre_percent' = 0 /\ percent' = 0
            /\ flipped' = FALSE
            /\ UNCHANGED <<vbat, saved>>

\* A percentage that is not in 1..100 counts as none.
Restore == /\ pc = "restore"
           /\ IF saved \in 1..100
                 THEN pre_percent' = saved /\ pre_voltage' = RestoredVoltage(saved)
                 ELSE pre_percent' = Percent(vbat) /\ pre_voltage' = vbat
           /\ pc' = "wait"
           /\ UNCHANGED <<vbat, battery_mode, percent, saved, flipped>>

\* udisk_battery_callback
UsbCallback(m) == /\ pc # "off"
                  /\ m # battery_mode
                  /\ battery_mode' = m
                  /\ flipped' = (flipped \/ pc \in {"limit2", "record"})
                  /\ UNCHANGED <<vbat, pre_voltage, pre_percent, percent, saved, pc>>

\* The semaphore is posted, or the wait times out.
Measure == /\ pc = "wait"
           /\ pre_voltage' = Smoothed(vbat)
           /\ percent' = Percent(Smoothed(vbat))
           /\ pc' = "limit"
           /\ UNCHANGED <<vbat, battery_mode, pre_percent, saved, flipped>>

\* Mutant: a rise is not held back while discharging.
HoldDischargingNever == /\ pc = "limit"
                        /\ pc' = "limit2"
                        /\ UNCHANGED <<vbat, battery_mode, pre_voltage, pre_percent,
                                       percent, saved, flipped>>

\* gradient_limit_percent, its first read of the mode.
HoldDischarging == /\ pc = "limit"
                   /\ IF battery_mode = "discharging" /\ pre_percent < percent
                         THEN percent' = pre_percent /\ pc' = "record"
                         ELSE pc' = "limit2" /\ UNCHANGED percent
                   /\ UNCHANGED <<vbat, battery_mode, pre_voltage, pre_percent, saved, flipped>>

\* "result += ...": a result that is more than 1 away moves 1 further away.
Overstepped(p) == IF p > pre_percent + 1 THEN p + 1
                  ELSE IF p < pre_percent - 1 THEN p - 1 ELSE p

\* Mutant: a fall is not held back while charging.
HoldChargingNever == /\ pc = "limit2"
                     /\ percent' = Overstepped(percent)
                     /\ pre_percent' = Overstepped(percent)
                     /\ pc' = "record"
                     /\ UNCHANGED <<vbat, battery_mode, pre_voltage, saved, flipped>>

\* Its second read of the mode, and the gradient.
HoldCharging == /\ pc = "limit2"
                /\ LET p == IF battery_mode = "charging" /\ pre_percent > percent
                            THEN pre_percent ELSE Overstepped(percent)
                   IN  percent' = p /\ pre_percent' = p
                /\ pc' = "record"
                /\ UNCHANGED <<vbat, battery_mode, pre_voltage, saved, flipped>>

\* Mutant: a percentage below 0 is saved, too.
RecordAnyway == /\ pc = "record"
                /\ saved' = percent
                /\ pc' = "wait"
                /\ flipped' = FALSE
                /\ UNCHANGED <<vbat, battery_mode, pre_voltage, pre_percent, percent>>

Record == /\ pc = "record"
          /\ saved' = (IF percent >= 0 THEN percent ELSE saved)
          /\ pc' = "wait"
          /\ flipped' = FALSE
          /\ UNCHANGED <<vbat, battery_mode, pre_voltage, pre_percent, percent>>

Detect == Boot \/ Restore \/ Measure \/ HoldDischarging \/ HoldCharging \/ Record
Next == \/ Detect \/ PowerCut \/ SupplyMoves
        \/ \E m \in Modes : UsbCallback(m)

Spec == Init /\ [][Next]_vars
-----------------------------------------------------------------------------
\* The percentages leave the scale by 1 at most, and only those on it or above
\* are saved.
TypeOK == /\ vbat \in Supply
          /\ battery_mode \in Modes
          /\ pre_voltage \in Voltages
          /\ pre_percent \in -1..101 /\ percent \in -1..101
          /\ saved \in 0..101 \cup {Nothing}
          /\ pc \in {"off", "restore", "wait", "limit", "limit2", "record"}
          /\ flipped \in BOOLEAN

\* The percentage rises only while charging and falls only while discharging,
\* whatever the voltage does and although the gradient is applied in the wrong
\* direction, unless the USB callback has changed the mode between the two reads
\* of it in gradient_limit_percent.
MovesWithTheMode ==
    [][HoldCharging /\ ~flipped =>
          /\ pre_percent' > pre_percent => battery_mode = "charging"
          /\ pre_percent' < pre_percent => battery_mode = "discharging"]_vars

\* What is about to be saved is never more than the smoothed voltage stands for
\* while discharging and never less while charging, but for the same race.
OnTheSafeSide ==
    pc = "record" /\ ~flipped =>
        IF battery_mode = "discharging" THEN percent <= Percent(pre_voltage)
                                        ELSE percent >= Percent(pre_voltage)

\* The smoothed voltage never jumps over the measured one, even where the last
\* voltage is in a row of the curve that is much flatter than the next, and
\* wherever it is it moves, unless it is within 4 mV: at a steady voltage no row
\* of the curve stops it further away.
SmoothingApproaches ==
    [][Measure /\ pre_voltage # 0 =>
          /\ \/ pre_voltage <= pre_voltage' /\ pre_voltage' <= vbat
             \/ vbat <= pre_voltage' /\ pre_voltage' <= pre_voltage
          /\ vbat - pre_voltage \notin -4..4 => pre_voltage' # pre_voltage]_vars

\* A reboot goes on where the last one stopped: the voltage it starts from is
\* one that the saved percentage is shown for, within 1.  Not so for 9, which
\* the hysteresis of its row (9) turns into the row's first voltage, 1%.
RestoreAgrees ==
    [][Restore /\ saved \in (1..100) \ {9} =>
          saved - Percent(pre_voltage') \in -1..1]_vars
=============================================================================
