---------------------------- MODULE BatteryTimer ----------------------------
(***************************************************************************)
(* battery_detect/battery.c: when the detect thread measures.  It waits    *)
(* for its semaphore, which the timer's callback and the USB callback      *)
(* post, and computes anew, after some records, how long the timer waits.  *)
(* time_interval is a volatile of 64 bits that a processor of 32 bits      *)
(* reads and writes one word after the other, and the two callbacks, which *)
(* interrupt the thread, may come between any two of its accesses.  The    *)
(* percentage is the business of Battery.                                  *)
(***************************************************************************)
EXTENDS Integers

CONSTANTS Spans,        \* ms between the records of the highest and lowest voltage
          Drops,        \* mV between them
          RecordCount,  \* RECORD_COUNT
          MaxPosts      \* bound: posts the semaphore counts

ASSUME TimerAssumption ==
    /\ Spans \subseteq Nat /\ Drops \subseteq Nat
    /\ RecordCount \in Nat \ {0} /\ MaxPosts \in Nat \ {0}

VARIABLES time_interval,    \* [hi, lo], in microseconds
          reg,              \* the two words the thread has read, or is to write
          todo,             \* the words it has not yet read or written
          then,             \* where it goes when it has written them
          step,             \* the thread's next step
          table_index,
          detect_state,     \* the count of the semaphore
          armed,            \* what the timer was last started with
          plugged           \* history: the USB callback has set the interval, and
                            \* the thread was not in the middle of using it

timer_vars == <<time_interval, reg, todo, then, step, table_index, detect_state,
                armed, plugged>>

Thread == <<reg, todo, then, step>>
-----------------------------------------------------------------------------
(* Intervals                                                                *)

DEFAULT_INTERVAL == 30000000
MAX_INTERVAL == 300000000
Halves == {"hi", "lo"}

\* hi is 1 for a word of ones, and a lo below 0 stands for one of 2^31 or more.
Interval(x) == [hi |-> IF x < 0 THEN 1 ELSE 0, lo |-> x]
IsZero(i) == i.hi = 0 /\ i.lo = 0
TooLong(i) == i.hi = 1 \/ i.lo < 0 \/ i.lo > MAX_INTERVAL
InRange(i) == ~IsZero(i) /\ ~TooLong(i)

\* tinterval * stride * 1000, with a stride of 8, as 64 times a number of 26 bits.
Product(ms) == LET low == (ms * 125) % 2^26 IN IF low < 2^25 THEN low ELSE low - 2^26

\* The quotient of ints, cut off towards 0.
Quotient(ms, mv) == IF Product(ms) < 0 THEN -((-64 * Product(ms)) \div mv)
                    ELSE (64 * Product(ms)) \div mv

-----------------------------------------------------------------------------
(* voltage_detect_thread                                                    *)

TimerInit == /\ time_interval = Interval(DEFAULT_INTERVAL)
             /\ reg = Interval(0) /\ todo = {} /\ then = "wait" /\ step = "wait"
             /\ table_index = 0 /\ detect_state = 0
             /\ armed = Interval(DEFAULT_INTERVAL)
             /\ plugged = FALSE

Write(i, next) == reg' = i /\ todo' = Halves /\ then' = next /\ step' = "write"
Read(next) == todo' = Halves /\ step' = next /\ UNCHANGED <<reg, then>>
Go(next) == step' = next /\ UNCHANGED <<reg, todo, then>>

\* Mutant: semaphore_wait, which does not time out.
WaitForPost == /\ step = "wait" /\ detect_state > 0
               /\ detect_state' = detect_state - 1
               /\ Go(IF table_index >= RecordCount THEN "recalculate" ELSE "jump")
               /\ UNCHANGED <<armed, time_interval, table_index, plugged>>

\* A post, or MAX_INTERVAL without one.
Wait == /\ step = "wait"
        /\ detect_state' = (IF detect_state > 0 THEN detect_state - 1 ELSE 0)
        /\ Go(IF table_index >= RecordCount THEN "recalculate" ELSE "jump")
        /\ UNCHANGED <<armed, time_interval, table_index, plugged>>

\* calculate_battery_voltage: the raw quotient is stored before it is limited.
Recalculate ==
    /\ step = "recalculate"
    /\ \E ms \in Spans, mv \in Drops :
          IF mv = 0 THEN Write(Interval(MAX_INTERVAL), "jump")
                    ELSE Write(Interval(Quotient(ms, mv)), "zero")
    /\ table_index' = 0
    /\ plugged' = FALSE
    /\ UNCHANGED <<armed, time_interval, detect_state>>

Store(w) == /\ step = "write" /\ w \in todo
            /\ time_interval' = [time_interval EXCEPT ![w] = reg[w]]
            /\ todo' = todo \ {w}
            /\ UNCHANGED <<armed, reg, then, step, table_index, detect_state, plugged>>

Stored == /\ step = "write" /\ todo = {}
          /\ IF then = "zero" THEN Read("zero") ELSE Go(then)
          /\ UNCHANGED <<armed, time_interval, table_index, detect_state, plugged>>

Load(w) == /\ step \in {"zero", "max"} /\ w \in todo
           /\ reg' = [reg EXCEPT ![w] = time_interval[w]]
           /\ todo' = todo \ {w}
           /\ UNCHANGED <<armed, time_interval, then, step, table_index, detect_state, plugged>>

\* time_interval <= 0: of an unsigned number that is 0 only.
LimitBelow == /\ step = "zero" /\ todo = {}
              /\ IF IsZero(reg) THEN Write(Interval(DEFAULT_INTERVAL), "jump")
                                ELSE Read("max")
              /\ UNCHANGED <<armed, time_interval, table_index, detect_state, plugged>>

\* Mutant: the limit does not hold for an interval that was negative.
LimitAboveSigned == /\ step = "max" /\ todo = {}
                    /\ IF reg.hi = 0 /\ reg.lo > MAX_INTERVAL
                          THEN Write(Interval(MAX_INTERVAL), "jump") ELSE Go("jump")
                    /\ UNCHANGED <<armed, time_interval, table_index, detect_state, plugged>>

\* time_interval > MAX_INTERVAL, read again.
LimitAbove == /\ step = "max" /\ todo = {}
              /\ IF TooLong(reg) THEN Write(Interval(MAX_INTERVAL), "jump") ELSE Go("jump")
              /\ UNCHANGED <<armed, time_interval, table_index, detect_state, plugged>>

\* A large difference of the voltage goes back to the default interval.
Jump == /\ step = "jump"
        /\ Write(Interval(DEFAULT_INTERVAL), "record") \/ Go("record")
        /\ UNCHANGED <<armed, time_interval, table_index, detect_state, plugged>>

RecordVoltage == /\ step = "record"
                 /\ table_index' = table_index + 1
                 /\ Go("wait")
                 /\ UNCHANGED <<armed, time_interval, detect_state, plugged>>

-----------------------------------------------------------------------------
(* The callbacks                                                            *)

Post == detect_state' = (IF detect_state < MaxPosts THEN detect_state + 1 ELSE detect_state)

\* hrtimer_cb; a timer of half a million years does not fire.
TimerFires == /\ armed.hi = 0
              /\ Post
              /\ armed' = time_interval
              /\ UNCHANGED <<Thread, time_interval, table_index, plugged>>

\* Mutant: the interval is left as it is.
PlugPosts ==
    /\ plugged' = (plugged \/ step \in {"wait", "jump", "record"})
    /\ Post
    /\ UNCHANGED <<Thread, time_interval, table_index, armed>>

\* udisk_battery_callback with another mode than before; which one it is does not matter.
Plug ==
    /\ time_interval' = Interval(DEFAULT_INTERVAL)
    /\ plugged' = \/ plugged
                  \/ step \in {"wait", "jump", "record"}
                  \/ step \in {"zero", "max"} /\ todo = Halves
    /\ Post
    /\ UNCHANGED <<Thread, table_index, armed>>

Detecting == \/ Wait \/ Recalculate \/ Stored \/ LimitBelow \/ LimitAbove
             \/ Jump \/ RecordVoltage
             \/ \E w \in Halves : Store(w) \/ Load(w)
TimerNext == Detecting \/ TimerFires \/ Plug

TimerSpec == TimerInit /\ [][TimerNext]_timer_vars

\* The thread runs.  Nothing is asked of the timer.
FairSpec == TimerSpec /\ WF_timer_vars(Detecting)
-----------------------------------------------------------------------------
Intervals == [hi : {0, 1}, lo : Int]

\* Not more records than tvTable holds.
TimerTypeOK == /\ time_interval \in Intervals /\ reg \in Intervals /\ armed \in Intervals
               /\ todo \subseteq Halves
               /\ then \in {"wait", "zero", "jump", "record"}
               /\ step \in {"wait", "recalculate", "write", "zero", "max", "jump", "record"}
               /\ table_index \in 0..RecordCount
               /\ detect_state \in 0..MaxPosts
               /\ plugged \in BOOLEAN

\* Whatever the product overflows to, and wherever the callbacks come between
\* the thread's reads and writes, the interval it leaves is above 0 and at most
\* MAX_INTERVAL: the words of two intervals never stay mixed.
IntervalInRange == step \in {"wait", "recalculate", "jump", "record"} => InRange(time_interval)

\* The timer is started for more than MAX_INTERVAL only while the thread is
\* between storing the quotient and limiting it.
RestartedInRange ==
    [][TimerFires /\ TooLong(armed') => step \in {"write", "zero", "max"}]_timer_vars

\* When a plug sets the interval back, also between storing the quotient and
\* testing it, it stays the default until it is next computed.
PlugKeepsDefault == plugged => time_interval = Interval(DEFAULT_INTERVAL)

\* The thread measures again and again, also when the timer is gone for good.
MeasuresAgain == []<>(step = "record")
=============================================================================
