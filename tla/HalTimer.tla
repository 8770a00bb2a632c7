------------------------------ MODULE HalTimer -------------------------------
\* The timers of the RT-Thread port, which count ticks in an unsigned word that wraps, and the
\* read loop that waits by one.  Real time never wraps: it is counted in ticks from the start,
\* and TicksOf turns the milliseconds of a timeout into it.  The thread may be held up between
\* any two steps; select wakes up when its time is over.
EXTENDS Integers

CONSTANTS ClockWord,         \* 2^32, scaled down
          Thousand,     \* milliseconds of a second, scaled down
          TickRates,    \* RT_TICK_PER_SECOND: divisors of Thousand
          Timeouts,     \* milliseconds
          MaxTick       \* bound on real time

ASSUME TicksDivide ==
  /\ ClockWord \in Nat \ {0} /\ Thousand \in Nat \ {0}
  /\ TickRates \subseteq Nat \ {0} /\ Timeouts \subseteq Nat
  /\ \A r \in TickRates : Thousand % r = 0

VARIABLES rate, tick,
          ts,           \* tc_iot_timer.ts
          started,      \* the tick at which the timer was last set
          due,          \* and the one its timeout ends at
          step,         \* what the reader does next
          wakes         \* tick at which select gives up

timerVars == <<rate, tick, ts, started, due, step, wakes>>

TicksOf(ms) == (ms * rate + Thousand - 1) \div Thousand

\* What tc_iot_hal_get_ms divides by the rate, unless that is 1000: the product and the sum
\* overflow before the division.
Dividend(t) == t * Thousand + rate - 1

GetMs ==
  IF rate = Thousand THEN tick % ClockWord ELSE (Dividend(tick) % ClockWord) \div rate

IsExpired == ts <= GetMs
LeftMs == (ts - GetMs) % ClockWord

\* Mutation: the timeout is added to what the timer held.
CountdownAdds(ms) ==
  /\ step = "idle"
  /\ ts' = (ts + ms) % ClockWord
  /\ started' = tick /\ due' = tick + TicksOf(ms)
  /\ step' = "ask"
  /\ UNCHANGED <<rate, tick, wakes>>

\* tc_iot_hal_net_read is called with a timeout.
Countdown(ms) ==
  /\ step = "idle"
  /\ ts' = (GetMs + ms) % ClockWord
  /\ started' = tick /\ due' = tick + TicksOf(ms)
  /\ step' = "ask"
  /\ UNCHANGED <<rate, tick, wakes>>

\* The time left is asked and select begins, without the thread being held up between.
Select ==
  /\ step = "ask"
  /\ wakes' = tick + TicksOf(LeftMs)
  /\ step' = "select"
  /\ UNCHANGED <<rate, tick, ts, started, due>>

DataArrives ==
  /\ step = "select"
  /\ step' \in {"check", "idle"}
  /\ UNCHANGED <<rate, tick, ts, started, due, wakes>>

NothingRead ==
  /\ step = "select" /\ tick >= wakes
  /\ step' = "idle"
  /\ UNCHANGED <<rate, tick, ts, started, due, wakes>>

CheckExpired ==
  /\ step = "check"
  /\ step' = IF IsExpired THEN "idle" ELSE "ask"
  /\ UNCHANGED <<rate, tick, ts, started, due, wakes>>

Tick ==
  /\ tick < MaxTick
  /\ step = "select" => tick < wakes
  /\ tick' = tick + 1
  /\ UNCHANGED <<rate, ts, started, due, step, wakes>>

TimerInit ==
  /\ rate \in TickRates /\ tick \in 0..ClockWord
  /\ ts = GetMs /\ started = tick /\ due = tick
  /\ step = "idle" /\ wakes = 0

TimerNext ==
  \/ \E ms \in Timeouts : Countdown(ms)
  \/ Select \/ DataArrives \/ NothingRead \/ CheckExpired \/ Tick

---------------------------------------------------------------------------
\* The clock has wrapped between two ticks.
Turn(t) == IF rate = Thousand THEN t \div ClockWord ELSE Dividend(t) \div ClockWord
Wrapped(from, to) == Turn(from) # Turn(to)

\* A read waits no longer than its timeout, and the timer is found expired from its deadline
\* on and not before.  The first survives a wrap at 1000 ticks a second, where the word of
\* the timer is that of the clock; a wrap spoils everything else.  A thread held up past its
\* deadline before it asks for the time left is told almost a whole word of it.
TimerKept ==
  /\ step = "select" /\ wakes > due =>
       tick > due \/ (rate # Thousand /\ (tick = due \/ Wrapped(started, due)))
  /\ step = "check" /\ ~Wrapped(started, tick) /\ ~Wrapped(started, due) =>
       (IsExpired <=> tick >= due)
=============================================================================
