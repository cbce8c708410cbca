------------------------------ MODULE SysClock ------------------------------
(***************************************************************************)
(* clock.c: the tick interrupt counts ticks and seconds and asks for the   *)
(* event timers to be polled when their next expiration is reached; the    *)
(* thread reads the count, sets the seconds and waits.  The event timers   *)
(* of Contiki (etimer) are outside this tree: they compute an expiration   *)
(* from a count read earlier, so ticks fall between reading and storing.   *)
(* clock_time reads the count twice until both agree; since one read of a  *)
(* word is atomic, what it returns is the count at some step of the call.  *)
(***************************************************************************)
EXTENDS Integers

CONSTANTS
  CountMod,     (* values of clock_time_t: 2^32                            *)
  ClockSecond,  (* CLOCK_SECOND, ticks per second                          *)
  Intervals,    (* the intervals of timers and of clock_wait, in ticks     *)
  NewSeconds,   (* the arguments of clock_set_seconds                      *)
  MaxTicks      (* bound: ticks in a behaviour                             *)

ASSUME ClockAssumption ==
  /\ CountMod \in Nat \ {0} /\ ClockSecond \in Nat \ {0} /\ MaxTicks \in Nat
  /\ Intervals \subseteq 0 .. CountMod - 1
  /\ NewSeconds \subseteq Nat

VARIABLES
  count, seconds, countdown,    (* count, current_seconds, second_countdown *)
  timerSet,    (* etimer_pending()                                         *)
  expiration,  (* etimer_next_expiration_time()                            *)
  polled,      (* the etimer process has been asked to poll                *)
  clockPc,     (* what the thread is doing                                 *)
  start,       (* the count the thread read                                *)
  interval,    (* its argument                                             *)
  ticks,       (* history: ticks so far                                    *)
  startTick,   (* history: the tick at which start was read                *)
  due, late,   (* history: tick of the expiration; it had come when stored *)
  secondsSet   (* history: the last clock_set_seconds, its tick and value  *)

clockVars == <<count, seconds, countdown, timerSet, expiration, polled, clockPc,
               start, interval, ticks, startTick, due, late, secondsSet>>
threadVars == <<clockPc, start, interval, startTick>>
timerVars == <<timerSet, expiration, due, late>>

(* clock_init.                                                             *)
ClockInit ==
  /\ count = 0 /\ seconds = 0 /\ countdown = ClockSecond
  /\ timerSet = FALSE /\ expiration = 0 /\ polled = FALSE
  /\ clockPc = "idle" /\ start = 0 /\ interval = 0
  /\ ticks = 0 /\ startTick = 0 /\ due = 0 /\ late = FALSE
  /\ secondsSet = [tick |-> 0, to |-> 0]

(* SysTick_Handler.                                                        *)
Incremented == (count + 1) % CountMod
DueBefore(now) == timerSet /\ expiration = count
Due(now) == timerSet /\ expiration = now

SecondOver == countdown = 1
ReloadLess == ClockSecond - 1
Reload == ClockSecond

Tick ==
  /\ ticks < MaxTicks
  /\ ticks' = ticks + 1
  /\ count' = Incremented
  /\ countdown' = IF SecondOver THEN Reload ELSE countdown - 1
  /\ seconds' = IF SecondOver THEN seconds + 1 ELSE seconds
  /\ polled' = (polled \/ Due(Incremented))
  /\ UNCHANGED <<threadVars, timerVars, secondsSet>>

(* clock_set_seconds.                                                      *)
SetSeconds ==
  /\ clockPc = "idle"
  /\ \E s \in NewSeconds : seconds' = s /\ secondsSet' = [tick |-> ticks, to |-> s]
  /\ UNCHANGED <<count, countdown, polled, ticks, threadVars, timerVars>>

(* A thread reads the time, to wait or to set a timer.                     *)
ReadClock(pc) ==
  /\ clockPc = "idle"
  /\ clockPc' = pc
  /\ interval' \in Intervals
  /\ start' = count /\ startTick' = ticks
  /\ UNCHANGED <<count, seconds, countdown, polled, ticks, secondsSet, timerVars>>

WaitStart == ReadClock("wait")
ArmStart == ReadClock("arm")

Resume ==
  /\ clockPc' = "idle" /\ start' = 0 /\ interval' = 0 /\ startTick' = 0

(* The loop of clock_wait ends: unsigned subtraction.  A turn of the loop  *)
(* that does not end it changes nothing.                                   *)
PassedTheSum == count >= (start + interval) % CountMod
Passed == (count + CountMod - start) % CountMod >= interval

WaitEnd ==
  /\ clockPc = "wait" /\ Passed
  /\ clockPc' = "waited"
  /\ UNCHANGED <<count, seconds, countdown, polled, start, interval, ticks,
                 startTick, secondsSet, timerVars>>

Waited ==
  /\ clockPc = "waited"
  /\ Resume
  /\ UNCHANGED <<count, seconds, countdown, polled, ticks, secondsSet, timerVars>>

(* The etimer library stores the expiration it computed.                   *)
ArmStore ==
  /\ clockPc = "arm"
  /\ timerSet' = TRUE
  /\ expiration' = (start + interval) % CountMod
  /\ due' = startTick + interval
  /\ late' = (ticks >= startTick + interval)
  /\ Resume
  /\ UNCHANGED <<count, seconds, countdown, polled, ticks, secondsSet>>

(* The etimer process runs and drops a timer that has expired.             *)
RunEtimers ==
  /\ clockPc = "idle" /\ polled
  /\ polled' = FALSE
  /\ IF ticks >= due
     THEN timerSet' = FALSE /\ expiration' = 0 /\ due' = 0 /\ late' = FALSE
     ELSE UNCHANGED timerVars
  /\ UNCHANGED <<count, seconds, countdown, ticks, secondsSet, threadVars>>

ClockNext ==
  \/ Tick \/ SetSeconds
  \/ WaitStart \/ WaitEnd \/ Waited
  \/ ArmStart \/ ArmStore \/ RunEtimers

ClockSpec == ClockInit /\ [][ClockNext]_clockVars

-----------------------------------------------------------------------------
(* Type invariant.                                                         *)
ClockTypeOK ==
  /\ {count, start, interval, expiration} \subseteq 0 .. CountMod - 1
  /\ countdown \in 1 .. ClockSecond
  /\ timerSet \in BOOLEAN /\ polled \in BOOLEAN /\ late \in BOOLEAN
  /\ clockPc \in {"idle", "wait", "waited", "arm"}
  /\ {ticks, startTick} \subseteq 0 .. MaxTicks
  /\ {seconds, due} \subseteq Nat
  /\ secondsSet \in [tick : 0 .. MaxTicks, to : Nat]

(* Seconds neither drift nor jump: they follow the ticks from wherever they*)
(* were last set, and setting them does not move the second's boundary.    *)
SecondsMatchTicks ==
  seconds - secondsSet.to = ticks \div ClockSecond - secondsSet.tick \div ClockSecond

(* The comparison with == is enough: only an expiration that was over when *)
(* it was stored goes unnoticed; any other is polled by the tick it names, *)
(* also across a wrap of the count, until the etimer process has seen it.  *)
OnlyLateExpirationsMissed ==
  timerSet /\ ~late /\ ticks >= due => polled

(* clock_wait never returns early, also when the count wraps meanwhile.    *)
NoEarlyReturn == clockPc = "waited" => ticks - startTick >= interval
=============================================================================
