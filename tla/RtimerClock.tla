---------------------------- MODULE RtimerClock ----------------------------
(***************************************************************************)
(* rtimer-arch.c: a 64-bit time made of a hardware counter and a variable  *)
(* that the overflow interrupt of the counter increments.  The counter     *)
(* runs on its own; TC0_Handler runs some time after an overflow, later if *)
(* interrupts are masked; rtimer_arch_now reads high word, low word and    *)
(* high word again, and an overflow may fall between any two of its reads. *)
(***************************************************************************)
EXTENDS Naturals

CONSTANTS
  Period,     (* values of the counter: 2^32                               *)
  Latency,    (* reads the thread completes before a handler is entered    *)
  MaxWraps    (* bound: overflows in a behaviour                           *)

(* The processor takes an interrupt before it has done two more loads.     *)
ASSUME RtimerAssumption ==
  /\ Period \in Nat \ {0, 1}
  /\ Latency \in {0, 1}
  /\ MaxWraps \in Nat

VARIABLES
  cv,         (* the counter register, TC_CV                               *)
  cpcs,       (* the overflow flag of its status register                  *)
  timeMsb,    (* time_msb                                                  *)
  masked,     (* interrupts are off                                        *)
  slack,      (* reads done since the flag went up, interrupts being on    *)
  nowPc,      (* the read rtimer_arch_now does next                        *)
  msb, lsb,   (* its local variables                                       *)
  wraps,      (* history: overflows so far, what time_msb should be        *)
  lost,       (* history: overflows while the flag was up already          *)
  since,      (* history: the time when the call began                     *)
  covered     (* history: interrupts were on throughout the call           *)

rtimerVars == <<cv, cpcs, timeMsb, masked, slack, nowPc, msb, lsb, wraps, lost,
                since, covered>>

Time(high, low) == high * Period + low     (* (msb << 32) | lsb            *)
Now == Time(wraps, cv)

RtimerInit ==
  /\ cv = 0 /\ cpcs = FALSE /\ timeMsb = 0 /\ masked = FALSE /\ slack = 0
  /\ nowPc = "idle" /\ msb = 0 /\ lsb = 0
  /\ wraps = 0 /\ lost = 0 /\ since = 0 /\ covered = FALSE

(* The counter.  While interrupts are on, the handler is entered before the*)
(* counter overflows once more; while they are off, nothing holds it back, *)
(* and one flag stands for all the overflows.                              *)
CounterStep ==
  /\ cv < Period - 1 \/ ((masked \/ ~cpcs) /\ wraps < MaxWraps)
  /\ cv' = (cv + 1) % Period
  /\ cpcs' = (cpcs \/ cv = Period - 1)
  /\ wraps' = wraps + (IF cv = Period - 1 THEN 1 ELSE 0)
  /\ lost' = lost + (IF cpcs /\ cv = Period - 1 THEN 1 ELSE 0)
  /\ UNCHANGED <<timeMsb, masked, slack, nowPc, msb, lsb, since, covered>>

(* TC0_Handler: reading the status register clears the flag.               *)
TC0Handler ==
  /\ cpcs /\ ~masked
  /\ cpcs' = FALSE
  /\ timeMsb' = timeMsb + 1
  /\ slack' = 0
  /\ UNCHANGED <<cv, masked, nowPc, msb, lsb, wraps, lost, since, covered>>

(* A step of the thread; a pending interrupt leaves it Latency steps.      *)
ThreadRuns ==
  /\ masked \/ ~cpcs \/ slack < Latency
  /\ slack' = IF cpcs /\ ~masked THEN slack + 1 ELSE 0
  /\ UNCHANGED <<cv, cpcs, timeMsb, wraps, lost>>

SetMask ==
  /\ nowPc = "idle"
  /\ ThreadRuns
  /\ masked' = ~masked
  /\ UNCHANGED <<nowPc, msb, lsb, since, covered>>

(* rtimer_arch_now.                                                        *)
ReadMsb ==
  /\ nowPc \in {"idle", "retry"}
  /\ ThreadRuns
  /\ msb' = timeMsb /\ nowPc' = "lsb"
  /\ IF nowPc = "idle" THEN since' = Now /\ covered' = ~masked
                       ELSE UNCHANGED <<since, covered>>
  /\ UNCHANGED <<masked, lsb>>

ReadLsb ==
  /\ nowPc = "lsb"
  /\ ThreadRuns
  /\ lsb' = cv /\ nowPc' = "check"
  /\ UNCHANGED <<masked, msb, since, covered>>

StaleNever == FALSE
Stale == msb # timeMsb

Retry ==
  /\ nowPc = "check" /\ Stale
  /\ ThreadRuns
  /\ nowPc' = "retry"
  /\ UNCHANGED <<masked, msb, lsb, since, covered>>

Return ==
  /\ nowPc = "check" /\ ~Stale
  /\ ThreadRuns
  /\ nowPc' = "done"
  /\ UNCHANGED <<masked, msb, lsb, since, covered>>

(* The caller has the result.                                              *)
Returned ==
  /\ nowPc = "done"
  /\ nowPc' = "idle"
  /\ msb' = 0 /\ lsb' = 0 /\ since' = 0
  /\ UNCHANGED <<cv, cpcs, timeMsb, masked, slack, wraps, lost, covered>>

RtimerNext ==
  \/ CounterStep \/ TC0Handler \/ SetMask
  \/ ReadMsb \/ ReadLsb \/ Retry \/ Return \/ Returned

RtimerSpec == RtimerInit /\ [][RtimerNext]_rtimerVars

-----------------------------------------------------------------------------
(* Type invariant.                                                         *)
RtimerTypeOK ==
  /\ cv \in 0 .. Period - 1 /\ lsb \in 0 .. Period - 1
  /\ cpcs \in BOOLEAN /\ masked \in BOOLEAN /\ covered \in BOOLEAN
  /\ slack \in 0 .. Latency
  /\ timeMsb \in 0 .. MaxWraps /\ msb \in 0 .. MaxWraps
  /\ wraps \in 0 .. MaxWraps /\ lost \in 0 .. MaxWraps
  /\ nowPc \in {"idle", "retry", "lsb", "check", "done"}
  /\ since \in Nat

(* The time returned is a time at which the call was running, so neither   *)
(* older than the call nor ahead of it: although an overflow may fall      *)
(* between the reads, the loop of rtimer_arch_now notices.  With interrupts*)
(* off it cannot notice, and the time may be one period behind, not more.  *)
(* Hence time does not go back from one such call to the next.  What was   *)
(* lost while interrupts were off for longer than a period stays lost, and *)
(* no more than that.                                                      *)
TimeOfTheCall ==
  nowPc = "done" =>
    IF covered THEN Time(msb + lost, lsb) \in since .. Now
    ELSE Time(msb + lost + 1, lsb) >= since /\ Time(msb + lost, lsb) <= Now
=============================================================================
