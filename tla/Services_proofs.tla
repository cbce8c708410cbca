-------------------------- MODULE Services_proofs --------------------------
(***************************************************************************)
(* Proofs about the two clocks, and about the services as they are checked *)
(* together.  RtimerClock: whatever the period of the counter, the time    *)
(* that rtimer_arch_now returns is a time at which the call was running.   *)
(* SysClock: for every width of the tick count, every number of ticks per  *)
(* second and all intervals, seconds, event timers and waits keep to the   *)
(* ticks.  MCServices: what is proved of a service holds of it there.      *)
(***************************************************************************)
EXTENDS MCServices, Ieee8023_proofs, NbrTable_proofs, QueueBuf_proofs,
        RingBuf32_proofs, RingMem_proofs

(* RtimerClock.                                                            *)

(* Arithmetic on times of two words.                                       *)
LEMMA TimeIsNat ==
  ASSUME NEW h \in Nat, NEW l \in Nat PROVE Time(h, l) \in Nat
BY RtimerAssumption DEF Time

LEMMA TimeNextPeriod ==
  ASSUME NEW h \in Nat, NEW l \in Nat
  PROVE  Time(h + 1, l) = Time(h, l) + Period
BY RtimerAssumption DEF Time

LEMMA TimeOfCount ==
  ASSUME NEW h \in Nat, NEW l \in Nat
  PROVE  Time(h, l) = Time(h, 0) + l
BY RtimerAssumption DEF Time

-----------------------------------------------------------------------------
(* What a step of the thread leaves alone.                                 *)
LEMMA ThreadStep ==
  ASSUME RtimerTypeOK, ThreadRuns
  PROVE  /\ slack' \in 0 .. Latency
         /\ UNCHANGED <<cv, cpcs, timeMsb, wraps, lost>>
<1>1. slack < Latency => slack + 1 \in 0 .. Latency
  BY RtimerAssumption DEF RtimerTypeOK
<1>2. 0 \in 0 .. Latency
  BY RtimerAssumption
<1>3. cpcs /\ ~masked => slack < Latency
  BY DEF ThreadRuns
<1> QED
  BY <1>1, <1>2, <1>3 DEF ThreadRuns

(* What time_msb has not counted: the overflow that is still flagged, and  *)
(* those that came while the flag was up already, interrupts being off.    *)
OverflowsCounted == wraps = timeMsb + lost + (IF cpcs THEN 1 ELSE 0)

(* The counter either counts on or wraps, which raises the flag.           *)
Wraps ==
  /\ cv = Period - 1 /\ cv' = 0 /\ cpcs' = TRUE
  /\ wraps < MaxWraps /\ wraps' = wraps + 1
  /\ \/ ~cpcs /\ lost' = lost
     \/ cpcs /\ masked /\ lost' = lost + 1

LEMMA CounterCases ==
  ASSUME RtimerTypeOK, CounterStep
  PROVE  \/ /\ cv' = cv + 1 /\ cv' \in 0 .. Period - 1 /\ cpcs' = cpcs
            /\ wraps' = wraps /\ lost' = lost
         \/ Wraps
<1>1. CASE cv = Period - 1
  <2>1. (cv + 1) % Period = 0
    BY <1>1, RtimerAssumption
  <2>2. ~(cv < Period - 1)
    BY <1>1, RtimerAssumption
  <2>3. /\ cpcs' = TRUE /\ (masked \/ ~cpcs)
        /\ wraps < MaxWraps /\ wraps' = wraps + 1
    BY <1>1, <2>2, Zenon DEF CounterStep
  <2>4. IF cpcs THEN lost' = lost + 1 ELSE lost' = lost + 0
    BY <1>1, Zenon DEF CounterStep
  <2>5. IF cpcs THEN lost' = lost + 1 ELSE lost' = lost
    BY <2>4 DEF RtimerTypeOK
  <2> QED
    BY <1>1, <2>1, <2>3, <2>5, RtimerAssumption DEF CounterStep, Wraps
<1>2. CASE cv # Period - 1
  <2>1. cv + 1 \in 0 .. Period - 1 /\ (cv + 1) % Period = cv + 1
    BY <1>2, RtimerAssumption DEF RtimerTypeOK
  <2>2. cpcs' = cpcs
    BY <1>2 DEF CounterStep, RtimerTypeOK
  <2> QED
    BY <1>2, <2>1, <2>2, RtimerAssumption DEF CounterStep, RtimerTypeOK
<1> QED
  BY <1>1, <1>2

LEMMA RtimerTypeStep ==
  ASSUME RtimerTypeOK, OverflowsCounted, [RtimerNext]_rtimerVars
  PROVE  RtimerTypeOK'
<1> USE DEF RtimerTypeOK
<1>1. CASE CounterStep
  <2>1. UNCHANGED <<timeMsb, masked, slack, nowPc, msb, lsb, since, covered>>
    BY <1>1 DEF CounterStep
  <2>2. /\ 0 \in 0 .. Period - 1
        /\ wraps < MaxWraps => wraps + 1 \in 0 .. MaxWraps /\ lost + 1 \in 0 .. MaxWraps
    <3>1. lost <= wraps
      BY RtimerAssumption DEF OverflowsCounted
    <3> QED
      BY <3>1, RtimerAssumption
  <2>3. /\ cv' \in 0 .. Period - 1 /\ wraps' \in 0 .. MaxWraps /\ cpcs' \in BOOLEAN
        /\ lost' \in 0 .. MaxWraps
    BY <1>1, <2>2, CounterCases, Zenon DEF Wraps
  <2> QED  BY <2>1, <2>3
<1>2. CASE TC0Handler
  <2>1. timeMsb' = timeMsb + 1 /\ wraps = timeMsb + lost + 1
    BY <1>2, Zenon DEF TC0Handler, OverflowsCounted
  <2>2. timeMsb' \in 0 .. MaxWraps
    BY <2>1, RtimerAssumption
  <2>3. slack' \in 0 .. Latency
    BY <1>2, RtimerAssumption DEF TC0Handler
  <2> QED  BY <1>2, <2>2, <2>3 DEF TC0Handler
<1>3. CASE SetMask
  BY <1>3, ThreadStep DEF SetMask
<1>4. CASE ReadMsb
  <2>0. Now \in Nat
    BY TimeIsNat, RtimerAssumption DEF Now
  <2>1. since' \in Nat
    BY <1>4, <2>0, Zenon DEF ReadMsb
  <2>2. covered' \in BOOLEAN
    BY <1>4, Zenon DEF ReadMsb
  <2> QED  BY <1>4, <2>1, <2>2, ThreadStep DEF ReadMsb
<1>5. CASE ReadLsb
  BY <1>5, ThreadStep DEF ReadLsb
<1>6. CASE Retry
  BY <1>6, ThreadStep DEF Retry
<1>7. CASE Return
  BY <1>7, ThreadStep DEF Return
<1>8. CASE Returned
  BY <1>8, RtimerAssumption DEF Returned
<1>9. CASE UNCHANGED rtimerVars
  BY <1>9 DEF rtimerVars
<1> QED
  BY <1>1, <1>2, <1>3, <1>4, <1>5, <1>6, <1>7, <1>8, <1>9 DEF RtimerNext

LEMMA OverflowsStep ==
  ASSUME RtimerTypeOK, OverflowsCounted, [RtimerNext]_rtimerVars
  PROVE  OverflowsCounted'
<1> USE DEF OverflowsCounted
<1>1. CASE CounterStep
  <2>0. timeMsb' = timeMsb
    BY <1>1 DEF CounterStep
  <2>1. CASE wraps' = wraps /\ cpcs' = cpcs /\ lost' = lost
    BY <2>0, <2>1, Zenon
  <2>2. CASE Wraps
    <3>1. CASE ~cpcs /\ lost' = lost
      <4>1. wraps = timeMsb + lost + 0 /\ cpcs'
        BY <2>2, <3>1, Zenon DEF Wraps
      <4> QED
        BY <2>0, <2>2, <3>1, <4>1 DEF Wraps, RtimerTypeOK
    <3>2. CASE cpcs /\ lost' = lost + 1
      <4>1. wraps = timeMsb + lost + 1 /\ cpcs'
        BY <2>2, <3>2, Zenon DEF Wraps
      <4> QED
        BY <2>0, <2>2, <3>2, <4>1 DEF Wraps, RtimerTypeOK
    <3> QED
      BY <2>2, <3>1, <3>2 DEF Wraps
  <2> QED
    BY <1>1, <2>1, <2>2, CounterCases
<1>2. CASE TC0Handler
  <2>1. /\ wraps = timeMsb + lost + 1 /\ timeMsb' = timeMsb + 1 /\ ~cpcs'
        /\ wraps' = wraps /\ lost' = lost
    BY <1>2, Zenon DEF TC0Handler
  <2> QED
    BY <2>1 DEF RtimerTypeOK
<1>3. CASE ThreadRuns \/ Returned \/ UNCHANGED rtimerVars
  BY <1>3 DEF ThreadRuns, Returned, rtimerVars
<1> QED
  BY <1>1, <1>2, <1>3 DEF RtimerNext, SetMask, ReadMsb, ReadLsb, Retry, Return

-----------------------------------------------------------------------------
(* Why the loop of rtimer_arch_now is enough.  After the first read msb is *)
(* no newer than time_msb; after the second, if it is still the same and   *)
(* the thread may go on, the two words are a time of the call.  While the  *)
(* interrupt waits, the thread has used up the steps it has left.          *)
Calling == nowPc \in {"retry", "lsb", "check", "done"}
InCall == Time(msb + lost, lsb) \in since .. Now
NearCall == Time(msb + lost + 1, lsb) >= since /\ Time(msb + lost, lsb) <= Now
MayGoOn == masked \/ ~cpcs \/ slack < Latency

(* With interrupts off time_msb stands still, and the counter has not been *)
(* around since it was read, or the flag is up.                            *)
MaskedRead ==
  /\ msb = timeMsb
  /\ ~cpcs => lsb <= cv
  /\ Time(msb + lost + 1, lsb) >= since

ReadInv ==
  /\ Calling => since <= Now /\ covered = ~masked
  /\ nowPc \in {"lsb", "check"} => msb <= timeMsb /\ (masked => msb = timeMsb)
  /\ nowPc \in {"check", "done"} /\ masked => MaskedRead
  /\ nowPc = "check" /\ ~masked /\ msb = timeMsb /\ MayGoOn => InCall
  /\ nowPc = "done" /\ ~masked => InCall

RtimerIInv == RtimerTypeOK /\ OverflowsCounted /\ ReadInv

(* Time moves forward with the counter, also when it wraps.                *)
LEMMA CounterNow ==
  ASSUME RtimerTypeOK, CounterStep
  PROVE  Now \in Nat /\ Now' = Now + 1
<1>1. wraps \in Nat /\ cv \in Nat /\ Period \in Nat /\ Period - 1 \in Nat
  BY RtimerAssumption DEF RtimerTypeOK
<1>2. 0 \in Nat /\ cv + 1 \in Nat
  BY <1>1
<1>3. Time(wraps, 0) \in Nat
  BY <1>1, <1>2, TimeIsNat
<1>4. /\ Time(wraps, cv) = Time(wraps, 0) + cv
      /\ Time(wraps, cv + 1) = Time(wraps, 0) + (cv + 1)
  BY <1>1, <1>2, TimeOfCount
<1>5. Time(wraps + 1, 0) = Time(wraps, 0) + Period
  BY <1>1, <1>2, TimeNextPeriod
<1>6. CASE cv' = cv + 1 /\ wraps' = wraps
  BY <1>1, <1>6, <1>3, <1>4 DEF Now
<1>7. CASE cv = Period - 1 /\ cv' = 0 /\ wraps' = wraps + 1
  BY <1>1, <1>7, <1>3, <1>4, <1>5 DEF Now
<1> QED
  BY <1>6, <1>7, CounterCases DEF Wraps

LEMMA NowIsNat == RtimerTypeOK => Now \in Nat
BY TimeIsNat, RtimerAssumption DEF RtimerTypeOK, Now

(* A read with interrupts off is at most one period behind what was lost.  *)
LEMMA MaskedIsNear ==
  ASSUME RtimerTypeOK, OverflowsCounted, MaskedRead
  PROVE  NearCall
<1>1. /\ msb \in Nat /\ lost \in Nat /\ lsb \in Nat /\ lsb <= Period - 1
      /\ cv \in Nat /\ msb + lost \in Nat /\ Period \in Nat
  BY RtimerAssumption DEF RtimerTypeOK
<1>2. CASE ~cpcs
  <2>1. wraps = msb + lost /\ lsb <= cv
    BY <1>1, <1>2 DEF OverflowsCounted, MaskedRead
  <2>2. Time(msb + lost, lsb) = Time(msb + lost, 0) + lsb
    BY <1>1, TimeOfCount
  <2>3. Now = Time(msb + lost, 0) + cv
    BY <1>1, <2>1, TimeOfCount DEF Now
  <2>4. Time(msb + lost, 0) \in Nat
    BY <1>1, TimeIsNat
  <2>5. Time(msb + lost, lsb) <= Now
    BY <1>1, <2>1, <2>2, <2>3, <2>4
  <2> QED
    BY <2>5 DEF NearCall, MaskedRead
<1>3. CASE cpcs
  <2>1. wraps = (msb + lost) + 1
    BY <1>1, <1>3 DEF OverflowsCounted, MaskedRead
  <2>2. Time(msb + lost, lsb) = Time(msb + lost, 0) + lsb
    BY <1>1, TimeOfCount
  <2>3. Now = Time(msb + lost, cv) + Period
    BY <1>1, <2>1, TimeNextPeriod DEF Now
  <2>4. Time(msb + lost, cv) = Time(msb + lost, 0) + cv /\ Time(msb + lost, 0) \in Nat
    BY <1>1, TimeIsNat, TimeOfCount
  <2>5. Time(msb + lost, lsb) <= Now
    BY <1>1, <2>2, <2>3, <2>4
  <2> QED
    BY <2>5 DEF NearCall, MaskedRead
<1> QED
  BY <1>2, <1>3

(* The counter does not disturb a read.                                    *)
LEMMA CounterKeepsMasked ==
  ASSUME RtimerTypeOK, CounterStep, MaskedRead
  PROVE  MaskedRead'
<1>1. UNCHANGED <<timeMsb, msb, lsb, since>>
  BY DEF CounterStep
<1>2. /\ msb + lost + 1 \in Nat /\ lsb \in Nat /\ lost \in Nat /\ since \in Nat
      /\ cv \in Nat /\ Period \in Nat
  BY RtimerAssumption DEF RtimerTypeOK
<1>3. CASE cv' = cv + 1 /\ cpcs' = cpcs /\ lost' = lost
  BY <1>1, <1>2, <1>3 DEF MaskedRead, Time
<1>4. CASE Wraps
  <2>1. CASE lost' = lost
    BY <1>1, <1>4, <2>1 DEF MaskedRead, Wraps, Time
  <2>2. CASE lost' = lost + 1
    <3>1. msb + lost' + 1 = (msb + lost + 1) + 1
      BY <1>2, <2>2 DEF RtimerTypeOK
    <3>2. Time(msb + lost' + 1, lsb) = Time(msb + lost + 1, lsb) + Period
      BY <1>2, <3>1, TimeNextPeriod
    <3>3. Time(msb + lost + 1, lsb) \in Nat
      BY <1>2, TimeIsNat
    <3>4. Time(msb + lost' + 1, lsb) >= since
      BY <1>2, <3>2, <3>3 DEF MaskedRead
    <3>5. Time(msb + lost + 1, lsb)' = Time(msb + lost' + 1, lsb)
      BY <1>1 DEF Time
    <3> QED
      BY <1>1, <1>4, <3>4, <3>5 DEF MaskedRead, Wraps
  <2> QED
    BY <1>4, <2>1, <2>2 DEF Wraps
<1> QED
  BY <1>3, <1>4, CounterCases

LEMMA CounterKeepsInCall ==
  ASSUME RtimerTypeOK, CounterStep, ~masked, InCall
  PROVE  InCall'
<1>1. UNCHANGED <<msb, lsb, since>>
  BY DEF CounterStep
<1>2. Now \in Nat /\ Now' = Now + 1 /\ since \in Nat /\ Time(msb + lost, lsb) \in Nat
  <2>1. msb + lost \in Nat /\ lsb \in Nat
    BY RtimerAssumption DEF RtimerTypeOK
  <2> QED
    BY <2>1, CounterNow, TimeIsNat DEF RtimerTypeOK
<1>3. lost' = lost
  BY CounterCases DEF Wraps
<1>4. Time(msb + lost, lsb)' = Time(msb + lost, lsb)
  BY <1>1, <1>3 DEF Time
<1> QED
  BY <1>1, <1>2, <1>4 DEF InCall

LEMMA RtimerReadStep ==
  ASSUME RtimerIInv, [RtimerNext]_rtimerVars
  PROVE  ReadInv'
<1>1. CASE CounterStep
  <2>1. UNCHANGED <<timeMsb, masked, slack, nowPc, msb, lsb, since, covered>>
    BY <1>1 DEF CounterStep
  <2>2. Now \in Nat /\ Now' = Now + 1 /\ since \in Nat
    BY <1>1, CounterNow DEF RtimerIInv, RtimerTypeOK
  <2>3. MayGoOn' => MayGoOn
    <3>1. masked' = masked /\ slack' = slack
      BY <2>1
    <3>2. cpcs => cpcs'
      BY <1>1, Zenon DEF CounterStep
    <3> QED
      BY <3>1, <3>2, Zenon DEF MayGoOn
  <2>4. (~masked /\ InCall => InCall') /\ (MaskedRead => MaskedRead')
    BY <1>1, CounterKeepsInCall, CounterKeepsMasked DEF RtimerIInv
  <2>5. since <= Now => since' <= Now'
    BY <2>1, <2>2
  <2> QED
    BY <2>1, <2>3, <2>4, <2>5 DEF RtimerIInv, ReadInv, Calling
<1>2. CASE TC0Handler
  <2>1. /\ ~masked /\ timeMsb' = timeMsb + 1
        /\ UNCHANGED <<cv, masked, nowPc, msb, lsb, wraps, lost, since, covered>>
    BY <1>2 DEF TC0Handler
  <2>2. Now' = Now /\ (InCall <=> InCall')
    BY <2>1 DEF Now, InCall, Time
  <2>3. msb <= timeMsb => msb <= timeMsb' /\ msb # timeMsb'
    BY <2>1, RtimerAssumption DEF RtimerIInv, RtimerTypeOK
  <2> QED
    BY <2>1, <2>2, <2>3, Zenon DEF RtimerIInv, ReadInv, Calling
<1>3. CASE SetMask \/ Returned
  BY <1>3 DEF SetMask, Returned, ReadInv, Calling
<1>4. CASE ReadMsb
  <2>1. nowPc' = "lsb" /\ msb' = timeMsb /\ UNCHANGED <<cv, wraps, timeMsb, masked>>
    BY <1>4 DEF ReadMsb, ThreadRuns
  <2>2. Now \in Nat /\ Now' = Now
    BY <2>1, NowIsNat DEF Now, RtimerIInv
  <2>3. CASE nowPc = "idle"
    <3>1. since' = Now /\ covered' = ~masked
      BY <1>4, <2>3 DEF ReadMsb
    <3> QED
      BY <2>1, <2>2, <3>1, RtimerAssumption DEF ReadInv, RtimerIInv, RtimerTypeOK
  <2>4. CASE nowPc = "retry"
    <3>1. UNCHANGED <<since, covered>>
      BY <1>4, <2>4 DEF ReadMsb
    <3> QED
      BY <2>1, <2>2, <2>4, <3>1, RtimerAssumption
      DEF ReadInv, RtimerIInv, RtimerTypeOK, Calling
  <2> QED
    BY <1>4, <2>3, <2>4 DEF ReadMsb
<1>5. CASE ReadLsb
  <2>1. /\ nowPc = "lsb" /\ nowPc' = "check" /\ lsb' = cv /\ ThreadRuns
        /\ UNCHANGED <<cv, cpcs, wraps, lost, timeMsb, masked, msb, since, covered>>
    BY <1>5 DEF ReadLsb, ThreadRuns
  <2>2. /\ since <= Now /\ covered = ~masked /\ msb <= timeMsb
        /\ masked => msb = timeMsb
    BY <2>1 DEF RtimerIInv, ReadInv, Calling
  <2>3. Now \in Nat /\ Now' = Now /\ since \in Nat
    BY <2>1, NowIsNat DEF Now, RtimerIInv, RtimerTypeOK
  <2>4. /\ timeMsb + lost \in Nat /\ cv \in Nat /\ Period \in Nat
        /\ Time(timeMsb + lost, cv) \in Nat
    BY TimeIsNat, RtimerAssumption DEF RtimerIInv, RtimerTypeOK
  <2>5. Time(timeMsb + lost + 1, cv) = Time(timeMsb + lost, cv) + Period
    BY <2>4, TimeNextPeriod
  <2>6. Now = Time(timeMsb + lost + (IF cpcs THEN 1 ELSE 0), cv)
    BY Zenon DEF RtimerIInv, OverflowsCounted, Now
  <2>7. ASSUME masked PROVE MaskedRead'
    <3>1. msb' = timeMsb' /\ lsb' <= cv'
      BY <2>1, <2>2, <2>4, <2>7
    <3>2. Time(msb + lost + 1, lsb)' = Time(timeMsb + lost + 1, cv)
      BY <2>1, <2>2, <2>7 DEF Time
    <3>3. Time(timeMsb + lost + 1, cv) >= Now
      <4>1. CASE cpcs
        BY <2>3, <2>4, <2>5, <2>6, <4>1
      <4>2. CASE ~cpcs
        <5>1. Now = Time(timeMsb + lost + 0, cv) /\ timeMsb + lost + 0 = timeMsb + lost
          BY <2>4, <2>6, <4>2
        <5>2. Now = Time(timeMsb + lost, cv)
          BY <5>1
        <5> QED
          BY <2>3, <2>4, <2>5, <5>2
      <4> QED
        BY <4>1, <4>2
    <3>4. Time(timeMsb + lost + 1, cv) \in Nat
      BY <2>4, <2>5
    <3> QED
      BY <2>1, <2>2, <2>3, <3>1, <3>2, <3>3, <3>4 DEF MaskedRead
  <2>8. ASSUME ~masked, msb = timeMsb, MayGoOn' PROVE InCall'
    <3>1. ~cpcs
      <4>1. SUFFICES ASSUME cpcs PROVE FALSE
        OBVIOUS
      <4>2. slack < Latency /\ slack' = slack + 1
        BY <2>1, <2>8, <4>1 DEF ThreadRuns
      <4>3. ~(slack' < Latency)
        BY <4>2, RtimerAssumption DEF RtimerIInv, RtimerTypeOK
      <4> QED
        BY <2>1, <2>8, <4>1, <4>3 DEF MayGoOn
    <3>2. Now = Time(timeMsb + lost + 0, cv) /\ timeMsb + lost + 0 = timeMsb + lost
      BY <2>4, <2>6, <3>1
    <3>3. Time(msb + lost, lsb)' = Now
      BY <2>1, <2>8, <3>2 DEF Time
    <3> QED
      BY <2>1, <2>2, <2>3, <3>3 DEF InCall
  <2> QED
    BY <2>1, <2>2, <2>3, <2>7, <2>8 DEF ReadInv, Calling
<1>6. CASE Retry
  <2>1. nowPc = "check" /\ nowPc' = "retry" /\ UNCHANGED <<cv, wraps, masked, since, covered>>
    BY <1>6 DEF Retry, ThreadRuns
  <2> QED
    BY <2>1 DEF RtimerIInv, ReadInv, Calling, Now, Time
<1>7. CASE Return
  <2>1. /\ nowPc = "check" /\ nowPc' = "done" /\ msb = timeMsb /\ MayGoOn
        /\ UNCHANGED <<cv, cpcs, wraps, lost, timeMsb, masked, msb, lsb, since, covered>>
    BY <1>7, Zenon DEF Return, ThreadRuns, Stale, MayGoOn
  <2>2. Now' = Now /\ (InCall <=> InCall') /\ (MaskedRead <=> MaskedRead')
    BY <2>1 DEF Now, InCall, MaskedRead, Time
  <2> QED
    BY <2>1, <2>2, Zenon DEF RtimerIInv, ReadInv, Calling
<1>8. CASE UNCHANGED rtimerVars
  BY <1>8 DEF rtimerVars, RtimerIInv, ReadInv, Calling, InCall, MaskedRead, MayGoOn, Now, Time
<1> QED
  BY <1>1, <1>2, <1>3, <1>4, <1>5, <1>6, <1>7, <1>8 DEF RtimerNext

-----------------------------------------------------------------------------
LEMMA RtimerIInvHolds == RtimerSpec => []RtimerIInv
<1>1. RtimerInit => RtimerIInv
  <2>1. SUFFICES ASSUME RtimerInit PROVE RtimerIInv
    OBVIOUS
  <2>2. RtimerTypeOK /\ OverflowsCounted
    <3>1. /\ 0 \in 0 .. Period - 1 /\ 0 \in 0 .. Latency /\ 0 \in 0 .. MaxWraps
          /\ 0 \in Nat /\ 0 = 0 + 0 + 0
      BY RtimerAssumption
    <3> QED
      BY <2>1, <3>1, Zenon DEF RtimerInit, RtimerTypeOK, OverflowsCounted
  <2>3. nowPc = "idle"
    BY <2>1 DEF RtimerInit
  <2>4. ReadInv
    BY <2>3 DEF ReadInv, Calling
  <2> QED
    BY <2>2, <2>4 DEF RtimerIInv
<1>2. RtimerIInv /\ [RtimerNext]_rtimerVars => RtimerIInv'
  BY RtimerTypeStep, OverflowsStep, RtimerReadStep DEF RtimerIInv
<1> QED
  BY <1>1, <1>2, PTL DEF RtimerSpec

(* Type correctness of the 64-bit clock, for every period of the counter.  *)
THEOREM RtimerTypeCorrect == RtimerSpec => []RtimerTypeOK
BY RtimerIInvHolds, PTL DEF RtimerIInv

(* rtimer_arch_now returns a time of the call although the counter may     *)
(* overflow between its reads, provided that a pending interrupt is taken  *)
(* before two more reads are done.                                         *)
THEOREM TimeIsOfTheCall == RtimerSpec => []TimeOfTheCall
<1>1. ASSUME RtimerIInv PROVE TimeOfTheCall
  <2>1. nowPc = "done" /\ masked => NearCall
    BY <1>1, MaskedIsNear DEF RtimerIInv, ReadInv
  <2>2. nowPc = "done" => covered = ~masked /\ (~masked => InCall)
    BY <1>1 DEF RtimerIInv, ReadInv, Calling
  <2> QED
    BY <2>1, <2>2, Zenon DEF InCall, NearCall, TimeOfTheCall
<1> QED
  BY <1>1, RtimerIInvHolds, PTL

-----------------------------------------------------------------------------
(* SysClock.                                                               *)

LEMMA ClockConstants ==
  /\ CountMod \in Nat /\ CountMod > 0
  /\ ClockSecond \in Nat /\ ClockSecond > 0
  /\ MaxTicks \in Nat
  /\ Intervals \subseteq 0 .. CountMod - 1
  /\ NewSeconds \subseteq Nat
BY ClockAssumption

(* Quotient and remainder of n and of n + 1.                               *)
LEMMA Unique ==
  ASSUME NEW n \in Nat, NEW k \in Nat, k > 0,
         NEW q \in Nat, NEW r \in 0 .. k - 1, n = k * q + r
  PROVE  n \div k = q /\ n % k = r
OBVIOUS

LEMMA NextTick ==
  ASSUME NEW n \in Nat, NEW k \in Nat, k > 0
  PROVE  /\ n % k = k - 1 => (n + 1) \div k = n \div k + 1 /\ (n + 1) % k = 0
         /\ n % k # k - 1 => (n + 1) \div k = n \div k /\ (n + 1) % k = (n % k) + 1
<1>1. /\ n \div k \in Nat /\ n % k \in 0 .. k - 1
      /\ n = (k * (n \div k)) + (n % k)
  BY Euclid
<1>2. CASE n % k = k - 1
  <2>1. n + 1 = k * (n \div k + 1) + 0
    BY <1>1, <1>2
  <2> QED
    BY <1>1, <1>2, <2>1, Unique
<1>3. CASE n % k # k - 1
  <2>1. n + 1 = k * (n \div k) + ((n % k) + 1)
    BY <1>1
  <2>2. (n % k) + 1 \in 0 .. k - 1
    BY <1>1, <1>3
  <2> QED
    BY <1>1, <1>3, <2>1, <2>2, Unique
<1> QED
  BY <1>2, <1>3

(* The unsigned difference of two counts is at most that of the ticks.     *)
LEMMA UnsignedDifference ==
  ASSUME NEW a \in Nat, NEW b \in Nat, a <= b, NEW m \in Nat, m > 0
  PROVE  ((b % m) + m - (a % m)) % m <= b - a
<1> DEFINE qa == a \div m
           ra == a % m
           qb == b \div m
           rb == b % m
<1>1. qa \in Nat /\ ra \in 0 .. m - 1 /\ a = m * qa + ra
  BY Euclid
<1>2. qb \in Nat /\ rb \in 0 .. m - 1 /\ b = m * qb + rb
  BY Euclid
<1> HIDE DEF qa, qb, ra, rb
<1>3. CASE ra <= rb
  <2>1. rb + m - ra = m * 1 + (rb - ra) /\ rb - ra \in 0 .. m - 1
    BY <1>1, <1>2, <1>3
  <2>2. (rb + m - ra) % m = rb - ra
    BY <1>1, <1>2, <2>1, Unique
  <2>3. qa <= qb
    <3>1. SUFFICES ASSUME qb + 1 <= qa PROVE FALSE
      BY <1>1, <1>2
    <3>2. m * (qb + 1) <= m * qa
      BY <1>1, <1>2, <3>1
    <3> QED
      BY <1>1, <1>2, <3>2
  <2>4. m * qa <= m * qb
    BY <1>1, <1>2, <2>3
  <2> QED
    <3>1. m * qa \in Nat /\ m * qb \in Nat
      BY <1>1, <1>2
    <3>2. ASSUME NEW x \in Nat, NEW y \in Nat, x <= y, a = x + ra, b = y + rb
          PROVE  b - a >= rb - ra
      BY <1>1, <1>2, <3>2
    <3>3. b - a >= rb - ra
      BY <1>1, <1>2, <2>4, <3>1, <3>2, Zenon
    <3> QED
      BY <2>2, <3>3 DEF ra, rb
<1>4. CASE rb < ra
  <2>1. rb + m - ra = m * 0 + (rb + m - ra) /\ rb + m - ra \in 0 .. m - 1
    BY <1>1, <1>2, <1>4
  <2>2. (rb + m - ra) % m = rb + m - ra
    BY <1>1, <1>2, <2>1, Unique
  <2>3. qa + 1 <= qb
    <3>1. SUFFICES ASSUME qb <= qa PROVE FALSE
      BY <1>1, <1>2
    <3>2. m * qb <= m * qa
      BY <1>1, <1>2, <3>1
    <3> QED
      BY <1>1, <1>2, <1>4, <3>2
  <2>4. m * (qa + 1) <= m * qb
    BY <1>1, <1>2, <2>3
  <2> QED
    <3>1. m * (qa + 1) = m * qa + m
      BY <1>1
    <3>2. m * qa \in Nat /\ m * qb \in Nat
      BY <1>1, <1>2
    <3>3. ASSUME NEW x \in Nat, NEW y \in Nat, x + m <= y, a = x + ra, b = y + rb
          PROVE  b - a >= rb + m - ra
      BY <1>1, <1>2, <3>3
    <3>4. b - a >= rb + m - ra
      BY <1>1, <1>2, <2>4, <3>1, <3>2, <3>3
    <3> QED
      BY <2>2, <3>4 DEF ra, rb
<1> QED
  BY <1>1, <1>2, <1>3, <1>4

(* Adding to a remainder.                                                  *)
LEMMA SumOfRemainder ==
  ASSUME NEW a \in Nat, NEW i \in Nat, NEW m \in Nat, m > 0
  PROVE  ((a % m) + i) % m = (a + i) % m
<1> DEFINE qa == a \div m
           ra == a % m
           q == (ra + i) \div m
           r == (ra + i) % m
<1>1. qa \in Nat /\ ra \in 0 .. m - 1 /\ a = (m * qa) + ra
  BY Euclid
<1>2. q \in Nat /\ r \in 0 .. m - 1 /\ ra + i = (m * q) + r
  BY <1>1, Euclid
<1> HIDE DEF qa, ra, q, r
<1>3. a + i = (m * (qa + q)) + r
  BY <1>1, <1>2
<1>4. qa + q \in Nat /\ a + i \in Nat
  BY <1>1, <1>2
<1>5. (a + i) % m = r
  BY <1>2, <1>3, <1>4, Unique
<1> QED
  BY <1>5 DEF r, ra

LEMMA CountIncremented ==
  ASSUME NEW n \in Nat
  PROVE  ((n % CountMod) + 1) % CountMod = (n + 1) % CountMod
<1>1. 1 \in Nat
  OBVIOUS
<1> QED
  BY <1>1, SumOfRemainder, ClockConstants, Zenon

-----------------------------------------------------------------------------
(* The counts of the tick interrupt are functions of the number of ticks.  *)
CountsInv ==
  /\ count = ticks % CountMod
  /\ countdown = ClockSecond - (ticks % ClockSecond)
  /\ SecondsMatchTicks

(* What the thread remembers of the count it read; clock_wait is done only *)
(* when its interval has passed.                                           *)
StartInv ==
  /\ clockPc # "idle" => startTick <= ticks /\ start = startTick % CountMod
  /\ NoEarlyReturn

(* The expiration is that of the tick it stands for.                       *)
TimerInv ==
  /\ timerSet => expiration = due % CountMod
  /\ OnlyLateExpirationsMissed

ClockIInv == ClockTypeOK /\ CountsInv /\ StartInv /\ TimerInv

LEMMA ClockInitInv == ClockInit => ClockIInv
<1>1. SUFFICES ASSUME ClockInit PROVE ClockIInv
  OBVIOUS
<1>2. 0 % CountMod = 0 /\ 0 % ClockSecond = 0 /\ 0 \div ClockSecond = 0
  BY ClockConstants
<1>3. ClockTypeOK
  <2>1. timerSet \in BOOLEAN /\ polled \in BOOLEAN /\ late \in BOOLEAN
    BY <1>1, Zenon DEF ClockInit
  <2> QED
    BY <1>1, <2>1, ClockConstants DEF ClockInit, ClockTypeOK
<1>4. CountsInv
  BY <1>1, <1>2, ClockConstants DEF ClockInit, CountsInv, SecondsMatchTicks
<1>5. StartInv /\ TimerInv
  BY <1>1 DEF ClockInit, StartInv, NoEarlyReturn, TimerInv, OnlyLateExpirationsMissed
<1> QED
  BY <1>3, <1>4, <1>5 DEF ClockIInv

LEMMA ClockTypeStep ==
  ASSUME ClockIInv, [ClockNext]_clockVars
  PROVE  ClockTypeOK'
<1> USE ClockConstants DEF ClockIInv, ClockTypeOK
<1>1. CASE Tick
  <2>1. count' \in 0 .. CountMod - 1
    BY <1>1 DEF Tick, Incremented
  <2>2. countdown' \in 1 .. ClockSecond /\ seconds' \in Nat
    BY <1>1 DEF Tick, SecondOver, Reload
  <2>3. ticks' \in 0 .. MaxTicks
    BY <1>1 DEF Tick
  <2>4. polled' \in BOOLEAN
    BY <1>1, Zenon DEF Tick, Due
  <2> QED
    BY <1>1, <2>1, <2>2, <2>3, <2>4 DEF Tick, threadVars, timerVars
<1>2. CASE SetSeconds
  BY <1>2 DEF SetSeconds, threadVars, timerVars
<1>3. CASE WaitStart \/ ArmStart
  BY <1>3 DEF WaitStart, ArmStart, ReadClock, timerVars
<1>4. CASE WaitEnd
  BY <1>4 DEF WaitEnd, timerVars
<1>5. CASE Waited
  BY <1>5 DEF Waited, Resume, timerVars
<1>6. CASE ArmStore
  <2>1. expiration' \in 0 .. CountMod - 1 /\ due' \in Nat
    BY <1>6 DEF ArmStore
  <2>2. timerSet' \in BOOLEAN
    BY <1>6, Zenon DEF ArmStore
  <2>3. late' \in BOOLEAN
    <3>1. CASE ticks >= startTick + interval
      BY <1>6, <3>1 DEF ArmStore
    <3>2. CASE ~(ticks >= startTick + interval)
      BY <1>6, <3>2 DEF ArmStore
    <3> QED
      BY <3>1, <3>2
  <2> QED
    BY <1>6, <2>1, <2>2, <2>3 DEF ArmStore, Resume
<1>7. CASE RunEtimers
  <2>1. polled' \in BOOLEAN
    BY <1>7, Zenon DEF RunEtimers
  <2>2. UNCHANGED <<count, seconds, countdown, ticks, secondsSet, threadVars>>
    BY <1>7 DEF RunEtimers
  <2>3. CASE UNCHANGED timerVars
    BY <2>1, <2>2, <2>3 DEF threadVars, timerVars
  <2>4. CASE timerSet' = FALSE /\ expiration' = 0 /\ due' = 0 /\ late' = FALSE
    <3>1. timerSet' \in BOOLEAN /\ late' \in BOOLEAN
      BY <2>4, Zenon
    <3> QED
      BY <2>1, <2>2, <2>4, <3>1 DEF threadVars
  <2> QED
    BY <1>7, <2>3, <2>4, Zenon DEF RunEtimers
<1>8. CASE UNCHANGED clockVars
  BY <1>8 DEF clockVars
<1> QED
  BY <1>1, <1>2, <1>3, <1>4, <1>5, <1>6, <1>7, <1>8 DEF ClockNext

LEMMA CountsStep ==
  ASSUME ClockIInv, [ClockNext]_clockVars
  PROVE  CountsInv'
<1> USE DEF ClockIInv, ClockTypeOK, CountsInv
<1>1. CASE Tick
  <2>1. ticks \in Nat /\ ticks' = ticks + 1 /\ count' = (count + 1) % CountMod
    BY <1>1, ClockConstants DEF Tick, Incremented
  <2>2. count' = ticks' % CountMod
    BY <2>1, CountIncremented
  <2>3. secondsSet' = secondsSet /\ seconds \in Nat /\ secondsSet.to \in Nat
        /\ secondsSet.tick \in Nat
    BY <1>1, ClockConstants DEF Tick
  <2>4. ticks \div ClockSecond \in Nat /\ secondsSet.tick \div ClockSecond \in Nat
        /\ ticks % ClockSecond \in 0 .. ClockSecond - 1
    BY <2>1, <2>3, Euclid, ClockConstants
  <2>5. CASE SecondOver
    <3>1. ticks % ClockSecond = ClockSecond - 1
      BY <2>4, <2>5, ClockConstants DEF SecondOver
    <3>2. ticks' \div ClockSecond = ticks \div ClockSecond + 1 /\ ticks' % ClockSecond = 0
      BY <2>1, <3>1, NextTick, ClockConstants
    <3>3. countdown' = ClockSecond /\ seconds' = seconds + 1
      BY <1>1, <2>5 DEF Tick, Reload
    <3> QED
      BY <2>2, <2>3, <2>4, <3>2, <3>3, ClockConstants DEF SecondsMatchTicks
  <2>6. CASE ~SecondOver
    <3>1. ticks % ClockSecond # ClockSecond - 1
      BY <2>4, <2>6, ClockConstants DEF SecondOver
    <3>2. /\ ticks' \div ClockSecond = ticks \div ClockSecond
          /\ ticks' % ClockSecond = (ticks % ClockSecond) + 1
      BY <2>1, <3>1, NextTick, ClockConstants
    <3>3. countdown' = countdown - 1 /\ seconds' = seconds
      BY <1>1, <2>6 DEF Tick
    <3> QED
      BY <2>2, <2>3, <2>4, <3>2, <3>3, ClockConstants DEF SecondsMatchTicks
  <2> QED
    BY <2>5, <2>6
<1>2. CASE SetSeconds
  <2>1. PICK s \in NewSeconds : seconds' = s /\ secondsSet' = [tick |-> ticks, to |-> s]
    BY <1>2 DEF SetSeconds
  <2>2. UNCHANGED <<count, countdown, ticks>>
    BY <1>2 DEF SetSeconds
  <2>3. s \in Nat /\ ticks \div ClockSecond \in Nat
    BY ClockConstants
  <2> QED
    BY <2>1, <2>2, <2>3 DEF SecondsMatchTicks
<1>3. CASE UNCHANGED <<count, seconds, countdown, ticks, secondsSet>>
  BY <1>3 DEF SecondsMatchTicks
<1> QED
  BY <1>1, <1>2, <1>3
  DEF ClockNext, WaitStart, ArmStart, ReadClock, WaitEnd, Waited, ArmStore, RunEtimers,
      clockVars

LEMMA StartStep ==
  ASSUME ClockIInv, [ClockNext]_clockVars
  PROVE  StartInv'
<1> USE DEF StartInv, NoEarlyReturn
<1>1. ticks \in Nat /\ startTick \in Nat /\ interval \in Nat
  BY ClockConstants DEF ClockIInv, ClockTypeOK
<1>2. CASE Tick
  BY <1>1, <1>2 DEF Tick, threadVars, ClockIInv
<1>3. CASE WaitStart \/ ArmStart
  <2>1. clockPc' # "waited" /\ start' = count /\ startTick' = ticks /\ ticks' = ticks
    BY <1>3 DEF WaitStart, ArmStart, ReadClock
  <2> QED
    BY <1>1, <2>1 DEF ClockIInv, CountsInv
<1>4. CASE WaitEnd
  <2>1. UNCHANGED <<count, start, interval, ticks, startTick>> /\ clockPc = "wait"
    BY <1>4 DEF WaitEnd
  <2>2. startTick <= ticks /\ start = startTick % CountMod /\ count = ticks % CountMod
    BY <2>1 DEF ClockIInv, CountsInv
  <2>3. (count + CountMod - start) % CountMod <= ticks - startTick
    BY <1>1, <2>2, UnsignedDifference, ClockConstants
  <2>4. (count + CountMod - start) % CountMod \in Nat
    BY <1>1, <2>2, ClockConstants DEF ClockIInv, ClockTypeOK
  <2>5. interval <= ticks - startTick
    BY <1>1, <1>4, <2>3, <2>4 DEF WaitEnd, Passed
  <2> QED
    BY <1>1, <2>1, <2>2, <2>5
<1>5. CASE Waited \/ ArmStore
  BY <1>5 DEF Waited, ArmStore, Resume
<1>6. CASE UNCHANGED <<clockPc, start, interval, ticks, startTick>>
  BY <1>6 DEF ClockIInv
<1> QED
  BY <1>2, <1>3, <1>4, <1>5, <1>6
  DEF ClockNext, SetSeconds, RunEtimers, threadVars, clockVars

LEMMA TimerStep ==
  ASSUME ClockIInv, [ClockNext]_clockVars
  PROVE  TimerInv'
<1> USE DEF TimerInv, OnlyLateExpirationsMissed
<1>1. ticks \in Nat /\ startTick \in Nat /\ interval \in Nat /\ due \in Nat
  BY ClockConstants DEF ClockIInv, ClockTypeOK
<1>2. CASE Tick
  <2>1. UNCHANGED <<timerSet, expiration, due, late>> /\ ticks' = ticks + 1
    BY <1>2 DEF Tick, timerVars
  <2>2. SUFFICES ASSUME timerSet, ~late, ticks + 1 >= due PROVE polled'
    BY <2>1 DEF ClockIInv
  <2>3. CASE ticks >= due
    BY <1>2, <2>2, <2>3 DEF ClockIInv, Tick
  <2>4. CASE due = ticks + 1
    <3>1. Incremented = (ticks + 1) % CountMod
      <4>1. count = ticks % CountMod
        BY DEF ClockIInv, CountsInv
      <4>2. ((ticks % CountMod) + 1) % CountMod = (ticks + 1) % CountMod
        BY <1>1, CountIncremented
      <4> QED
        BY <4>1, <4>2 DEF Incremented
    <3>2. expiration = Incremented
      BY <2>2, <2>4, <3>1 DEF ClockIInv
    <3> QED
      BY <1>2, <2>2, <3>2 DEF Tick, Due
  <2> QED
    BY <1>1, <2>2, <2>3, <2>4
<1>3. CASE ArmStore
  <2>1. /\ clockPc = "arm" /\ expiration' = (start + interval) % CountMod
        /\ due' = startTick + interval /\ late' = (ticks >= startTick + interval)
        /\ ticks' = ticks
    BY <1>3 DEF ArmStore
  <2>2. start = startTick % CountMod
    BY <2>1 DEF ClockIInv, StartInv
  <2>3. ((startTick % CountMod) + interval) % CountMod = (startTick + interval) % CountMod
    BY <1>1, SumOfRemainder, ClockConstants, Zenon
  <2>4. expiration' = due' % CountMod
    BY <2>1, <2>2, <2>3, Zenon
  <2> QED
    BY <2>1, <2>4
<1>4. CASE RunEtimers
  <2>1. ticks' = ticks
    BY <1>4 DEF RunEtimers
  <2>2. CASE ticks >= due
    BY <1>4, <2>2 DEF RunEtimers
  <2>3. CASE ~(ticks >= due)
    BY <1>4, <2>1, <2>3 DEF RunEtimers, timerVars, ClockIInv
  <2> QED
    BY <2>2, <2>3
<1>5. CASE UNCHANGED <<timerVars, polled, ticks>>
  BY <1>5 DEF timerVars, ClockIInv
<1> QED
  BY <1>2, <1>3, <1>4, <1>5
  DEF ClockNext, SetSeconds, WaitStart, ArmStart, ReadClock, WaitEnd, Waited,
      timerVars, clockVars

-----------------------------------------------------------------------------
LEMMA ClockIInvHolds == ClockSpec => []ClockIInv
<1>1. ClockIInv /\ [ClockNext]_clockVars => ClockIInv'
  BY ClockTypeStep, CountsStep, StartStep, TimerStep DEF ClockIInv
<1> QED
  BY <1>1, ClockInitInv, PTL DEF ClockSpec

(* Type correctness of clock.c, for every width of the count.              *)
THEOREM ClockTypeCorrect == ClockSpec => []ClockTypeOK
BY ClockIInvHolds, PTL DEF ClockIInv

(* The seconds follow the ticks, whatever CLOCK_SECOND is and whenever     *)
(* clock_set_seconds is called.                                            *)
THEOREM SecondsFollow == ClockSpec => []SecondsMatchTicks
<1>1. ClockIInv => SecondsMatchTicks
  BY DEF ClockIInv, CountsInv
<1> QED
  BY <1>1, ClockIInvHolds, PTL

(* Comparing the count with the expiration for equality is enough, for     *)
(* every interval the count can hold and across its wraps.                 *)
THEOREM EqualityIsEnough == ClockSpec => []OnlyLateExpirationsMissed
<1>1. ClockIInv => OnlyLateExpirationsMissed
  BY DEF ClockIInv, TimerInv
<1> QED
  BY <1>1, ClockIInvHolds, PTL

(* clock_wait waits for its whole interval, across wraps of the count.     *)
THEOREM WaitsLongEnough == ClockSpec => []NoEarlyReturn
<1>1. ClockIInv => NoEarlyReturn
  BY DEF ClockIInv, StartInv
<1> QED
  BY <1>1, ClockIInvHolds, PTL

-----------------------------------------------------------------------------
(* MCServices.                                                             *)

(* The services share no state: each behaves, among the others, as its own *)
(* specification says, so that every theorem about one of them holds here. *)
THEOREM EachKeepsItsSpecification ==
  Spec => /\ NetSpec /\ RtimerSpec /\ ClockSpec /\ NbrSpec /\ QueueSpec
          /\ RingSpec /\ MemSpec
<1>1. Init => /\ NetInit /\ RtimerInit /\ ClockInit /\ NbrInit /\ QueueInit
              /\ RingInit /\ MemInit
  BY DEF Init
<1>2. ASSUME [Next]_<<subject, subjectVars>>
      PROVE  /\ [NetNext]_netVars /\ [RtimerNext]_rtimerVars /\ [ClockNext]_clockVars
             /\ [NbrNext]_nbrVars /\ [QueueNext]_queueVars
             /\ [RingNext]_ringVars /\ [MemNext]_memVars
  BY <1>2 DEF Next, subjectVars
<1> QED
  BY <1>1, <1>2, PTL DEF Spec, NetSpec, RtimerSpec, ClockSpec, NbrSpec, QueueSpec,
     RingSpec, MemSpec

(* The services and the libraries keep their types.                        *)
THEOREM ServicesTypeCorrect == Spec => []ServicesTypeOK
<1>1. /\ Spec => []NetTypeOK
      /\ Spec => []RtimerTypeOK
      /\ Spec => []ClockTypeOK
      /\ Spec => []NbrTypeOK
      /\ Spec => []QueueTypeOK
      /\ Spec => []RingTypeOK
      /\ Spec => []MemTypeOK
  BY EachKeepsItsSpecification, NetTypeCorrect, RtimerTypeCorrect, ClockTypeCorrect,
     NbrTypeCorrect, QueueTypeCorrect, RingTypeCorrect, MemTypeCorrect, PTL
<1>2. /\ NetTypeOK /\ RtimerTypeOK /\ ClockTypeOK /\ NbrTypeOK /\ QueueTypeOK
      /\ RingTypeOK /\ MemTypeOK
      => ServicesTypeOK
  BY DEF ServicesTypeOK
<1> QED
  BY <1>1, <1>2, PTL
=============================================================================
