----------------------------- MODULE MCServices -----------------------------
(***************************************************************************)
(* Model checking of the services around the driver and of the libraries   *)
(* below it, one per behaviour: a behaviour picks its subject and takes    *)
(* that subject's steps, while the variables of the others stay at their   *)
(* initial values.  The subjects share no state in the code, so checking   *)
(* their interleavings would show nothing that checking each does not.     *)
(***************************************************************************)
EXTENDS Ieee8023, RtimerClock, SysClock, NbrTable, QueueBuf, RingBuf32, RingMem

VARIABLE subject

subjectVars ==
  <<netVars, rtimerVars, clockVars, nbrVars, queueVars, ringVars, memVars>>

(* Where a service at rest has a choice of initial states, any one will do.*)
Resting ==
  /\ subject # "stack" => uipSize = CHOOSE n \in UipSizes : TRUE
  /\ subject # "ring buffer" =>
       LET b == CHOOSE c \in Byte : TRUE
       IN  data = [i \in Index |-> b] /\ putByte = b /\ getByte = b

Init ==
  /\ subject \in {"stack", "rtimer", "clock", "neighbours", "queue",
                 "ring buffer", "ring memory"}
  /\ NetInit /\ RtimerInit /\ ClockInit /\ NbrInit /\ QueueInit /\ RingInit /\ MemInit
  /\ Resting

Next ==
  /\ UNCHANGED subject
  /\ \/ /\ subject = "stack" /\ NetNext
        /\ UNCHANGED <<rtimerVars, clockVars, nbrVars, queueVars, ringVars, memVars>>
     \/ /\ subject = "rtimer" /\ RtimerNext
        /\ UNCHANGED <<netVars, clockVars, nbrVars, queueVars, ringVars, memVars>>
     \/ /\ subject = "clock" /\ ClockNext
        /\ UNCHANGED <<netVars, rtimerVars, nbrVars, queueVars, ringVars, memVars>>
     \/ /\ subject = "neighbours" /\ NbrNext
        /\ UNCHANGED <<netVars, rtimerVars, clockVars, queueVars, ringVars, memVars>>
     \/ /\ subject = "queue" /\ QueueNext
        /\ UNCHANGED <<netVars, rtimerVars, clockVars, nbrVars, ringVars, memVars>>
     \/ /\ subject = "ring buffer" /\ RingNext
        /\ UNCHANGED <<netVars, rtimerVars, clockVars, nbrVars, queueVars, memVars>>
     \/ /\ subject = "ring memory" /\ MemNext
        /\ UNCHANGED <<netVars, rtimerVars, clockVars, nbrVars, queueVars, ringVars>>

Spec == Init /\ [][Next]_<<subject, subjectVars>>

-----------------------------------------------------------------------------
(* Type invariant of every subject.                                        *)
ServicesTypeOK ==
  /\ NetTypeOK /\ RtimerTypeOK /\ ClockTypeOK /\ NbrTypeOK /\ QueueTypeOK
  /\ RingTypeOK /\ MemTypeOK
=============================================================================
