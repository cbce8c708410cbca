----------------------------- MODULE TxService -----------------------------
(***************************************************************************)
(* What the Ethernet driver promises the layer above it: a frame is either *)
(* refused with an error at once, or accepted and reported exactly once;   *)
(* accepted frames are reported in the order in which they were accepted,  *)
(* and as sent only after the wire has carried them.  Only taking the      *)
(* service down loses frames.                                              *)
(***************************************************************************)
EXTENDS Naturals, Sequences

CONSTANT MaxFrames           (* bound: frames submitted in a behaviour     *)

VARIABLES
  up,         (* the service is there to be used                           *)
  next,       (* the next frame to be submitted                            *)
  queue,      (* accepted frames that have not been reported               *)
  carried,    (* frames the wire has carried                               *)
  reported    (* what was reported for every frame                         *)

vars == <<up, next, queue, carried, reported>>

Init ==
  /\ up = FALSE /\ next = 1 /\ queue = <<>> /\ carried = {}
  /\ reported = [f \in 1 .. MaxFrames |-> "none"]

Accept ==
  /\ up /\ next <= MaxFrames
  /\ next' = next + 1
  /\ queue' = Append(queue, next)
  /\ UNCHANGED <<up, carried, reported>>

Refuse ==
  /\ up /\ next <= MaxFrames
  /\ next' = next + 1
  /\ \E error \in {"MAC_TX_ERR", "MAC_TX_ERR_FATAL"} :
       reported' = [reported EXCEPT ![next] = error]
  /\ UNCHANGED <<up, queue, carried>>

Carry ==
  /\ \E i \in DOMAIN queue : carried' = carried \cup {queue[i]}
  /\ UNCHANGED <<up, next, queue, reported>>

Report ==
  /\ up /\ queue # <<>> /\ Head(queue) \in carried
  /\ reported' = [reported EXCEPT ![Head(queue)] = "MAC_TX_OK"]
  /\ queue' = Tail(queue)
  /\ UNCHANGED <<up, next, carried>>

(* Taken down, and later up again; frames in the service get lost then.    *)
Stop  == up /\ up' = FALSE /\ UNCHANGED <<next, queue, carried, reported>>
Lose  == ~up /\ queue' = <<>> /\ UNCHANGED <<up, next, carried, reported>>
Start == ~up /\ queue = <<>> /\ up' = TRUE
         /\ UNCHANGED <<next, queue, carried, reported>>

Next == Accept \/ Refuse \/ Carry \/ Report \/ Stop \/ Lose \/ Start

Spec == Init /\ [][Next]_vars
=============================================================================
