----------------------------- MODULE DsiService -----------------------------
(***************************************************************************)
(* What the DSI request engine promises the AFP commands built on it       *)
(* (lib/proto_*.c), whatever its queue, its threads and its locks do: a    *)
(* call returns the code of its own answer, only after the answer has been *)
(* unpacked into the caller's memory, or it reports a timeout or an error. *)
(* A caller whose wait ended before its time may be given the 0 that stood *)
(* where the code should be, without an answer; no other is.               *)
(*                                                                         *)
(* `intact' turns false when the engine meets a situation its code does    *)
(* not handle; from then on nothing is promised.                           *)
(***************************************************************************)
CONSTANT Callers

VARIABLES
  status,   \* per caller: no call, a call in progress, its answer unpacked
  result,   \* per caller without a call: what its last call returned
  early,    \* callers whose wait was ended early in their last call
  intact

vars == <<status, result, early, intact>>

Outcomes == {"none", "unwaited", "ok", "unanswered", "wrong", "timeout", "error"}
Statuses == {"idle", "pending", "answered"}

Init ==
  /\ status = [c \in Callers |-> "idle"]
  /\ result = [c \in Callers |-> "none"]
  /\ early = {}
  /\ intact = TRUE

Start(c) ==
  /\ status[c] = "idle"
  /\ status' = [status EXCEPT ![c] = "pending"]
  /\ result' = [result EXCEPT ![c] = "none"]
  /\ early' = early \ {c}

Answer(c) ==
  /\ status[c] = "pending"
  /\ status' = [status EXCEPT ![c] = "answered"]
  /\ UNCHANGED <<result, early>>

\* The waits of some of the calls in progress end without an answer.
Wake ==
  /\ \E woken \in SUBSET {c \in Callers : status[c] # "idle"} : early' = early \cup woken
  /\ UNCHANGED <<status, result>>

Finish(c, rc) ==
  /\ status[c] # "idle"
  /\ rc = "ok" => status[c] = "answered"
  /\ rc = "unanswered" => c \in early
  /\ status' = [status EXCEPT ![c] = "idle"]
  /\ result' = [result EXCEPT ![c] = rc]
  /\ UNCHANGED early

Serve ==
  /\ intact' = intact
  /\ \/ Wake
     \/ \E c \in Callers :
          \/ Start(c) \/ Answer(c)
          \/ \E rc \in {"unwaited", "ok", "unanswered", "timeout", "error"} : Finish(c, rc)

Degrade ==
  /\ intact' = FALSE
  /\ status' \in [Callers -> Statuses]
  /\ result' \in [Callers -> Outcomes]
  /\ early' \in SUBSET Callers

Next == (intact /\ Serve) \/ Degrade

Spec == Init /\ [][Next]_vars
=============================================================================
