----------------------------- MODULE ScanBatch -----------------------------
(***************************************************************************)
(* What a batch of requests promises whoever started it (ExecCppScan and   *)
(* its siblings, ScanFunc.cs): one answer per word, in order, and a result *)
(* file that holds them all, unless the batch is abandoned or its save     *)
(* fails.                                                                  *)
(***************************************************************************)
EXTENDS Integers

CONSTANT NPaths
VARIABLES
  phase,     \* "open", "saved" (the file is written), "lost" (there is none)
             \* or "torn" (a part of it is)
  count,     \* answers collected
  cancelled, \* the caller has cancelled the token
  drawn      \* the loaded delay is one a wait can be drawn from

vars == <<phase, count, cancelled, drawn>>

Init == phase = "open" /\ count = 0 /\ cancelled = FALSE /\ drawn \in BOOLEAN

CancelBatch ==
  /\ ~cancelled
  /\ cancelled' = TRUE
  /\ UNCHANGED <<phase, count, drawn>>

AddResult ==
  /\ phase = "open" /\ count < NPaths
  /\ count' = count + 1
  /\ UNCHANGED <<phase, cancelled, drawn>>

Save ==
  /\ phase = "open" /\ count = NPaths
  /\ phase' = "saved"
  /\ UNCHANGED <<count, cancelled, drawn>>

\* The save throws, before the file is there or in the middle of it.
LoseSave ==
  /\ phase = "open" /\ count = NPaths
  /\ phase' \in {"lost", "torn"}
  /\ UNCHANGED <<count, cancelled, drawn>>

\* An exception leaves the loop: the answers collected so far go with it.
Abandon ==
  /\ phase = "open" /\ count < NPaths
  /\ cancelled \/ ~drawn
  /\ phase' = "lost"
  /\ UNCHANGED <<count, cancelled, drawn>>

Next == CancelBatch \/ AddResult \/ Save \/ LoseSave \/ Abandon

Spec == Init /\ [][Next]_vars
=============================================================================
