-------------------------------- MODULE Dial --------------------------------
(***************************************************************************)
(* What a scan relies on when it asks for a tunnel: in the end there is an *)
(* open descriptor or none, and the one that was opened on the way to a    *)
(* failure has been closed.  ScanBase takes its tunnels in one such step.  *)
(***************************************************************************)
VARIABLES
  state,  \* "dialing", "up" or "down"
  open    \* the descriptor of the tunnel is open

vars == <<state, open>>

Init == state = "dialing" /\ open = FALSE

GetSocket == state = "dialing" /\ ~open /\ open' = TRUE /\ state' = state

Succeed == state = "dialing" /\ open /\ state' = "up" /\ open' = open

Fail == state = "dialing" /\ state' = "down" /\ open' = FALSE

Next == GetSocket \/ Succeed \/ Fail

Spec == Init /\ [][Next]_vars
=============================================================================
