-------------------------------- MODULE OneNode --------------------------------
(***************************************************************************)
(* What the SOCKS5 core promises to the application around it: it runs one *)
(* node at a time, or none.  The port is open only while a node runs, and  *)
(* it is closed before the node is left, so that no client is accepted for *)
(* a node that is gone, or for the next one by the listener of the last.   *)
(***************************************************************************)
CONSTANT Runs   \* each stands for one start of one node

VARIABLES
  running,  \* the runs that keep connections to their server
  serving   \* a client can connect

vars == <<running, serving>>

Init == running = {} /\ serving = FALSE

Run(r) ==
  /\ running = {} /\ ~serving
  /\ running' = {r}
  /\ UNCHANGED serving

Serve ==
  /\ running # {} /\ ~serving
  /\ serving' = TRUE
  /\ UNCHANGED running

Withdraw ==
  /\ serving
  /\ serving' = FALSE
  /\ UNCHANGED running

Leave ==
  /\ running # {} /\ ~serving
  /\ running' = {}
  /\ UNCHANGED serving

Next == (\E r \in Runs : Run(r)) \/ Serve \/ Withdraw \/ Leave

Spec == Init /\ [][Next]_vars

(* Where the process it runs in may end. *)
ProcessEnds == running' = {} /\ serving' = FALSE

HostedSpec == Init /\ [][Next \/ ProcessEnds]_vars
=============================================================================
