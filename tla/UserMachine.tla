---- MODULE UserMachine ----
(* What the modules about whole commands share: the places lnget is run    *)
(* from on one user's machine, and what may go wrong there.                *)

CONSTANTS
  Terminals,  \* where commands are run; each runs one process at a time
  Faults,     \* what may go wrong in this instance
  None        \* no session, no path, no setting

FaultKinds ==
  { "disk",      \* a file cannot be opened or written
    "network",   \* the server, or the connection to it, fails
    "reject",    \* the server takes a paid token no longer
    "kill" }     \* a process dies between two of its steps

ASSUME MachineAssumption ==
  /\ Faults \subseteq FaultKinds
  /\ None \notin Terminals
====
