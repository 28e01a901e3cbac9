---------------------------- MODULE MCToolLoop ----------------------------
(* Values for the constants of ToolLoop.                                   *)
EXTENDS ToolLoop

\* one tool denied, one with the wrong arguments, one that may run
MCOffered == { [tool |-> "shell", args |-> "field"],
               [tool |-> "google_search", args |-> "other"],
               [tool |-> "shell_command", args |-> "field"] }
=============================================================================
