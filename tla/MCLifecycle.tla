---------------------------- MODULE MCLifecycle ----------------------------
(* A few files, variables and flags: a port of each source, a wrong value of *)
(* each kind, and every transport and owner.                                 *)
EXTENDS Lifecycle

None == [s \in {} |-> 0]
Files == {None, [port |-> 2], [port |-> 9], [sound |-> FALSE], [owner |-> "other"],
          [port |-> 2, transport |-> "stdio", framed |-> TRUE], [path |-> "bad parent"],
          [path |-> "good", owner |-> "launch_and_connect"], [path |-> "good"],
          [path |-> "in workspace"], [path |-> "in cwd"]}
Envs  == {None, [port |-> 0], [port |-> 3], [port |-> 9]}
Flags == {None, [port |-> 4], [port |-> 0], [port |-> 8], [transport |-> "other"], [transport |-> "uds"],
          [path |-> "bad"],
          [transport |-> "uds", owner |-> "bridge_listen", path |-> "good"]}

MCInputs ==
    [found : {TRUE}, no_config : {FALSE}, file : Files, env : Envs, flags : Flags, agent : {"other"}]
    \cup [found : BOOLEAN, no_config : BOOLEAN, file : {[port |-> 2], [path |-> "bad parent"]},
          env : Envs, flags : {None}, agent : Agents]
=============================================================================
