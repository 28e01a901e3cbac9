-------------------------- MODULE MCTurnProtocol --------------------------
(* Small values for the constants of TurnProtocol. *)
EXTENDS TurnProtocol

NoPlan    == {<<>>}
SomePlans == {<<"error", "create_state">>, <<"save_state", "switch_state">>}
Never     == {FALSE}
Maybe     == BOOLEAN

\* every text quotes "req-30", which holds "req-3": what is left of the first two
\* turns passes in the third, what is left of the first does not in the second
Quoting   == {{30}}
NoQuote   == {{}}

=============================================================================
