--------------------------- MODULE SessionClaims ---------------------------
(* Statements of the documents about sessions that the code does not keep.  *)
EXTENDS Sessions

\* HARNESS_CONTRACT.md:59 has turns of one previous_response_id share native
\* state, and line 129 has a turn fail when its state cannot be switched to.  The
\* code never creates a state for such a conversation, reports that it is missing
\* (turn_context.c:207) and sends the request all the same, in whatever session
\* the agent is in.
OwnConversation ==
    LET f == Head(inbox) IN
    inbox # <<>> /\ f.op = "request" /\ f.asked.name \in Asked /\ f.asked.wraps = 0
        /\ canLoad /\ late # starts => active = Key(f.asked)

=============================================================================
