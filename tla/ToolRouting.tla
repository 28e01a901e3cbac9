---------------------------- MODULE ToolRouting ----------------------------
(***************************************************************************)
(* What a request's tools and words activate (capability_router.c), and    *)
(* which tool intents the bridge's policy lets through (tool_policy.c).     *)
(*                                                                         *)
(* Words are abstracted to what the router looks for: a strong keyword, a   *)
(* verb near a noun, a sign of code or markup, a lone mention.              *)
(***************************************************************************)
EXTENDS Integers

Capabilities == {"image", "computer"}

\* what one request says about one capability
Requests ==
  { q \in [cap : Capabilities,
           tools : BOOLEAN,      \* tool_defs_json holds an array
           named : BOOLEAN,      \* tool_choice names one of its tools
           defined : BOOLEAN,    \* a tool of its type is defined
           strong : BOOLEAN, near : BOOLEAN, negative : BOOLEAN, mention : BOOLEAN] :
      q.defined => q.tools }

\* RouteConfidence
Denied == 0
Weak == 1
Confirmed == 2

\* a lone mention counts for images only
Intent(q) ==
    CASE q.strong                -> Confirmed
      [] ~q.strong /\ q.near     -> IF q.negative THEN Weak ELSE Confirmed
      [] OTHER                   ->
           IF q.cap = "image" /\ q.mention /\ ~q.negative THEN Weak ELSE Denied

AtLeastWeak(level) == IF level = Denied THEN Weak ELSE level

\* words alone count; weak ones are kept for images only
WordsAlone(q) ==
    IF q.cap = "computer" /\ Intent(q) # Confirmed THEN Denied ELSE Intent(q)

Confidence(q) ==
    IF q.named THEN Confirmed
    ELSE IF q.defined THEN AtLeastWeak(Intent(q))
    ELSE WordsAlone(q)

Mentioned(q) == Confidence(q) >= Weak
Active(q)    == Confidence(q) >= Confirmed

\* handle_response_native asks the router for a request with tools only
Routed(q) == q.tools /\ Active(q)

-----------------------------------------------------------------------------
Tools == {"unnamed", "shell", "shell_command", "google_search", "browse_url", "other"}

\* one string field of the tool's own name, other text, or nothing
Args == {"field", "other", "empty"}

Calls == [tool : Tools, args : Args]

IsDenied(c)  == c.tool = "shell"
ArgsValid(c) ==
    /\ c.tool # "unnamed" /\ c.args # "empty"
    /\ c.tool \in {"google_search", "browse_url", "shell_command"} => c.args = "field"

=============================================================================
