---------------------------- MODULE StreamOrder ----------------------------
(***************************************************************************)
(* What a harness may rely on when it reads one stream after another.      *)
(* A stream opens with three events, shows text, and ends either with the  *)
(* four closing events, all holding exactly the text shown before, and the *)
(* [DONE] marker, or with one failure event.  Events are numbered from 0   *)
(* without gaps, nothing follows the end, and a client that left sees no   *)
(* more than it had.  AnswerDelivery implements it.                        *)
(***************************************************************************)
EXTENDS Integers, Sequences

CONSTANTS Texts     \* the texts a delta may hold

VARIABLES
    open,       \* a stream is being written
    wire,       \* the events its client was sent
    next,       \* the number of the next event
    shown,      \* the text shown so far
    gone        \* the client closed the connection

ovars == <<open, wire, next, shown, gone>>

-----------------------------------------------------------------------------
Event(t, n, x, m) == [type |-> t, seq |-> n, text |-> x, mark |-> m]

Opening  == <<"response.created", "response.output_item.added",
              "response.content_part.added">>
Closing  == <<"response.output_text.done", "response.content_part.done",
              "response.output_item.done">>
Failures == {"response.failed", "response.error"}
\* what an event on a stream may be
Types    == { Opening[i] : i \in 1..Len(Opening) } \cup { Closing[i] : i \in 1..Len(Closing) }
            \cup Failures \cup {"response.output_text.delta", "response.completed", "[DONE]"}
Marks    == {"", "max_turn_events", "max_output_buffer"}

\* events of types ts, numbered from n, each with text x
Numbered(ts, n, x) == [i \in 1..Len(ts) |-> Event(ts[i], n + i - 1, x, "")]

\* the end of a stream that completes with text x; a mark says it was cut
Completion(n, x, m) ==
    Numbered(Closing, n, x)
      \o <<Event("response.completed", n + Len(Closing), x, m),
           Event("[DONE]", 0, <<>>, "")>>

\* es is put on the wire, unless nobody is at its other end
Put(es) == wire' = IF gone THEN wire ELSE wire \o es

-----------------------------------------------------------------------------
OInit ==
    /\ open = FALSE /\ wire = <<>> /\ next = 0 /\ shown = <<>> /\ gone = FALSE

Open ==
    /\ ~open /\ open' = TRUE
    /\ wire' = Numbered(Opening, 0, <<>>) /\ next' = Len(Opening)
    /\ shown' = <<>> /\ gone' = FALSE

Show(x) ==
    /\ open
    /\ Put(<<Event("response.output_text.delta", next, x, "")>>)
    /\ next' = next + 1 /\ shown' = shown \o x
    /\ UNCHANGED <<open, gone>>

Complete ==
    /\ open /\ open' = FALSE
    /\ \E m \in Marks : Put(Completion(next, shown, m))
    /\ next' = next + Len(Closing) + 1
    /\ UNCHANGED <<shown, gone>>

Fail ==
    /\ open /\ open' = FALSE
    /\ \E e \in Failures : Put(<<Event(e, next, <<>>, "")>>)
    /\ next' = next + 1
    /\ UNCHANGED <<shown, gone>>

Leave == open /\ gone' = TRUE /\ UNCHANGED <<open, wire, next, shown>>

ONext == Open \/ (\E x \in Texts : Show(x)) \/ Complete \/ Fail \/ Leave
OSpec == OInit /\ [][ONext]_ovars

=============================================================================
