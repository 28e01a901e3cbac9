----------------------------- MODULE Ds4Wrapper -----------------------------
(***************************************************************************)
(* The wrapper's main thread and the ds4 process behind it: prompts and     *)
(* commands go to the process one line each, what it prints comes back      *)
(* through a terminal, and nothing but the marker +DWARFSTAR_WAITING says   *)
(* where the output of one command ends.  A turn may restart the process,   *)
(* for a fresh context or for another reasoning effort.                     *)
(*                                                                         *)
(* Text is left out: a line is the command it answers, or the marker.       *)
(* Time is left out: a deadline may pass at any moment of a wait.  Frames   *)
(* about session states, which touch a table only, are those of Sessions.   *)
(***************************************************************************)
EXTENDS Integers, Sequences, FiniteSets

CONSTANTS
    MaxRequests,        \* bound
    MaxContinuations,   \* MAX_CONTINUATIONS, 5 in the code
    MaxLines,           \* bound: lines printed for a command
    MaxDeaths,          \* bound: times ds4 dies by itself
    Efforts,            \* reasoning efforts a request may name
    NoEffort            \* a request that names none

ASSUME Ds4Bounds ==
    /\ MaxRequests \in Nat /\ MaxContinuations \in Nat
    /\ MaxLines \in Nat /\ MaxDeaths \in Nat /\ NoEffort \notin Efforts

VARIABLES
    \* the wrapper
    pc,                 \* "launch", "idle", "save", "switch", "prompt", "stream", "judge", "ended"
    cur,                \* the request it works on; number 0 before the first
    session,            \* there is a session object
    current,            \* _current_reasoning_effort
    savedId,            \* saved_sha
    conts,              \* continuation_count
    taken,              \* the commands whose lines were taken, in save or for this turn
    writing,            \* the last command is not all in the pipe, which is full
    \* the process
    ds4,                \* "none", "starting", "up", "dead"
    flag, home,         \* how it was launched
    input, busy, said,  \* commands to come, the one it works on, lines printed for it
    lines,              \* what it printed and nobody took yet
    mem,                \* the requests its context holds
    kept,               \* the contexts it saved, each in a home under an id
    deaths,
    \* history
    late,               \* a wait was given up since ds4 was launched
    faithful, told,     \* nothing failed since the last reset, prompts read since
    epoch, born         \* the requests of the last reset and the last launch

turnVars == <<cur, conts, taken, writing>>
wrapperVars == <<session, current, savedId>>
processVars == <<flag, home, mem>>
outputVars == <<input, busy, said, lines>>
saveVars == <<kept, deaths>>
history == <<late, faithful, told, epoch, born>>
vars == <<pc, turnVars, wrapperVars, ds4, processVars, outputVars, saveVars, history>>

NoId  == -1             \* None
Bogus == -2             \* a word of an error message that looks like an id

Requests == [of : 0..MaxRequests, effort : Efforts \cup {NoEffort}, reset : BOOLEAN]
Command(kind, id) == [kind |-> kind, of |-> cur.of, effort |-> cur.effort, id |-> id]
Nothing == [kind |-> "nothing", of |-> 0, effort |-> NoEffort, id |-> NoId]
Marker == [kind |-> "marker", of |-> 0, effort |-> NoEffort, id |-> NoId]

Init ==
    /\ pc = "launch" /\ cur = [of |-> 0, effort |-> NoEffort, reset |-> FALSE]
    /\ conts = 0 /\ taken = {} /\ writing = FALSE /\ session = TRUE /\ current = NoEffort /\ savedId = NoId
    /\ ds4 = "starting" /\ flag = NoEffort /\ home = 0 /\ mem = {}
    /\ input = <<>> /\ busy = Nothing /\ said = 0 /\ lines = <<>>
    /\ kept = {} /\ deaths = 0
    /\ late = FALSE /\ faithful = TRUE /\ told = {} /\ epoch = 0 /\ born = 0

-----------------------------------------------------------------------------
(* The process, as the wrapper uses it.                                    *)

\* the process is up and writes its first marker
Starts ==
    /\ ds4 = "starting" /\ ds4' = "up" /\ lines' = <<Marker>>
    /\ UNCHANGED <<pc, turnVars, wrapperVars, processVars, input, busy, said, saveVars, history>>

\* it reads enough for the wrapper's write to end; it need not
Reads ==
    /\ ds4 = "up" /\ writing /\ writing' = FALSE
    /\ UNCHANGED <<pc, cur, conts, taken, wrapperVars, ds4, processVars, outputVars,
                   saveVars, history>>

\* /switch to an id this home does not know changes nothing
Restored(c) == {k.mem : k \in {s \in kept : s.home = home /\ s.id = c.id}}

Takes ==
    /\ ds4 = "up" /\ busy = Nothing /\ input # <<>>
    /\ writing => Len(input) > 1
    /\ LET c == Head(input) IN
       /\ busy' = c /\ input' = Tail(input) /\ said' = 0
       /\ mem' = CASE c.kind = "prompt" -> mem \cup {c.of}
                   [] c.kind = "switch" /\ Restored(c) # {} -> UNION Restored(c)
                   [] OTHER -> mem
       /\ kept' = IF c.kind = "save" THEN kept \cup {[home |-> home, id |-> c.of, mem |-> mem]}
                  ELSE kept
       /\ told' = IF c.kind = "prompt" THEN told \cup {c.of} ELSE told
    /\ UNCHANGED <<pc, turnVars, wrapperVars, ds4, flag, home, lines, deaths,
                   late, faithful, epoch, born>>

\* a save prints its id, a prompt or a switch anything or nothing
Prints ==
    /\ ds4 = "up" /\ busy # Nothing /\ said < MaxLines
    /\ lines' = Append(lines, busy) /\ said' = said + 1
    /\ UNCHANGED <<pc, turnVars, wrapperVars, ds4, processVars, input, busy, saveVars, history>>

Waits ==
    /\ ds4 = "up" /\ busy # Nothing /\ (busy.kind = "save" => said > 0)
    /\ lines' = Append(lines, Marker) /\ busy' = Nothing /\ said' = 0
    /\ UNCHANGED <<pc, turnVars, wrapperVars, ds4, processVars, input, saveVars, history>>

\* what it printed and nobody took is lost: the wrapper asks proc.poll() first
Dies ==
    /\ ds4 \in {"starting", "up"} /\ deaths < MaxDeaths
    /\ ds4' = "dead" /\ deaths' = deaths + 1 /\ faithful' = FALSE
    /\ input' = <<>> /\ busy' = Nothing /\ said' = 0 /\ lines' = <<>>
    /\ UNCHANGED <<pc, turnVars, wrapperVars, processVars, kept, late, told, epoch, born>>

Process == Starts \/ Reads \/ Takes \/ Prints \/ Waits \/ Dies

-----------------------------------------------------------------------------
(* Starting it and ending it.                                              *)

\* a new session object has a terminal, a reader and a queue of its own
Launch(e, h) ==
    /\ pc' = "launch" /\ session' = TRUE
    /\ ds4' = "starting" /\ flag' = e /\ home' = h /\ mem' = {}
    /\ input' = <<>> /\ busy' = Nothing /\ said' = 0 /\ lines' = <<>>
    /\ late' = FALSE /\ born' = cur'.of

\* write and flush, which return once the pipe holds the whole line
Send(c) == input' = Append(input, c) /\ writing' \in BOOLEAN

\* apply_effort_change launches ds4 again where the old one saved
DefaultHome == 0
OldHome == IF session THEN home ELSE 0

Relaunch(id) ==
    /\ savedId' = id /\ taken' = {} /\ Launch(cur'.effort, OldHome)

MarkerLeft == lines
AfterMarker == Tail(lines)

\* the effort is remembered once ds4 runs with it; a reset remembers it too
KeepsOldEffort == IF cur.reset THEN current ELSE cur.effort
NewEffort == cur.effort

Started ==
    /\ pc = "launch" /\ ds4 = "up" /\ lines # <<>> /\ lines' = AfterMarker
    /\ \/ cur.of = 0 /\ pc' = "idle" /\ UNCHANGED <<current, input, writing>>
       \/ cur.of > 0 /\ (cur.reset \/ savedId = NoId)
          /\ pc' = "prompt" /\ current' = NewEffort /\ UNCHANGED <<input, writing>>
       \/ cur.of > 0 /\ ~cur.reset /\ savedId # NoId
          /\ pc' = "switch" /\ Send(Command("switch", savedId)) /\ UNCHANGED current
    /\ UNCHANGED <<cur, conts, taken, session, savedId, ds4, processVars, busy, said,
                   saveVars, history>>

\* the process ended or is too slow: a turn that changes the effort fails with
\* an error and leaves no session, any other start ends the wrapper
StartFails ==
    /\ pc = "launch" /\ session' = FALSE /\ ds4' = "none"
    /\ pc' = IF cur.of > 0 /\ ~cur.reset THEN "idle" ELSE "ended"
    /\ input' = <<>> /\ busy' = Nothing /\ said' = 0 /\ lines' = <<>> /\ mem' = {}
    /\ faithful' = FALSE
    /\ UNCHANGED <<turnVars, current, savedId, flag, home, saveVars, late, told, epoch, born>>

-----------------------------------------------------------------------------
(* A turn.                                                                 *)

\* reset_session: nothing of the old process is saved or switched to
Reset ==
    /\ cur'.reset /\ taken' = {} /\ savedId' = NoId /\ Launch(cur'.effort, cur'.of)
    /\ faithful' = TRUE /\ told' = {} /\ epoch' = cur'.of
    /\ UNCHANGED <<current, writing>>

Changes(e) == e \notin {NoEffort, current}

ChangeEffort ==
    /\ ~cur'.reset /\ Changes(cur'.effort) /\ UNCHANGED <<current, faithful, told, epoch>>
    /\ \/ session /\ ds4 = "up" /\ pc' = "save" /\ taken' = {}
          /\ Send([kind |-> "save", of |-> cur'.of, effort |-> cur'.effort, id |-> cur'.of])
          /\ UNCHANGED <<session, savedId, ds4, processVars, busy, said, lines, late, born>>
       \* the write fails, or there is no session
       \/ ~(session /\ ds4 = "up") /\ Relaunch(NoId) /\ UNCHANGED writing

KeepEffort ==
    /\ ~cur'.reset /\ ~Changes(cur'.effort) /\ pc' = "prompt" /\ taken' = {}
    /\ current' = cur'.effort
    /\ UNCHANGED <<writing, session, savedId, ds4, processVars, outputVars, history>>

TakeRequest ==
    /\ pc = "idle" /\ cur.of < MaxRequests /\ UNCHANGED conts
    /\ \E r \in Requests : r.of = cur.of + 1 /\ cur' = r
    /\ Reset \/ ChangeEffort \/ KeepEffort
    /\ UNCHANGED saveVars

\* without a session, or with a dead process, the answer is an error text
Prompt ==
    /\ pc = "prompt"
    /\ \/ session /\ ds4 = "up" /\ pc' = "stream" /\ Send(Command("prompt", 0))
       \/ ~(session /\ ds4 = "up") /\ pc' = "judge" /\ UNCHANGED <<input, writing>>
    /\ UNCHANGED <<cur, conts, taken, wrapperVars, ds4, processVars, busy, said, lines,
                   saveVars, history>>

\* what _parse_saved_session_id finds in the output of /save; none if the write failed
SavedIds ==
    IF writing THEN {NoId} ELSE IF ds4 = "dead" \/ taken = {} THEN {Bogus}
    ELSE LET own == {c \in taken : c.kind = "save"} IN
         {c.id : c \in own} \cup (IF own = taken THEN {} ELSE {Bogus})
                           \cup (IF own = {} THEN {NoId} ELSE {})

\* the output of a command is over, or is taken to be
EndWait ==
    /\ writing' = FALSE
    /\ \/ pc = "save" /\ \E id \in SavedIds :
             savedId' = id /\ taken' = {} /\ Launch(cur.effort, OldHome) /\ UNCHANGED <<conts, current>>
       \/ pc = "switch" /\ pc' = "prompt" /\ current' = cur.effort
             /\ UNCHANGED <<taken, conts, session, savedId, ds4, processVars, input, busy, said, born>>
       \/ pc = "stream" /\ pc' = "judge"
             /\ UNCHANGED <<taken, conts, wrapperVars, ds4, processVars, input, busy, said, born>>

InCommand == pc \in {"save", "switch", "stream"}
Waiting == InCommand /\ ~writing

\* a line of the output; tool transcripts and long listings are not shown
ReadLine ==
    /\ Waiting /\ ds4 = "up" /\ lines # <<>> /\ Head(lines) # Marker /\ lines' = Tail(lines)
    /\ taken' \in IF pc = "save" THEN {taken \cup {Head(lines)}}
                  ELSE IF pc = "stream" THEN {taken, taken \cup {Head(lines)}} ELSE {taken}
    /\ UNCHANGED <<pc, cur, conts, writing, wrapperVars, ds4, processVars, input, busy, said,
                   saveVars, history>>

ReadMarker ==
    /\ Waiting /\ ds4 = "up" /\ lines # <<>> /\ Head(lines) = Marker
    /\ UNCHANGED cur /\ EndWait
    /\ pc # "save" => lines' = Tail(lines) /\ late' = late
    /\ UNCHANGED <<saveVars, faithful, told, epoch>>

\* the deadline of a wait passes, whatever ds4 does; it starts after the write
TimedTurnsOnly == {"stream"}
Timed == {"save", "switch", "stream"}

GiveUp ==
    /\ pc \in Timed /\ ~writing /\ ds4 = "up" /\ UNCHANGED cur /\ EndWait /\ faithful' = FALSE
    /\ pc # "save" => lines' = lines /\ late' = TRUE
    /\ UNCHANGED <<saveVars, told, epoch>>

\* poll() tells that ds4 ended, or the write fails
SeesExit ==
    /\ InCommand /\ ds4 = "dead" /\ UNCHANGED cur /\ EndWait
    /\ pc # "save" => lines' = lines /\ late' = late
    /\ UNCHANGED <<saveVars, faithful, told, epoch>>

\* an answer that looks like a plan is continued, else the response is sent
OneMore == conts <= MaxContinuations
MayContinue == conts < MaxContinuations

Judge ==
    /\ pc = "judge"
    /\ \/ MayContinue /\ conts' = conts + 1 /\ pc' = "prompt" /\ UNCHANGED taken
       \/ pc' = "idle" /\ taken' = {} /\ conts' = 0
    /\ UNCHANGED <<cur, writing, wrapperVars, ds4, processVars, outputVars, saveVars, history>>

\* shutdown, or the bridge closed its end
Finish ==
    /\ pc = "idle" /\ pc' = "ended" /\ session' = FALSE /\ ds4' = "none"
    /\ input' = <<>> /\ busy' = Nothing /\ said' = 0 /\ lines' = <<>>
    /\ UNCHANGED <<turnVars, current, savedId, processVars, saveVars, history>>

Wrapper == Started \/ StartFails \/ Prompt \/ ReadLine \/ ReadMarker \/ GiveUp \/ SeesExit \/ Judge
Next == Process \/ Wrapper \/ TakeRequest \/ Finish

Spec == Init /\ [][Next]_vars
\* every wait for output has a deadline and ds4 may hang; a write to it has none,
\* and that ds4 Reads is not assumed.  What the wrapper writes to the bridge is read
FairSpec == Spec /\ WF_vars(Wrapper)

-----------------------------------------------------------------------------
(* Properties.                                                             *)

Commands == [kind : {"nothing", "marker", "prompt", "save", "switch"}, of : 0..MaxRequests,
             effort : Efforts \cup {NoEffort}, id : {NoId, Bogus} \cup 0..MaxRequests]

\* Every variable keeps its type, and ds4 works on nothing when it is not up.
TypeOK ==
    /\ pc \in {"launch", "idle", "save", "switch", "prompt", "stream", "judge", "ended"}
    /\ cur \in Requests /\ session \in BOOLEAN /\ current \in Efforts \cup {NoEffort}
    /\ savedId \in {NoId, Bogus} \cup 1..MaxRequests /\ conts \in 0..MaxContinuations
    /\ taken \subseteq Commands /\ (writing => InCommand) /\ ds4 \in {"none", "starting", "up", "dead"}
    /\ flag \in Efforts \cup {NoEffort} /\ home \in 0..MaxRequests
    /\ input \in Seq(Commands) /\ busy \in Commands /\ said \in 0..MaxLines
    /\ lines \in Seq(Commands) /\ mem \subseteq 1..MaxRequests
    /\ \A k \in kept : k.home \in 0..MaxRequests /\ k.id \in 1..MaxRequests
                       /\ k.mem \subseteq 1..MaxRequests
    /\ deaths \in 0..MaxDeaths /\ late \in BOOLEAN /\ faithful \in BOOLEAN
    /\ told \subseteq 1..MaxRequests /\ epoch \in 0..MaxRequests /\ born \in 0..MaxRequests
    /\ busy # Nothing => ds4 = "up"

\* What a turn shows is output of its own prompts.  Once a wait was given up,
\* the process may still print what an earlier turn asked for, and it is shown;
\* a restart puts an end to that (stream_prompt_with_deltas takes whatever the
\* reader's queue holds).
OwnLines ==
    pc \in {"stream", "judge"} =>
        \A c \in taken : c.of >= born /\ (~late => c.kind = "prompt" /\ c.of = cur.of)

\* When ds4 works on a prompt, its context goes back to the last reset at most,
\* whatever failed since; and if nothing did, it holds every prompt since then,
\* across restarts for another effort (apply_effort_change: "preserving context
\* via /save + /switch"; main: "reset_session means fresh native context").
ContextFollows ==
    busy.kind = "prompt" =>
        /\ \A r \in mem : r >= epoch
        /\ faithful => mem = told

\* A prompt is read by a ds4 that was launched with the effort its request
\* names, though the wrapper forgets the effort whenever a request names none
\* and keeps the old one when a restart fails (main's _current_reasoning_effort).
EffortAsked ==
    busy.kind = "prompt" /\ busy.effort # NoEffort => flag = busy.effort

\* Every request is answered, or the wrapper ends, even if ds4 hangs or dies in
\* any wait (the deadlines of readline, and the polls for its exit), unless the
\* wrapper stays for ever in a write to a ds4 that runs and reads no more: write
\* and flush in stream_prompt_with_deltas, save_session and switch_session have
\* no deadline.
StuckInWrite == writing /\ ds4 = "up"
RequestsEnd == pc \notin {"idle", "ended"} ~> (pc \in {"idle", "ended"} \/ []StuckInWrite)
=============================================================================
