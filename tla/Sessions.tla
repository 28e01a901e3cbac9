------------------------------ MODULE Sessions ------------------------------
(***************************************************************************)
(* Which native session a request runs in, and what the session index      *)
(* remembers of it: the session part of turn_begin, the state operations   *)
(* of the engine, the save after a response, the index in memory and its   *)
(* file, and the agent's active session.  The bridge starts its agent, and *)
(* both may stop at any moment and start again, in the same or another     *)
(* workspace and with the same or another model.                           *)
(*                                                                         *)
(* The agent takes what the bridge sends in order and accepts everything,  *)
(* as agent/ds4_wrapper.py does; a read of the bridge times out on an      *)
(* empty channel, at any moment.  A turn after its request was sent is one *)
(* answer here: TurnProtocol is about the rest of it.                      *)
(***************************************************************************)
EXTENDS Naturals, Sequences, FiniteSets

CONSTANTS
    Asked,          \* names clients use as previous_response_id
    Resets,         \* bound: names of reset sessions, reset_<time>
    Workspaces, Models,
    Hash,           \* Hash[w]: the workspace's part of a key
    CanLoads,       \* auto_load_project_session, unless the policy is manual
    AutoSaves,      \* values of auto_save_kv_cache
    MaxEntries,     \* SESSION_INDEX_MAX_ENTRIES
    FileEntries,    \* entries that fit the buffer load_session_index reads into
    MaxTurns,       \* bound: turns of one process
    MaxStarts       \* bound: starts of the bridge

ASSUME SessionBounds ==
    /\ MaxEntries \in Nat /\ FileEntries \in Nat
    /\ MaxTurns \in Nat /\ MaxStarts \in Nat \ {0}
ASSUME SessionChoices ==
    /\ Workspaces # {} /\ Models # {} /\ Hash \in [Workspaces -> Nat]
    /\ CanLoads \subseteq BOOLEAN /\ CanLoads # {}
    /\ AutoSaves \subseteq BOOLEAN /\ AutoSaves # {}
    /\ "" \notin Asked \cup Resets /\ "default" \notin Resets

VARIABLES
    starts, ws, model, canLoad, autoSave,   \* this process and its configuration
    index, dirty,       \* s_index as a function of keys, s_index_dirty
    file,               \* the index file: complete or not, and its last entries
    last,               \* eng->last_session_id
    pc, plan, turns,    \* the server thread, operations left, turns so far
    usedResets,
    inbox, outbox,      \* the channels to and from the agent
    active,             \* the agent's _active_session_key
    \* history, read by properties only: whether this process has read the
    \* index, and the latest process in which a read timed out (0: none)
    loaded, late

configVars == <<starts, ws, model, canLoad, autoSave>>
indexVars  == <<index, dirty, loaded>>
turnVars   == <<last, pc, plan, turns, usedResets>>
wireVars   == <<inbox, outbox, active>>
vars == <<configVars, indexVars, file, turnVars, wireVars, late>>

-----------------------------------------------------------------------------
(* Session ids and keys.  A key is the hash of the workspace and an id; the *)
(* code also uses keys as ids, so an id says how many keys it is wrapped in. *)

SessionId(n) == [name |-> n, wraps |-> 0]
NoId         == SessionId("")
Default      == SessionId("default")

\* session_key_for, compute_session_key
Key(i) == [hash |-> Hash[ws], id |-> i]
NoKey  == [hash |-> 0, id |-> NoId]

\* a key where an id is expected
AsId(k) == [name |-> k.id.name, wraps |-> k.id.wraps + 1]

NoState      == [key |-> NoKey, agent |-> 0]

-----------------------------------------------------------------------------
(* The session index.                                                      *)

NoEntries == [k \in {} |-> 0]

Readable == file.complete /\ Cardinality(DOMAIN file.entries) <= FileEntries

\* what load_session_index makes of the file
OneShort ==
    IF Readable /\ file.entries # NoEntries
    THEN [k \in DOMAIN file.entries \ {CHOOSE j \in DOMAIN file.entries : TRUE}
            |-> file.entries[k]]
    ELSE NoEntries
Parsed == IF Readable THEN file.entries ELSE NoEntries

LoadIndex == index' = Parsed /\ dirty' = FALSE /\ loaded' = TRUE

\* the guards on the stored workspace and model
Fits(e) == e.ws \in {"", ws} /\ e.model \in {"", model}

OverFull(m) == Cardinality(DOMAIN m) > MaxEntries
Full(m)     == Cardinality(DOMAIN m) >= MaxEntries

Stored(m, k, e) == [j \in DOMAIN m \cup {k} |-> IF j = k THEN e ELSE m[j]]

\* session_index_update: an empty workspace or model keeps the stored one
Updated(m, k, e) ==
    IF k \notin DOMAIN m THEN IF Full(m) THEN m ELSE Stored(m, k, e)
    ELSE Stored(m, k, [sid   |-> e.sid,
                       ws    |-> IF e.ws = "" THEN m[k].ws ELSE e.ws,
                       model |-> IF e.model = "" THEN m[k].model ELSE e.model])

Takes(m, k) == k \in DOMAIN m \/ ~Full(m)

-----------------------------------------------------------------------------
Init ==
    /\ starts = 1 /\ ws \in Workspaces /\ model \in Models
    /\ canLoad \in CanLoads /\ autoSave \in AutoSaves
    /\ index = NoEntries /\ dirty = FALSE /\ loaded = FALSE
    /\ file = [complete |-> FALSE, entries |-> NoEntries]   \* no file yet
    /\ last = NoId /\ pc = "idle" /\ plan = <<>> /\ turns = 0 /\ usedResets = {}
    /\ inbox = <<>> /\ outbox = <<>> /\ active = NoKey
    /\ late = 0

\* the bridge and its agent stop, wherever they are, and are started again
Restart ==
    /\ starts < MaxStarts /\ starts' = starts + 1
    /\ ws' \in Workspaces /\ model' \in Models
    /\ canLoad' \in CanLoads /\ autoSave' \in AutoSaves
    /\ index' = NoEntries /\ dirty' = FALSE /\ loaded' = FALSE
    /\ last' = NoId /\ pc' = "idle" /\ plan' = <<>> /\ turns' = 0
    /\ inbox' = <<>> /\ outbox' = <<>> /\ active' = NoKey
    /\ UNCHANGED <<file, usedResets, late>>

-----------------------------------------------------------------------------
(* turn_begin.  An operation of the plan names the session, the state id   *)
(* from the index, and the value last_session_id gets if it is accepted.   *)

Op(t, k, to)  == [op |-> t, key |-> k, becomes |-> to]
Report        == <<Op("error", NoKey, NoId)>>   \* engine_send_error

Begin(ps, l) ==
    /\ pc = "idle" /\ turns < MaxTurns
    /\ turns' = turns + 1 /\ pc' = "plan"
    /\ plan' = ps /\ last' = l
    /\ UNCHANGED <<configVars, file, wireVars, late>>

\* a reset creates a session of its own; the index is not read first
BeginReset ==
    /\ \E r \in Resets \ usedResets :
         /\ usedResets' = usedResets \cup {r}
         /\ Begin(<<Op("create", Key(SessionId(r)), SessionId(r))>>, last)
    /\ UNCHANGED indexVars

\* The session asked for, or the latest one, is not the engine's: the old one
\* is saved, and the other one restored if the index has it.
SaveOld(old) == IF old \in DOMAIN index' /\ autoSave
                THEN <<Op("save", old, NoId)>> ELSE <<>>

NoSwitch(k) == <<>>
SwitchTo(k) ==
    IF k \in DOMAIN index' /\ canLoad THEN <<Op("switch", k, NoId)>>
    ELSE IF canLoad THEN Report ELSE <<>>

LoadFirst(k) ==
    IF k \in DOMAIN index' /\ canLoad
    THEN IF Fits(index'[k]) THEN <<Op("load", k, NoId)>> ELSE Report
    ELSE IF canLoad THEN Report ELSE <<>>

\* without an id in the request the latest session goes on; whatever becomes of
\* the operations, the id becomes last_session_id
BeginSession(i) ==
    /\ LoadIndex
    /\ Begin(CASE last = NoId          -> LoadFirst(Key(i))
               [] last \notin {NoId, i} -> SaveOld(Key(last)) \o SwitchTo(Key(i))
               [] OTHER                -> <<>>, i)
    /\ UNCHANGED usedResets

Ask      == \E n \in Asked \cup usedResets : BeginSession(SessionId(n))
Continue == last # NoId /\ BeginSession(last)

\* the default session is restored, or else created: then its key, not its id,
\* becomes last_session_id
BeginDefault ==
    /\ last = NoId /\ canLoad
    /\ LoadIndex
    /\ LET k == Key(Default) IN
       Begin(CASE k \in DOMAIN index' /\ Fits(index'[k]) ->
                    <<Op("load", k, Default)>>
               [] k \in DOMAIN index' /\ ~Fits(index'[k]) ->
                    Report \o <<Op("create", k, AsId(k))>>
               [] OTHER -> <<Op("create", k, AsId(k))>>, last)
    /\ UNCHANGED usedResets

BeginPlain ==
    /\ last = NoId /\ ~canLoad
    /\ Begin(<<>>, last)
    /\ UNCHANGED <<indexVars, usedResets>>

-----------------------------------------------------------------------------
(* The operations of the plan.  "expects": the session the agent should be *)
(* in by then, as far as the bridge can know; read by properties only.     *)

Known(i)   == i # NoId /\ canLoad /\ Key(i) \in DOMAIN index /\ Fits(index[Key(i)])
Expected   == IF Known(last) THEN Key(last) ELSE NoKey
\* a save's own session, if the bridge had restored it
Restored(k) == IF canLoad /\ k \in DOMAIN index /\ Fits(index[k]) THEN k ELSE NoKey

Send(t, k, e) == inbox' = Append(inbox, [op |-> t, key |-> k, expects |-> e,
                                         turn |-> turns, asked |-> last])

RunOp ==
    /\ pc = "plan" /\ plan # <<>> /\ Head(plan).op # "error"
    /\ LET o == Head(plan) IN
         Send(o.op, o.key, IF o.op = "save" THEN Restored(o.key) ELSE NoKey)
    /\ pc' = "wait"
    /\ UNCHANGED <<configVars, indexVars, file, last, plan, turns, usedResets,
                   outbox, active, late>>

\* the agent ignores a report
RunReport ==
    /\ pc = "plan" /\ plan # <<>> /\ Head(plan).op = "error"
    /\ plan' = Tail(plan)
    /\ UNCHANGED <<configVars, indexVars, file, last, pc, turns, usedResets,
                   wireVars, late>>

Returned(o, ok) ==
    /\ plan' = Tail(plan)
    /\ last' = IF ok /\ o.becomes # NoId THEN o.becomes ELSE last
    /\ UNCHANGED <<configVars, file, turns, usedResets, inbox, active>>

\* the entry the engine's create and load record for the state id in a reply
EntryOf(o, r) ==
    [sid |-> r.sid, ws    |-> IF o.op = "create" THEN ws ELSE "",
                    model |-> IF o.op = "create" THEN model ELSE ""]

\* the key a state id in a reply is recorded under
LatestKey(o) == Key(last)
RecordKey(o) == o.key

\* The next frame is the reply, whatever it answers.  A state id in it goes to
\* the index, accepted or not.
OpReply ==
    /\ pc = "wait" /\ outbox # <<>> /\ outbox' = Tail(outbox)
    /\ LET o == Head(plan)
           r == Head(outbox)
           k == RecordKey(o)
           recorded == o.op \in {"create", "load"} /\ r.sid # NoState
       IN /\ Returned(o, r.type = "ack")
          /\ IF recorded /\ Takes(index, k)
             THEN index' = Updated(index, k, EntryOf(o, r)) /\ dirty' = TRUE
             ELSE UNCHANGED <<index, dirty>>
          /\ pc' = IF recorded /\ dirty' THEN "write" ELSE "plan"
    /\ UNCHANGED <<loaded, late>>

OpTimeout ==
    /\ pc = "wait" /\ outbox = <<>>
    /\ Returned(Head(plan), FALSE)
    /\ pc' = "plan" /\ late' = starts
    /\ UNCHANGED <<indexVars, outbox>>

\* save_session_index: the file is emptied, then written; it may not open
WriteUnchanged ==
    UNCHANGED <<configVars, index, loaded, last, plan, turns, usedResets,
                wireVars, late>>

WriteOpen ==
    /\ pc = "write" /\ pc' = "writing"
    /\ file' = [file EXCEPT !.complete = FALSE]
    /\ UNCHANGED dirty /\ WriteUnchanged

WriteFails ==
    /\ pc = "write" /\ pc' = "plan"
    /\ UNCHANGED <<dirty, file>> /\ WriteUnchanged

WriteDone ==
    /\ pc = "writing" /\ pc' = "plan"
    /\ file' = [complete |-> TRUE, entries |-> index] /\ dirty' = FALSE
    /\ WriteUnchanged

-----------------------------------------------------------------------------
(* The request, its answer, and the save after a response.                 *)

TurnUnchanged ==
    UNCHANGED <<configVars, file, plan, turns, usedResets, active>>

SendRequest ==
    /\ pc = "plan" /\ plan = <<>>
    /\ Send("request", NoKey, Expected)
    /\ pc' = "answer"
    /\ UNCHANGED <<indexVars, last, outbox, late>> /\ TurnUnchanged

Completes(r) == r.type = "response" /\ r.turn = turns

\* the index is read again, and the session saved if it is there
Answered ==
    /\ pc = "answer" /\ outbox # <<>> /\ outbox' = Tail(outbox)
    /\ IF Completes(Head(outbox)) /\ last # NoId /\ autoSave
       THEN /\ LoadIndex
            /\ pc' = IF Key(last) \in DOMAIN index' THEN "save" ELSE "idle"
       ELSE pc' = "idle" /\ UNCHANGED indexVars
    /\ UNCHANGED <<inbox, last, late>> /\ TurnUnchanged

AnswerTimeout ==
    /\ pc = "answer" /\ outbox = <<>>
    /\ pc' = "idle" /\ late' = starts
    /\ UNCHANGED <<indexVars, inbox, outbox, last>> /\ TurnUnchanged

SaveAfter ==
    /\ pc = "save" /\ pc' = "saved"
    /\ Send("save", Key(last), Expected)
    /\ UNCHANGED <<indexVars, last, outbox, late>> /\ TurnUnchanged

SaveReply ==
    /\ pc = "saved" /\ outbox # <<>> /\ outbox' = Tail(outbox)
    /\ pc' = "idle"
    /\ UNCHANGED <<indexVars, inbox, last, late>> /\ TurnUnchanged

SaveTimeout ==
    /\ pc = "saved" /\ outbox = <<>>
    /\ pc' = "idle" /\ late' = starts
    /\ UNCHANGED <<indexVars, inbox, outbox, last>> /\ TurnUnchanged

\* GET /debug/session reads the index, while tracing
DebugSession ==
    /\ pc = "idle" /\ last # NoId
    /\ LoadIndex
    /\ UNCHANGED <<configVars, file, turnVars, wireVars, late>>

-----------------------------------------------------------------------------
(* The agent.  Its state ids are hashes of the key that another process of *)
(* it computes differently.                                                *)

AgentReply(t, n, s) == outbox' = Append(outbox, [type |-> t, turn |-> n, sid |-> s])

Agent ==
    /\ inbox # <<>> /\ inbox' = Tail(inbox)
    /\ LET f == Head(inbox)
           sid == [key |-> f.key, agent |-> starts]
       IN \/ /\ f.op \in {"create", "load"}
             /\ active' = f.key /\ AgentReply("ack", 0, sid)
          \/ /\ f.op = "switch"
             /\ active' = f.key /\ AgentReply("ack", 0, NoState)
          \/ /\ f.op = "save"
             /\ AgentReply("ack", 0, NoState) /\ UNCHANGED active
          \/ /\ f.op = "request"
             /\ AgentReply("response", f.turn, NoState) /\ UNCHANGED active
    /\ UNCHANGED <<configVars, indexVars, file, turnVars, late>>

-----------------------------------------------------------------------------
BeginTurn == BeginReset \/ Ask \/ Continue \/ BeginDefault \/ BeginPlain

Operation == \/ RunOp \/ RunReport \/ OpReply \/ OpTimeout
             \/ WriteOpen \/ WriteFails \/ WriteDone

Request == \/ SendRequest \/ Answered \/ AnswerTimeout
           \/ SaveAfter \/ SaveReply \/ SaveTimeout

Next == BeginTurn \/ Operation \/ Request \/ DebugSession \/ Agent \/ Restart

Spec == Init /\ [][Next]_vars

-----------------------------------------------------------------------------
(* Properties.                                                             *)

Ids      == [name : {"", "default"} \cup Asked \cup Resets, wraps : Nat]
Keys     == [hash : Nat, id : Ids]
StateIds == [key : Keys, agent : 0..starts]
Entries  == [sid : StateIds, ws : {""} \cup Workspaces, model : {""} \cup Models]
Table(m) == DOMAIN m \subseteq Keys /\ \A k \in DOMAIN m : m[k] \in Entries
OpNames  == {"create", "load", "save", "switch", "request", "error"}

\* The types of all variables, and the limit of the index (MaxEntries).
TypeOK ==
    /\ starts \in 1..MaxStarts /\ ws \in Workspaces /\ model \in Models
    /\ canLoad \in CanLoads /\ autoSave \in AutoSaves
    /\ Table(index) /\ Cardinality(DOMAIN index) <= MaxEntries
    /\ Table(file.entries) /\ Cardinality(DOMAIN file.entries) <= MaxEntries
    /\ dirty \in BOOLEAN /\ loaded \in BOOLEAN /\ file.complete \in BOOLEAN
    /\ last \in Ids /\ usedResets \subseteq Resets /\ turns \in 0..MaxTurns
    /\ pc \in {"idle", "plan", "wait", "write", "writing", "answer", "save", "saved"}
    /\ plan \in Seq([op : OpNames, key : Keys, becomes : Ids])
    /\ inbox \in Seq([op : OpNames, key : Keys, expects : Keys, turn : 0..MaxTurns,
                      asked : Ids])
    /\ outbox \in Seq([type : {"ack", "response"}, turn : 0..MaxTurns,
                       sid : StateIds])
    /\ active \in Keys /\ late \in 0..starts

\* As long as no read of this process has timed out, a session the index has,
\* for this workspace and model, is not mixed with another: the agent is in it
\* when it works on its request (turn_context.c:178-245) and when its state is
\* saved, before a switch or after a response (turn_context.c:193, 746-757).
SessionsStayApart ==
    inbox # <<>> /\ Head(inbox).expects # NoKey /\ late # starts =>
        active = Head(inbox).expects

\* A state id on file under a key was given by the agent for that key, unless
\* some read timed out: replies carry no id, and are matched by their order
\* alone (bridge_core.c:862-885, 1018-1034).
IdsAreOwn ==
    late = 0 => \A k \in DOMAIN file.entries : file.entries[k].sid.key = k

\* Writing the index loses no session that was on file, if this process has read
\* the file and the file is one that can be read: the table is complete in memory
\* and a new key displaces none (config_manager.c:693-730, 796).  A crash while the
\* file is written loses all; so does a process whose first turn is a reset.
SessionsAreKept ==
    [][Readable /\ ~file'.complete /\ loaded
       => DOMAIN file.entries \subseteq DOMAIN index]_vars

=============================================================================
