-------------------------- MODULE ToolLoop_proofs --------------------------
(***************************************************************************)
(* Tool intents, proved for every value of the constants: what the agent   *)
(* is answered and told, what a request activates, what is kept of a       *)
(* child's output, and how long a silent child can hold up the turn.       *)
(***************************************************************************)
EXTENDS ToolLoop, SequenceTheorems, TLAPS

-----------------------------------------------------------------------------
(* Routing.                                                                *)

\* confidence_for and apply_tool_capability in one line: what is defined or
\* mentioned weakly is never active
LEMMA ActiveMeans ==
    \A q \in Requests : Active(q) = (q.named \/ Intent(q) = Confirmed)
<1> SUFFICES ASSUME NEW q \in Requests
             PROVE  Active(q) = (q.named \/ Intent(q) = Confirmed)
    OBVIOUS
<1>1. Intent(q) \in {0, 1, 2}
    BY DEF Intent, Denied, Weak, Confirmed, Requests
<1>2. q.named \in BOOLEAN /\ q.defined \in BOOLEAN
    BY DEF Requests
<1> QED BY <1>1, <1>2 DEF Active, Confidence, AtLeastWeak, WordsAlone, Denied, Weak,
         Confirmed

-----------------------------------------------------------------------------
(* The turn, and what its intents were answered.                           *)

Prompts == [dropped : Nat, entries : Seq(Entries), active : BOOLEAN]
Answers == [tool : Tools, kind : {"denied", "malformed", "error", "result"}]

TurnInv ==
    /\ hide \in BOOLEAN
    /\ pc \in {"idle", "begun", "events", "run"} /\ turn \in 0..MaxTurns
    /\ request \in Requests \cup {NoRequest}
    /\ cycles \in 0 .. MaxToolCycles + 1 /\ events \in 0..MaxTurnEvents
    /\ pc # "idle" => cycles <= MaxToolCycles
    /\ pc = "run" => events < MaxTurnEvents
    /\ pc = "begun" => request \in Requests /\ prompt.active = Routed(request)

Owed == IF pc = "run" \/ cycles > MaxToolCycles THEN 1 ELSE 0

\* the intent that runs is the last one read
AnswerInv ==
    /\ intents \in Seq(Tools) /\ answers \in Seq(Answers) /\ call \in Calls
    /\ Len(intents) = cycles /\ Len(answers) + Owed = cycles
    /\ \A i \in 1..Len(answers) : answers[i].tool = intents[i]
    /\ pc = "run" => call.tool = intents[Len(intents)]

-----------------------------------------------------------------------------
(* The history.  The entries kept are the end of all lines ever appended.  *)

KeptInv ==
    /\ lines \in Seq(Entries) /\ entries \in Seq(Entries) /\ dropped \in Nat
    /\ Len(entries) <= HistoryMax
    /\ dropped + Len(entries) = Len(lines)
    /\ Len(entries) = 0 => dropped = 0
    /\ \A i \in 1..Len(entries) : entries[i] = lines[dropped + i]

\* the lines of this turn's answers are the last ones
LinesInv ==
    /\ Len(lines) >= Len(answers)
    /\ \A i \in 1..Len(answers) : lines[Len(lines) - Len(answers) + i].tool = intents[i]

PromptInv == prompt \in Prompts /\ Len(prompt.entries) <= ShownMax /\ PromptAddsUp

-----------------------------------------------------------------------------
(* The child and its output.                                               *)

\* there is a child while a tool runs
ChildInv ==
    /\ child \in {"none", "runs", "exited"} /\ open \in BOOLEAN
    /\ pc = "run" <=> child # "none"
    /\ phase \in {"poll", "wait"} /\ left \in 0..Ticks

\* The pipe holds the latest units in order; what was stored came before them, and
\* once a chunk was cut there is never room for another unit.
OutputInv ==
    /\ wrote \in 0..MaxOutput /\ truncated \in BOOLEAN
    /\ inPipe \in Seq(Nat) /\ Len(inPipe) <= PipeCap
    /\ \A i \in 1..Len(inPipe) : inPipe[i] = wrote - Len(inPipe) + i
    /\ stored \in Seq(Nat) /\ Len(stored) < BufMax
    /\ \A i \in 1..Len(stored) : stored[i] = i
    /\ truncated  => Len(stored) = BufMax - 1
    /\ ~truncated => Len(stored) + Len(inPipe) = wrote

ToolInv == /\ TurnInv /\ AnswerInv /\ KeptInv /\ LinesInv /\ PromptInv
           /\ ChildInv /\ OutputInv

LEMMA NoText ==
    /\ <<>> \in Seq(Tools) /\ <<>> \in Seq(Answers) /\ <<>> \in Seq(Entries)
    /\ <<>> \in Seq(Nat) /\ Len(<<>>) = 0
BY EmptySeq

LEMMA NoCallType == NoCall \in Calls
BY DEF NoCall, Calls, Tools, Args

LEMMA NoPromptInv == NoPrompt \in Prompts /\ Len(NoPrompt.entries) <= ShownMax
<1>1. NoPrompt \in Prompts /\ NoPrompt.entries = <<>>
    BY NoText DEF NoPrompt, Prompts
<1> QED BY <1>1, NoText, ToolBounds

LEMMA ToolInit == Init => ToolInv
<1> SUFFICES ASSUME Init PROVE ToolInv
    OBVIOUS
<1> USE DEF Init
<1>1. TurnInv  BY ToolBounds DEF TurnInv
<1>2. AnswerInv
  <2>1. Owed = 0  BY ToolBounds DEF Owed
  <2> QED BY <2>1, NoCallType, NoText DEF AnswerInv
<1>3. KeptInv  BY NoText, ToolBounds DEF KeptInv
<1>4. LinesInv  BY NoText DEF LinesInv
<1>5. PromptInv  BY NoPromptInv DEF PromptInv, PromptAddsUp
<1>6. ChildInv
  <2>1. left \in 0..Ticks  BY ToolBounds
  <2> QED BY <2>1 DEF ChildInv
<1>7. OutputInv
  <2>1. wrote \in 0..MaxOutput /\ Len(inPipe) <= PipeCap /\ Len(stored) < BufMax
      BY ToolBounds, NoText
  <2>2. Len(stored) + Len(inPipe) = wrote /\ 1..Len(inPipe) = {} /\ 1..Len(stored) = {}
      BY NoText
  <2> QED BY <2>1, <2>2, NoText DEF OutputInv
<1> QED BY <1>1, <1>2, <1>3, <1>4, <1>5, <1>6, <1>7 DEF ToolInv

-----------------------------------------------------------------------------
(* One line more in the history.                                           *)

LEMMA RecordKept ==
    ASSUME KeptInv, NEW c \in Calls, NEW isError, Record(c, isError)
    PROVE  /\ KeptInv'
           /\ Len(lines) \in Nat /\ Len(lines') = Len(lines) + 1
           /\ lines'[Len(lines')].tool = c.tool
           /\ \A i \in 1..Len(lines) : lines'[i] = lines[i]
<1> DEFINE line == [tool |-> c.tool, status |-> IF isError THEN "error" ELSE "ok"]
           L == Len(lines)
           E == Len(entries)
           cut == SubSeq(entries, Evicted + 1, E)
<1>1. line \in Entries /\ line.tool = c.tool
    BY DEF Calls, Entries
<1>2. /\ entries' = Append(cut, line) /\ dropped' = dropped + Evicted
      /\ lines' = Append(lines, line)
    BY DEF Record, DroppedNow
<1>3. /\ L \in Nat /\ E \in Nat /\ E <= HistoryMax /\ dropped \in Nat /\ dropped + E = L
      /\ lines \in Seq(Entries) /\ entries \in Seq(Entries)
    BY LenProperties DEF KeptInv
<1>4. Evicted \in 0..E /\ E - Evicted + 1 <= HistoryMax
    BY <1>3, ToolBounds DEF Evicted
<1>5. /\ cut \in Seq(Entries) /\ Len(cut) = E - Evicted
      /\ \A i \in 1 .. E - Evicted : cut[i] = entries[Evicted + i]
  <2>1. \A i \in Evicted + 1 .. E : entries[i] \in Entries
      BY <1>3, <1>4, ElementOfSeq
  <2>2. /\ cut \in Seq(Entries)
        /\ Len(cut) = IF Evicted + 1 <= E THEN E - (Evicted + 1) + 1 ELSE 0
        /\ \A i \in 1 .. E - (Evicted + 1) + 1 : cut[i] = entries[(Evicted + 1) + i - 1]
    <3>1. Evicted + 1 \in Int /\ E \in Int
        BY <1>3, <1>4
    <3> HIDE DEF E
    <3> QED BY <2>1, <3>1, SubSeqProperties
  <2> QED BY <1>3, <1>4, <2>2
<1> HIDE DEF line, cut
<1>6. /\ lines' \in Seq(Entries) /\ Len(lines') = L + 1 /\ lines'[L + 1] = line
      /\ \A i \in 1..L : lines'[i] = lines[i]
    BY <1>1, <1>2, <1>3, AppendProperties
<1>7. /\ entries' \in Seq(Entries) /\ Len(entries') = E - Evicted + 1
      /\ entries'[E - Evicted + 1] = line
      /\ \A i \in 1 .. E - Evicted : entries'[i] = cut[i]
    BY <1>1, <1>2, <1>5, AppendProperties
<1>8. ASSUME NEW i \in 1..Len(entries') PROVE entries'[i] = lines'[dropped' + i]
  <2>1. CASE i = E - Evicted + 1
    <3>1. dropped' + i = L + 1
      <4>1. Evicted \in Nat  BY <1>3, <1>4
      <4> HIDE DEF L, E
      <4> QED BY <1>2, <1>3, <2>1, <4>1
    <3> QED BY <1>6, <1>7, <2>1, <3>1
  <2>2. CASE i \in 1 .. E - Evicted
    <3>1. entries'[i] = entries[Evicted + i] /\ Evicted + i \in 1..E
        BY <1>4, <1>5, <1>7, <2>2
    <3>2. entries[Evicted + i] = lines[dropped + (Evicted + i)]
        BY <3>1 DEF KeptInv
    <3>3. dropped + (Evicted + i) \in 1..L /\ dropped + (Evicted + i) = dropped' + i
      <4>1. i \in Nat /\ Evicted \in Nat /\ i >= 1
          BY <1>3, <1>4, <2>2
      <4> HIDE DEF L, E
      <4> QED BY <1>2, <1>3, <3>1, <4>1
    <3> QED BY <1>6, <3>1, <3>2, <3>3
  <2> QED BY <1>3, <1>4, <1>7, <2>1, <2>2
<1>9. KeptInv'
  <2>1. /\ dropped' \in Nat /\ Len(entries') <= HistoryMax
        /\ dropped' + Len(entries') = Len(lines') /\ Len(entries') # 0
    <3> HIDE DEF L, E
    <3>1. Evicted \in Nat  BY <1>3, <1>4
    <3> QED BY <1>2, <1>3, <1>4, <1>6, <1>7, <3>1
  <2> QED BY <1>6, <1>7, <1>8, <2>1 DEF KeptInv
<1> QED BY <1>1, <1>3, <1>6, <1>9

\* what tool_history_build_json shows is the end of all lines, and it counts the rest
LEMMA ShownIsTheEnd ==
    ASSUME KeptInv
    PROVE  /\ SubSeq(entries, StartIndex + 1, Len(entries)) \in Seq(Entries)
           /\ Len(SubSeq(entries, StartIndex + 1, Len(entries))) <= ShownMax
           /\ Missing \in Nat
           /\ Missing + Len(SubSeq(entries, StartIndex + 1, Len(entries))) = Len(lines)
           /\ SubSeq(entries, StartIndex + 1, Len(entries))
                = SubSeq(lines, Missing + 1, Len(lines))
<1> DEFINE L == Len(lines)
           E == Len(entries)
           shown == SubSeq(entries, StartIndex + 1, E)
           end == SubSeq(lines, Missing + 1, L)
<1>1. /\ L \in Nat /\ E \in Nat /\ dropped \in Nat /\ dropped + E = L
      /\ lines \in Seq(Entries) /\ entries \in Seq(Entries)
    BY LenProperties DEF KeptInv
<1>2. /\ StartIndex \in 0..E /\ E - StartIndex <= ShownMax
      /\ Missing \in 0..L /\ L - Missing = E - StartIndex /\ Missing = dropped + StartIndex
    BY <1>1, ToolBounds DEF StartIndex, Missing
<1>3. /\ shown \in Seq(Entries)
      /\ Len(shown) = IF StartIndex + 1 <= E THEN E - (StartIndex + 1) + 1 ELSE 0
      /\ \A i \in 1 .. E - (StartIndex + 1) + 1 : shown[i] = entries[(StartIndex + 1) + i - 1]
  <2>1. \A i \in StartIndex + 1 .. E : entries[i] \in Entries
      BY <1>1, <1>2, ElementOfSeq
  <2>2. StartIndex + 1 \in Int /\ E \in Int
      BY <1>1, <1>2
  <2> HIDE DEF E
  <2> QED BY <2>1, <2>2, SubSeqProperties
<1>4. /\ end \in Seq(Entries)
      /\ Len(end) = IF Missing + 1 <= L THEN L - (Missing + 1) + 1 ELSE 0
      /\ \A i \in 1 .. L - (Missing + 1) + 1 : end[i] = lines[(Missing + 1) + i - 1]
  <2>1. \A i \in Missing + 1 .. L : lines[i] \in Entries
      BY <1>1, <1>2, ElementOfSeq
  <2>2. Missing + 1 \in Int /\ L \in Int
      BY <1>1, <1>2
  <2> HIDE DEF L
  <2> QED BY <2>1, <2>2, SubSeqProperties
<1> HIDE DEF shown, end
<1>5. Len(shown) = E - StartIndex /\ Len(end) = E - StartIndex
    BY <1>1, <1>2, <1>3, <1>4
<1>6. ASSUME NEW i \in 1..Len(shown) PROVE shown[i] = end[i]
  <2>1. shown[i] = entries[StartIndex + i] /\ StartIndex + i \in 1..E
      BY <1>1, <1>2, <1>3, <1>5
  <2>2. end[i] = lines[Missing + i]
    <3>1. i \in 1 .. L - (Missing + 1) + 1 /\ (Missing + 1) + i - 1 = Missing + i
      <4> HIDE DEF L, E
      <4> QED BY <1>1, <1>2, <1>5
    <3> QED BY <1>4, <3>1
  <2>3. entries[StartIndex + i] = lines[dropped + (StartIndex + i)]
      BY <2>1 DEF KeptInv
  <2>4. dropped + (StartIndex + i) = Missing + i
    <3> HIDE DEF L, E
    <3> QED BY <1>1, <1>2
  <2> QED BY <2>1, <2>2, <2>3, <2>4
<1>7. shown = end
    BY <1>3, <1>4, <1>5, <1>6, SeqEqual
<1>8. Len(shown) <= ShownMax /\ Missing \in Nat /\ Missing + Len(shown) = L
  <2> HIDE DEF L, E
  <2> QED BY <1>1, <1>2, <1>5
<1> QED BY <1>3, <1>7, <1>8 DEF shown, end

-----------------------------------------------------------------------------
(* The steps, by what they do to the history and the answers.              *)

\* An intent is answered: its line is the last of the history, its answer the last
\* of the turn.  The intent is the one that ran, or the one just read.
LEMMA AnswerGiven ==
    ASSUME KeptInv, LinesInv, answers \in Seq(Answers), intents' \in Seq(Tools),
           Len(answers) < Len(intents'),
           \A i \in 1..Len(answers) : answers[i].tool = intents'[i] /\ intents'[i] = intents[i],
           NEW c \in Calls, intents'[Len(answers) + 1] = c.tool,
           NEW kind \in {"denied", "malformed", "error", "result"},
           NEW isError, Answer(c, kind, isError)
    PROVE  /\ KeptInv' /\ LinesInv'
           /\ answers' \in Seq(Answers) /\ Len(answers') = Len(answers) + 1
           /\ \A i \in 1..Len(answers') : answers'[i].tool = intents'[i]
<1> DEFINE a == [tool |-> c.tool, kind |-> kind]
           n == Len(answers)
           L == Len(lines)
<1>1. a \in Answers /\ a.tool = c.tool
    BY DEF Answers, Calls
<1>2. answers' = Append(answers, a) /\ Record(c, isError)
    BY DEF Answer
<1> HIDE DEF a
<1>3. /\ n \in Nat /\ answers' \in Seq(Answers) /\ Len(answers') = n + 1
      /\ answers'[n + 1] = a /\ \A i \in 1..n : answers'[i] = answers[i]
    BY <1>1, <1>2, AppendProperties, LenProperties
<1>4. /\ KeptInv' /\ L \in Nat /\ Len(lines') = L + 1 /\ lines'[L + 1].tool = c.tool
      /\ \A i \in 1..L : lines'[i] = lines[i]
    BY <1>2, RecordKept
<1>5. ASSUME NEW i \in 1 .. n + 1
      PROVE  answers'[i].tool = intents'[i] /\ lines'[L - n + i].tool = intents'[i]
  <2>1. L - n \in Nat
      BY <1>3, <1>4 DEF LinesInv
  <2>2. CASE i = n + 1
    <3>1. L - n + i = L + 1
      <4> HIDE DEF L, n
      <4> QED BY <1>3, <1>4, <2>2
    <3> QED BY <1>1, <1>3, <1>4, <2>2, <3>1
  <2>3. CASE i \in 1..n
    <3>1. L - n + i \in 1..L
      <4> HIDE DEF L, n
      <4> QED BY <1>3, <1>4, <2>1, <2>3
    <3>2. lines'[L - n + i] = lines[L - n + i]
        BY <1>4, <3>1
    <3>3. lines[L - n + i].tool = intents[i] /\ answers'[i] = answers[i]
        BY <1>3, <2>3 DEF LinesInv
    <3> QED BY <2>3, <3>2, <3>3
  <2> QED BY <1>3, <2>2, <2>3
<1>6. LinesInv'
  <2>1. /\ Len(lines') = L + 1 /\ Len(answers') = n + 1 /\ Len(lines') >= Len(answers')
        /\ Len(lines') - Len(answers') = L - n
      BY <1>3, <1>4 DEF LinesInv
  <2> HIDE DEF L, n
  <2> QED BY <1>5, <2>1 DEF LinesInv
<1> QED BY <1>3, <1>4, <1>5, <1>6

\* the steps that answer no intent and start no turn
LEMMA HistoryRests ==
    ASSUME KeptInv, LinesInv, PromptInv, UNCHANGED <<hide, history, answers, intents>>,
           \/ UNCHANGED prompt /\ (pc' = "begun" => pc = "begun")
           \/ prompt' = NoPrompt /\ pc' # "begun"
    PROVE  KeptInv' /\ LinesInv' /\ PromptInv'
<1>1. KeptInv' /\ LinesInv'
    BY DEF KeptInv, LinesInv, history
<1>2. PromptInv'
    BY NoPromptInv DEF PromptInv, PromptAddsUp, history
<1> QED BY <1>1, <1>2

\* both guards: what is told is all or nothing
LEMMA ToldWhole ==
    ASSUME KeptInv, hide \in BOOLEAN
    PROVE  /\ ToldHistory.dropped \in Nat /\ ToldHistory.entries \in Seq(Entries)
           /\ Len(ToldHistory.entries) <= ShownMax
           /\ hide => ToldHistory.dropped = 0 /\ ToldHistory.entries = <<>>
           /\ ~hide => /\ ToldHistory.dropped + Len(ToldHistory.entries) = Len(lines)
                       /\ ToldHistory.entries = SubSeq(lines, ToldHistory.dropped + 1, Len(lines))
<1>1. CASE ~hide /\ Len(entries) > 0
    BY <1>1, ShownIsTheEnd DEF ToldHistory
<1>2. CASE hide \/ ~(Len(entries) > 0)
  <2>1. ToldHistory = [dropped |-> 0, entries |-> <<>>]
      BY <1>2 DEF ToldHistory
  <2>2. ~hide => Len(lines) = 0 /\ lines \in Seq(Entries)
      BY <1>2, LenProperties DEF KeptInv
  <2>3. ~hide => SubSeq(lines, 1, Len(lines)) = <<>>
      BY <2>2, EmptySeq
  <2> QED BY <2>1, <2>2, <2>3, NoText, ToolBounds
<1> QED BY <1>1, <1>2

LEMMA BeginStep ==
    ASSUME ToolInv, NEW q \in Requests, BeginTurn(q)
    PROVE  ToolInv'
<1> USE DEF ToolInv
<1>1. /\ pc = "idle" /\ pc' = "begun" /\ turn < MaxTurns /\ turn' = turn + 1 /\ request' = q
      /\ prompt' = [dropped |-> ToldHistory.dropped, entries |-> ToldHistory.entries,
                    active  |-> Routed(q)]
      /\ cycles' = 0 /\ events' = 0 /\ answers' = <<>> /\ intents' = <<>>
      /\ UNCHANGED <<hide, call, history, childVars, inPipe, runVars>>
    BY DEF BeginTurn
<1>2. TurnInv'
    BY <1>1, ToolBounds DEF TurnInv
<1>3. AnswerInv'
  <2>1. Owed' = 0  BY <1>1, ToolBounds DEF Owed
  <2> QED BY <1>1, <2>1, NoText DEF AnswerInv
<1>4. KeptInv'
    BY <1>1 DEF KeptInv, history
<1>5. LinesInv'
  <2>1. Len(lines) \in Nat  BY LenProperties DEF KeptInv
  <2> QED BY <1>1, <2>1, NoText DEF LinesInv, history
<1>6. PromptInv'
  <2>1. Routed(q) \in BOOLEAN
      BY DEF Routed, Active, Requests
  <2>2. /\ prompt' \in Prompts /\ prompt'.dropped = ToldHistory.dropped
        /\ prompt'.entries = ToldHistory.entries
    <3>1. ToldHistory.dropped \in Nat /\ ToldHistory.entries \in Seq(Entries)
        BY ToldWhole DEF TurnInv
    <3> QED BY <1>1, <2>1, <3>1 DEF Prompts
  <2>3. hide' = hide /\ lines' = lines
      BY <1>1 DEF history
  <2>4. /\ Len(ToldHistory.entries) <= ShownMax
        /\ hide => ToldHistory.dropped = 0 /\ ToldHistory.entries = <<>>
        /\ ~hide => /\ ToldHistory.dropped + Len(ToldHistory.entries) = Len(lines)
                    /\ ToldHistory.entries = SubSeq(lines, ToldHistory.dropped + 1, Len(lines))
      BY ToldWhole DEF TurnInv
  <2>5. Len(prompt'.entries) <= ShownMax
      BY <2>2, <2>4
  <2>6. PromptAddsUp'
      BY <2>2, <2>3, <2>4 DEF PromptAddsUp
  <2> QED BY <2>2, <2>5, <2>6 DEF PromptInv
<1>7. ChildInv'
    BY <1>1 DEF ChildInv, childVars, runVars
<1>8. OutputInv'
    BY <1>1 DEF OutputInv, childVars, runVars
<1> QED BY <1>2, <1>3, <1>4, <1>5, <1>6, <1>7, <1>8

LEMMA TurnStep ==
    ASSUME ToolInv, Accepted \/ OtherEvent \/ EndTurn
    PROVE  ToolInv'
<1> USE DEF ToolInv
<1>1. /\ pc \in {"begun", "events"} /\ pc' \in {"idle", "events"}
      /\ UNCHANGED <<hide, turn, cycles, call, answers, history, childVars, inPipe, runVars,
                     intents>>
      /\ events' = events \/ (events < MaxTurnEvents /\ events' = events + 1)
      /\ request' = request \/ request' = NoRequest
      /\ prompt' = prompt \/ prompt' = NoPrompt
    BY DEF Accepted, OtherEvent, EndTurn
<1>2. TurnInv'
    BY <1>1, ToolBounds DEF TurnInv
<1>3. AnswerInv'
  <2>1. Owed' = Owed  BY <1>1 DEF Owed
  <2> QED BY <1>1, <2>1 DEF AnswerInv
<1>4. KeptInv' /\ LinesInv' /\ PromptInv'
    BY <1>1, HistoryRests
<1>5. ChildInv'
    BY <1>1 DEF ChildInv, childVars, runVars
<1>6. OutputInv'
    BY <1>1 DEF OutputInv, childVars, runVars
<1> QED BY <1>2, <1>3, <1>4, <1>5, <1>6

\* the intent just read is the last one
LEMMA IntentRead ==
    ASSUME ToolInv, pc # "idle", pc # "run", NEW c \in Calls, intents' = Append(intents, c.tool)
    PROVE  /\ intents' \in Seq(Tools) /\ Len(intents') = cycles + 1
           /\ intents'[cycles + 1] = c.tool
           /\ \A i \in 1..cycles : intents'[i] = intents[i]
           /\ Len(answers) = cycles /\ cycles \in Nat
           /\ \A i \in 1..cycles : answers[i].tool = intents'[i]
<1>1. c.tool \in Tools
    BY DEF Calls
<1>2. intents \in Seq(Tools) /\ Len(intents) = cycles /\ Len(answers) + 0 = cycles
    BY ToolBounds DEF ToolInv, TurnInv, AnswerInv, Owed
<1>3. cycles \in Nat /\ Len(answers) \in Nat
    BY <1>2, LenProperties DEF ToolInv, AnswerInv
<1>4. Len(answers) = cycles
    BY <1>2, <1>3
<1>5. /\ intents' \in Seq(Tools) /\ Len(intents') = cycles + 1
      /\ intents'[cycles + 1] = c.tool
      /\ \A i \in 1..cycles : intents'[i] = intents[i]
    BY <1>1, <1>2, AppendProperties
<1> QED BY <1>3, <1>4, <1>5 DEF ToolInv, AnswerInv

LEMMA IntentStep ==
    ASSUME ToolInv, NEW c \in Offered, ToolIntent(c)
    PROVE  ToolInv'
<1> USE DEF ToolInv
<1>0. c \in Calls
    BY ToolBounds
<1>1. /\ pc = "events" /\ events < MaxTurnEvents /\ cycles' = cycles + 1
      /\ intents' = Append(intents, c.tool) /\ UNCHANGED <<hide, turn, request, prompt>>
    BY DEF ToolIntent
<1>2. /\ intents' \in Seq(Tools) /\ Len(intents') = cycles + 1
      /\ intents'[cycles + 1] = c.tool
      /\ \A i \in 1..cycles : intents'[i] = intents[i]
      /\ Len(answers) = cycles /\ cycles \in Nat
      /\ \A i \in 1..cycles : answers[i].tool = intents'[i]
    BY <1>0, <1>1, IntentRead
<1>3. cycles \in 0..MaxToolCycles /\ events \in Nat /\ answers \in Seq(Answers) /\ call \in Calls
    BY <1>1, <1>2, ToolBounds DEF TurnInv, AnswerInv
<1>4. CASE /\ TooManyCycles(cycles + 1) /\ pc' = "idle"
           /\ UNCHANGED <<events, call, answers, history, childVars, inPipe, runVars>>
  <2>1. TurnInv'
      BY <1>1, <1>3, <1>4, ToolBounds DEF TurnInv
  <2>2. AnswerInv'
    <3>1. Owed' = 1  BY <1>1, <1>4 DEF Owed, TooManyCycles
    <3> QED BY <1>1, <1>2, <1>3, <1>4, <3>1 DEF AnswerInv
  <2>3. KeptInv' /\ PromptInv'
      BY <1>1, <1>4 DEF KeptInv, PromptInv, PromptAddsUp, history
  <2>4. LinesInv'
      BY <1>2, <1>4 DEF LinesInv, history
  <2>5. ChildInv'
      BY <1>1, <1>4 DEF ChildInv, childVars, runVars
  <2>6. OutputInv'
      BY <1>4 DEF OutputInv, childVars, runVars
  <2> QED BY <2>1, <2>2, <2>3, <2>4, <2>5, <2>6
<1>5. ASSUME ~TooManyCycles(cycles + 1), UNCHANGED <<pc, call, childVars, inPipe, runVars>>,
             NEW kind \in {"denied", "malformed", "error", "result"},
             NEW isError, Answer(c, kind, isError)
      PROVE  ToolInv'
  <2>1. cycles + 1 <= MaxToolCycles /\ events' = events + 1
      BY <1>3, <1>5, ToolBounds DEF TooManyCycles, Answer
  <2>2. /\ KeptInv' /\ LinesInv' /\ answers' \in Seq(Answers) /\ Len(answers') = cycles + 1
        /\ \A i \in 1..Len(answers') : answers'[i].tool = intents'[i]
    <3>1. Len(answers) < Len(intents') /\ intents'[Len(answers) + 1] = c.tool
        BY <1>2
    <3>2. \A i \in 1..Len(answers) : answers[i].tool = intents'[i] /\ intents'[i] = intents[i]
        BY <1>2
    <3> QED BY <1>0, <1>2, <1>3, <1>5, <3>1, <3>2, AnswerGiven
  <2>3. TurnInv'
      BY <1>1, <1>3, <1>5, <2>1, ToolBounds DEF TurnInv
  <2>4. AnswerInv'
    <3>1. Owed' = 0  BY <1>1, <1>3, <1>5, <2>1, ToolBounds DEF Owed
    <3> QED BY <1>1, <1>2, <1>3, <1>5, <2>2, <3>1 DEF AnswerInv
  <2>5. PromptInv'
      BY <1>1, <1>5 DEF PromptInv, PromptAddsUp
  <2>6. ChildInv'
      BY <1>5 DEF ChildInv, childVars, runVars
  <2>7. OutputInv'
      BY <1>5 DEF OutputInv, childVars, runVars
  <2> QED BY <2>2, <2>3, <2>4, <2>5, <2>6, <2>7
<1>6. CASE /\ ~TooManyCycles(cycles + 1) /\ pc' = "run" /\ call' = c /\ Spawn
           /\ UNCHANGED <<events, answers, history>>
  <2>1. cycles + 1 <= MaxToolCycles
      BY <1>3, <1>6, ToolBounds DEF TooManyCycles
  <2>2. TurnInv'
      BY <1>1, <1>3, <1>6, <2>1, ToolBounds DEF TurnInv
  <2>3. AnswerInv'
    <3>1. Owed' = 1  BY <1>6 DEF Owed
    <3> QED BY <1>0, <1>1, <1>2, <1>3, <1>6, <3>1 DEF AnswerInv
  <2>4. KeptInv' /\ PromptInv'
      BY <1>1, <1>6 DEF KeptInv, PromptInv, PromptAddsUp, history
  <2>5. LinesInv'
      BY <1>2, <1>6 DEF LinesInv, history
  <2>6. ChildInv'
      BY <1>6, ToolBounds DEF ChildInv, Spawn
  <2>7. OutputInv'
    <3>1. /\ wrote' \in 0..MaxOutput /\ Len(inPipe') <= PipeCap /\ Len(stored') < BufMax
          /\ truncated' = FALSE /\ inPipe' = <<>> /\ stored' = <<>>
        BY <1>6, ToolBounds, NoText DEF Spawn
    <3>2. Len(stored') + Len(inPipe') = wrote' /\ 1..Len(inPipe') = {} /\ 1..Len(stored') = {}
        BY <1>6, NoText DEF Spawn
    <3> QED BY <3>1, <3>2, NoText DEF OutputInv
  <2> QED BY <2>2, <2>3, <2>4, <2>5, <2>6, <2>7
<1>7. CASE ~TooManyCycles(cycles + 1)
  <2>1. CASE IsDenied(c) /\ Refuse(c, "denied") /\ UNCHANGED <<pc, call, childVars, inPipe, runVars>>
      BY <1>5, <1>7, <2>1 DEF Refuse
  <2>2. CASE Refuse(c, "malformed") /\ UNCHANGED <<pc, call, childVars, inPipe, runVars>>
      BY <1>5, <1>7, <2>2 DEF Refuse
  <2>3. CASE Answer(c, "error", FALSE) /\ UNCHANGED <<pc, call, childVars, inPipe, runVars>>
      BY <1>5, <1>7, <2>3
  <2> QED BY <1>6, <1>7, <2>1, <2>2, <2>3 DEF ToolIntent
<1> QED BY <1>4, <1>7 DEF ToolIntent

-----------------------------------------------------------------------------
(* The child, and the loop that reads it.                                  *)

\* a step that leaves the turn and its history alone
LEMMA TurnRests ==
    ASSUME ToolInv, UNCHANGED <<hide, pc, turnVars, call, answers, history, intents>>
    PROVE  TurnInv' /\ AnswerInv' /\ KeptInv' /\ LinesInv' /\ PromptInv'
<1> USE DEF ToolInv, turnVars
<1>1. TurnInv'
    BY DEF TurnInv
<1>2. AnswerInv'
    BY DEF AnswerInv, Owed
<1>3. KeptInv' /\ LinesInv' /\ PromptInv'
    BY HistoryRests
<1> QED BY <1>1, <1>2, <1>3

LEMMA ChildStep ==
    ASSUME ToolInv, ChildWrites \/ ChildCloses \/ ChildExits
    PROVE  ToolInv'
<1>1. child = "runs" /\ UNCHANGED <<hide, pc, turnVars, call, answers, history, runVars, intents>>
    BY DEF ChildWrites, ChildCloses, ChildExits, ChildUnchanged
<1>2. TurnInv' /\ AnswerInv' /\ KeptInv' /\ LinesInv' /\ PromptInv'
    BY <1>1, TurnRests
<1>3. ChildInv'
    BY <1>1 DEF ToolInv, ChildInv, runVars, ChildWrites, ChildCloses, ChildExits
<1>4. OutputInv'
  <2>1. CASE UNCHANGED <<wrote, inPipe>>
      BY <1>1, <2>1 DEF ToolInv, OutputInv, runVars
  <2>2. CASE ChildWrites
    <3>1. PICK n \in 1 .. MaxOutput - wrote :
             /\ Len(inPipe) + n <= PipeCap
             /\ inPipe' = inPipe \o [i \in 1..n |-> wrote + i] /\ wrote' = wrote + n
        BY <2>2 DEF ChildWrites
    <3> DEFINE more == [i \in 1..n |-> wrote + i]
               P == Len(inPipe)
    <3>2. /\ wrote \in 0..MaxOutput /\ wrote + n \in 0..MaxOutput /\ n \in Nat
          /\ inPipe \in Seq(Nat) /\ P \in Nat
        BY <3>1, ToolBounds, LenProperties DEF ToolInv, OutputInv
    <3>3. more \in Seq(Nat) /\ Len(more) = n /\ \A i \in 1..n : more[i] = wrote + i
        BY <3>2
    <3> HIDE DEF more
    <3>4. /\ inPipe' \in Seq(Nat) /\ Len(inPipe') = P + n
          /\ \A i \in 1 .. P + n : inPipe'[i] = IF i <= P THEN inPipe[i] ELSE more[i - P]
        BY <3>1, <3>2, <3>3, ConcatProperties DEF more
    <3>5. ASSUME NEW i \in 1 .. P + n PROVE inPipe'[i] = wrote + n - (P + n) + i
      <4>1. CASE i <= P
        <5>1. inPipe[i] = wrote - P + i
            BY <3>2, <4>1 DEF ToolInv, OutputInv
        <5> HIDE DEF P
        <5> QED BY <3>2, <3>4, <4>1, <5>1
      <4>2. CASE i > P
        <5> HIDE DEF P
        <5>1. i - P \in 1..n
            BY <3>2, <4>2
        <5> QED BY <3>2, <3>3, <3>4, <4>2, <5>1
      <4> QED BY <3>2, <4>1, <4>2
    <3>6. ~truncated => Len(stored) + (P + n) = wrote + n
      <4>1. Len(stored) \in Nat /\ (~truncated => Len(stored) + P = wrote)
          BY LenProperties DEF ToolInv, OutputInv
      <4> HIDE DEF P
      <4> QED BY <3>2, <4>1
    <3> QED BY <1>1, <3>1, <3>2, <3>4, <3>5, <3>6 DEF ToolInv, OutputInv, runVars
  <2> QED BY <2>1, <2>2 DEF ChildWrites, ChildCloses, ChildExits
<1> QED BY <1>2, <1>3, <1>4 DEF ToolInv

LEMMA RunEndsStep ==
    ASSUME ToolInv, pc = "run", NEW late \in BOOLEAN, RunEnds(late)
    PROVE  ToolInv'
<1> USE DEF ToolInv
<1>1. /\ pc' = "events" /\ call' = NoCall
      /\ Answer(call, IF late THEN "error" ELSE "result", FALSE)
      /\ UNCHANGED <<hide, turn, request, prompt, cycles, intents>>
    BY DEF RunEnds
<1>2. PICK c : c = call
    OBVIOUS
<1>3. PICK kind \in {"error", "result"} : Answer(c, kind, FALSE)
    BY <1>1, <1>2
<1>4. /\ cycles \in 0..MaxToolCycles /\ events \in Nat /\ events < MaxTurnEvents
      /\ answers \in Seq(Answers) /\ intents \in Seq(Tools) /\ Len(answers) \in Nat
      /\ Len(intents) = cycles /\ Len(answers) + 1 = cycles
    BY ToolBounds, LenProperties DEF TurnInv, AnswerInv, Owed
<1>5. Len(answers) < Len(intents) /\ intents'[Len(answers) + 1] = c.tool /\ c \in Calls
    BY <1>1, <1>2, <1>4 DEF AnswerInv
<1>6. \A i \in 1..Len(answers) : answers[i].tool = intents'[i] /\ intents'[i] = intents[i]
    BY <1>1 DEF AnswerInv
<1>7. /\ KeptInv' /\ LinesInv'
      /\ answers' \in Seq(Answers) /\ Len(answers') = cycles
      /\ \A i \in 1..Len(answers') : answers'[i].tool = intents'[i]
  <2>1. intents' \in Seq(Tools) /\ Len(answers) < Len(intents')
      BY <1>1, <1>4, <1>5
  <2> QED BY <1>3, <1>4, <1>5, <1>6, <2>1, AnswerGiven
<1>8. TurnInv'
  <2>1. events' = events + 1
      BY <1>3 DEF Answer
  <2> QED BY <1>1, <1>4, <2>1, ToolBounds DEF TurnInv
<1>9. AnswerInv'
  <2>1. Owed' = 0  BY <1>1, <1>4, ToolBounds DEF Owed
  <2> QED BY <1>1, <1>4, <1>7, <2>1, NoCallType DEF AnswerInv
<1>10. PromptInv'
    BY <1>1 DEF PromptInv, PromptAddsUp
<1>11. ChildInv'
  <2>1. left' = 0 /\ 0 \in 0..Ticks /\ child' = "none" /\ open' = FALSE /\ phase' = "poll"
      BY ToolBounds DEF RunEnds
  <2>2. pc' # "run"
      BY <1>1
  <2> QED BY <2>1, <2>2 DEF ChildInv
<1>12. OutputInv'
  <2>1. /\ wrote' \in 0..MaxOutput /\ Len(inPipe') <= PipeCap /\ Len(stored') < BufMax
        /\ truncated' = FALSE /\ inPipe' = <<>> /\ stored' = <<>>
      BY ToolBounds, NoText DEF RunEnds
  <2>2. Len(stored') + Len(inPipe') = wrote' /\ 1..Len(inPipe') = {} /\ 1..Len(stored') = {}
      BY NoText DEF RunEnds
  <2> QED BY <2>1, <2>2, NoText DEF OutputInv
<1> QED BY <1>7, <1>8, <1>9, <1>10, <1>11, <1>12

\* one read: the units taken from the pipe continue what was stored, unless a chunk
\* was cut before, and then none is stored
LEMMA PollReadsOutput ==
    ASSUME OutputInv, inPipe # <<>>, PollReads
    PROVE  OutputInv'
<1> DEFINE P == Len(inPipe)
           S == Len(stored)
           n == Least(Chunk, P)
           k == Kept(n, BufMax - S)
           front == SubSeq(inPipe, 1, k)
           rest == SubSeq(inPipe, n + 1, P)
<1>1. /\ inPipe' = rest /\ stored' = stored \o front
      /\ truncated' = (truncated \/ n >= BufMax - S) /\ UNCHANGED wrote
    BY DEF PollReads, childVars
<1>2. /\ wrote \in 0..MaxOutput /\ P \in Nat \ {0} /\ P <= PipeCap /\ S \in Nat /\ S < BufMax
      /\ inPipe \in Seq(Nat) /\ stored \in Seq(Nat) /\ truncated \in BOOLEAN
      /\ BufMax \in Nat /\ PipeCap \in Nat
    BY ToolBounds, EmptySeq, LenProperties DEF OutputInv
<1>3. (truncated => S = BufMax - 1) /\ (~truncated => S + P = wrote)
    BY DEF OutputInv
<1> HIDE DEF P, S
<1>4. n \in 1..P
    BY <1>2, ToolBounds DEF Least
<1> HIDE DEF n
<1>5. /\ k \in 0..n /\ S + k < BufMax
      /\ n >= BufMax - S => S + k = BufMax - 1
      /\ ~(n >= BufMax - S) => k = n
    BY <1>2, <1>4 DEF Kept
<1> HIDE DEF k
<1>6. front \in Seq(Nat) /\ Len(front) = k /\ \A i \in 1..k : front[i] = inPipe[i]
  <2>1. \A i \in 1..k : inPipe[i] \in Nat
      BY <1>2, <1>4, <1>5, ElementOfSeq DEF P
  <2>2. 1 \in Int /\ k \in Int /\ k - 1 + 1 = k
      BY <1>4, <1>5
  <2>3. /\ front \in Seq(Nat) /\ Len(front) = IF 1 <= k THEN k - 1 + 1 ELSE 0
        /\ \A i \in 1 .. k - 1 + 1 : front[i] = inPipe[1 + i - 1]
      BY <2>1, <2>2, SubSeqProperties
  <2> HIDE DEF front
  <2> QED BY <1>4, <1>5, <2>2, <2>3
<1>7. /\ rest \in Seq(Nat) /\ Len(rest) = P - n
      /\ \A i \in 1 .. P - n : rest[i] = inPipe[n + i]
  <2>1. \A i \in n + 1 .. P : inPipe[i] \in Nat
      BY <1>2, <1>4, ElementOfSeq DEF P
  <2>2. n + 1 \in Int /\ P \in Int /\ P - (n + 1) + 1 = P - n
      BY <1>2, <1>4
  <2>3. /\ rest \in Seq(Nat) /\ Len(rest) = IF n + 1 <= P THEN P - (n + 1) + 1 ELSE 0
        /\ \A i \in 1 .. P - (n + 1) + 1 : rest[i] = inPipe[(n + 1) + i - 1]
      BY <2>1, <2>2, SubSeqProperties
  <2> HIDE DEF rest
  <2> QED BY <1>2, <1>4, <2>2, <2>3
<1> HIDE DEF front, rest
<1>8. /\ stored' \in Seq(Nat) /\ Len(stored') = S + k
      /\ \A i \in 1 .. S + k : stored'[i] = IF i <= S THEN stored[i] ELSE front[i - S]
  <2> DEFINE both == stored \o front
  <2>1. stored' = both /\ stored \in Seq(Nat) /\ front \in Seq(Nat) /\ Len(front) = k
      BY <1>1, <1>2, <1>6
  <2>2. /\ both \in Seq(Nat) /\ Len(both) = Len(stored) + k
        /\ \A i \in 1 .. Len(stored) + k :
              both[i] = IF i <= Len(stored) THEN stored[i] ELSE front[i - Len(stored)]
      BY <2>1, ConcatProperties
  <2> HIDE DEF both
  <2> QED BY <2>1, <2>2 DEF S
<1>9. ASSUME NEW i \in 1 .. S + k PROVE stored'[i] = i
  <2>1. CASE i <= S
    <3>1. stored[i] = i
        BY <1>2, <2>1 DEF OutputInv, S
    <3> QED BY <1>8, <2>1, <3>1
  <2>2. CASE i > S
    <3>1. i - S \in 1..k /\ k > 0
        BY <1>2, <1>4, <1>5, <2>2
    <3>2. ~truncated
        BY <1>2, <1>3, <1>5, <1>4, <3>1
    <3>3. inPipe[i - S] = wrote - P + (i - S)
      <4>1. i - S \in 1..P
          BY <1>4, <1>5, <1>2, <3>1
      <4> QED BY <4>1 DEF OutputInv, P
    <3>4. wrote - P + (i - S) = i
        BY <1>2, <1>3, <1>4, <3>2
    <3>5. stored'[i] = front[i - S]
        BY <1>2, <1>8, <2>2
    <3> QED BY <1>6, <3>1, <3>3, <3>4, <3>5
  <2> QED BY <1>2, <2>1, <2>2
<1>10. ASSUME NEW i \in 1 .. P - n PROVE rest[i] = wrote - (P - n) + i
  <2>1. n + i \in 1..P /\ wrote - P + (n + i) = wrote - (P - n) + i
      BY <1>2, <1>4
  <2>2. inPipe[n + i] = wrote - P + (n + i)
      BY <2>1 DEF OutputInv, P
  <2> QED BY <1>7, <2>1, <2>2
<1>11. /\ truncated'  => S + k = BufMax - 1
       /\ ~truncated' => (S + k) + (P - n) = wrote
  <2>1. truncated \/ n >= BufMax - S => S + k = BufMax - 1
      BY <1>2, <1>3, <1>4, <1>5
  <2>2. ~truncated /\ ~(n >= BufMax - S) => (S + k) + (P - n) = wrote
      BY <1>2, <1>3, <1>4, <1>5
  <2> QED BY <1>1, <2>1, <2>2
<1>12. Len(inPipe') <= PipeCap
    BY <1>1, <1>2, <1>4, <1>7
<1>13. truncated' \in BOOLEAN
    BY <1>1
<1> QED BY <1>1, <1>2, <1>5, <1>7, <1>8, <1>9, <1>10, <1>11, <1>12, <1>13 DEF OutputInv

LEMMA RunnerStep ==
    ASSUME ToolInv, Runner
    PROVE  ToolInv'
<1>1. pc = "run"
    BY DEF Runner, PollReads, PollHangup, PollIdle, Wait
<1>2. CASE PollReads
  <2>1. RunUnchanged /\ phase' = "wait" /\ UNCHANGED <<childVars, left>> /\ inPipe # <<>>
      BY <1>2 DEF PollReads
  <2>2. TurnInv' /\ AnswerInv' /\ KeptInv' /\ LinesInv' /\ PromptInv'
      BY <2>1, TurnRests DEF RunUnchanged
  <2>3. ChildInv'
      BY <2>1 DEF ToolInv, ChildInv, childVars, RunUnchanged
  <2>4. OutputInv'
      BY <1>2, <2>1, PollReadsOutput DEF ToolInv
  <2> QED BY <2>2, <2>3, <2>4 DEF ToolInv
<1>3. CASE /\ RunUnchanged /\ UNCHANGED <<childVars, inPipe, stored, truncated>>
           /\ phase' \in {"poll", "wait"} /\ left' \in 0..Ticks
  <2>1. TurnInv' /\ AnswerInv' /\ KeptInv' /\ LinesInv' /\ PromptInv'
      BY <1>3, TurnRests DEF RunUnchanged
  <2>2. ChildInv'
      BY <1>3 DEF ToolInv, ChildInv, childVars, RunUnchanged
  <2>3. OutputInv'
      BY <1>3 DEF ToolInv, OutputInv, childVars
  <2> QED BY <2>1, <2>2, <2>3 DEF ToolInv
<1>4. CASE PollHangup
    BY <1>3, <1>4 DEF PollHangup, ToolInv, ChildInv
<1>5. CASE PollIdle
  <2>1. CASE RunEnds(TRUE)
      BY <1>1, <2>1, RunEndsStep
  <2>2. CASE left' = Charged /\ Charged > 0 /\ ~RunEnds(TRUE)
    <3>1. left' \in 0..Ticks
        BY <2>2, ToolBounds DEF Charged, ToolInv, ChildInv
    <3> QED BY <1>3, <1>5, <2>2, <3>1 DEF PollIdle
  <2>3. CASE UNCHANGED left /\ ~RunEnds(TRUE) /\ Ticks = 0
      BY <1>3, <1>5, <2>3 DEF PollIdle, ToolInv, ChildInv
  <2> QED BY <1>5, <2>1, <2>2, <2>3 DEF PollIdle
<1>6. CASE Wait
  <2>1. CASE RunEnds(FALSE)
      BY <1>1, <2>1, RunEndsStep
  <2>2. CASE ~RunEnds(FALSE)
      BY <1>3, <1>6, <2>2 DEF Wait, ToolInv, ChildInv
  <2> QED BY <2>1, <2>2
<1> QED BY <1>2, <1>4, <1>5, <1>6 DEF Runner

LEMMA ToolStep == ToolInv /\ [Next]_vars => ToolInv'
<1> SUFFICES ASSUME ToolInv, [Next]_vars PROVE ToolInv'
    OBVIOUS
<1>1. CASE UNCHANGED vars
  <2>1. TurnInv' /\ AnswerInv' /\ KeptInv' /\ LinesInv' /\ PromptInv'
      BY <1>1, TurnRests DEF vars
  <2>2. ChildInv' /\ OutputInv'
      BY <1>1 DEF ToolInv, ChildInv, OutputInv, vars, childVars, runVars
  <2> QED BY <2>1, <2>2 DEF ToolInv
<1>2. CASE Accepted \/ OtherEvent \/ EndTurn  BY <1>2, TurnStep
<1>3. CASE ChildWrites \/ ChildCloses \/ ChildExits  BY <1>3, ChildStep
<1>4. CASE Runner  BY <1>4, RunnerStep
<1> QED BY <1>1, <1>2, <1>3, <1>4, BeginStep, IntentStep DEF Next

LEMMA ToolAlways == Spec => []ToolInv
BY ToolInit, ToolStep, PTL DEF Spec

-----------------------------------------------------------------------------
(* The theorems.                                                           *)

\* The history holds no more than max_history_entries and the prompt no more than
\* it shows, a turn answers no more intents than MAX_TOOL_CYCLES, and the loop's
\* buffer and clock stay in range.
THEOREM ToolTypes == Spec => []TypeOK
<1>1. ToolInv => TypeOK
  <2> SUFFICES ASSUME ToolInv PROVE TypeOK
      OBVIOUS
  <2> USE DEF ToolInv
  <2>1. Len(answers) <= MaxToolCycles
    <3>1. /\ cycles \in 0 .. MaxToolCycles + 1 /\ Len(answers) \in Nat
          /\ Len(answers) + Owed = cycles
        BY LenProperties DEF TurnInv, AnswerInv
    <3> QED BY <3>1, ToolBounds DEF Owed
  <2>2. \A i \in DOMAIN answers : answers[i] \in Answers
      BY ElementOfSeq, LenProperties DEF AnswerInv
  <2>3. Len(stored) <= BufMax
    <3>1. Len(stored) \in Nat /\ Len(stored) < BufMax
        BY LenProperties DEF OutputInv
    <3> QED BY <3>1, ToolBounds
  <2> QED BY <2>1, <2>2, <2>3 DEF TypeOK, TurnInv, AnswerInv, KeptInv, PromptInv, ChildInv,
             OutputInv, Answers
<1> QED BY <1>1, ToolAlways, PTL

\* Every intent turn_process_events reads is answered once, in order and under its
\* own tool's name, and leaves its line in the history, however the child ends.
THEOREM IntentsAnswered == Spec => []EveryIntentAnswered
<1>1. ToolInv => EveryIntentAnswered
  <2> SUFFICES ASSUME ToolInv PROVE EveryIntentAnswered
      OBVIOUS
  <2>1. DOMAIN answers = 1..Len(answers)
      BY LenProperties DEF ToolInv, AnswerInv
  <2> QED BY <2>1 DEF ToolInv, AnswerInv, LinesInv, Owed, EveryIntentAnswered
<1> QED BY <1>1, ToolAlways, PTL

\* Whatever the sizes of the history and of what is shown: while hide_tool_transcripts
\* is set, as it is by default, a prompt tells nothing of the history; otherwise
\* tool_history_build_json accounts for every tool line since the start: the entries
\* shown are the latest, and the number dropped is that of all the others.
THEOREM PromptComplete == Spec => []PromptAddsUp
<1>1. ToolInv => PromptAddsUp
    BY DEF ToolInv, PromptInv
<1> QED BY <1>1, ToolAlways, PTL

\* For every combination of tools, tool_choice and words, capability_router makes a
\* capability active only in a request with tools, and only when it is named or the
\* words confirm it.
THEOREM RouteConservative == Spec => []RouteIsConservative
<1>1. ToolInv => RouteIsConservative
    BY ActiveMeans DEF ToolInv, TurnInv, RouteIsConservative, Routed
<1> QED BY <1>1, ToolAlways, PTL

\* Whatever a child writes and when it exits, for every size of pipe, read and
\* buffer, tool_runner_run keeps the beginning of its output without a hole, and
\* marks it as truncated whenever a byte it read was not kept.
THEOREM OutputWhole == Spec => []OutputIsPrefix
<1>1. ToolInv => OutputIsPrefix
  <2> SUFFICES ASSUME ToolInv PROVE OutputIsPrefix
      OBVIOUS
  <2>1. DOMAIN stored = 1..Len(stored)
      BY LenProperties DEF ToolInv, OutputInv
  <2> QED BY <2>1 DEF ToolInv, OutputInv, OutputIsPrefix
<1> QED BY <1>1, ToolAlways, PTL

-----------------------------------------------------------------------------
(* The rounds a silent child can still hold up the turn.                    *)

\* what is left of the timeout and in the pipe; a poll and the wait behind it are
\* one round
Patience == 2 * left + 2 * Len(inPipe) + (IF phase = "wait" THEN 1 ELSE 0)
Running  == pc = "run" /\ open

LEMMA PatienceType ==
    ASSUME ToolInv
    PROVE  /\ left \in 0..Ticks /\ Ticks \in Nat /\ Len(inPipe) \in 0..PipeCap /\ PipeCap \in Nat
           /\ Patience \in 0..2 * (Ticks + PipeCap) + 1
<1>1. left \in 0..Ticks /\ Ticks \in Nat /\ PipeCap \in Nat
    BY ToolBounds DEF ToolInv, ChildInv
<1>2. Len(inPipe) \in 0..PipeCap
    BY <1>1, LenProperties DEF ToolInv, OutputInv
<1> QED BY <1>1, <1>2 DEF Patience

\* a round reads a unit at least, or is charged
LEMMA RoundCounts ==
    ASSUME ToolInv, Running, pc' = "run", Runner, Ticks > 0
    PROVE  Patience' < Patience
<1>1. left \in Nat /\ Len(inPipe) \in Nat
    BY PatienceType
<1>2. CASE PollReads
  <2>1. /\ phase = "poll" /\ phase' = "wait" /\ left' = left
        /\ inPipe' = SubSeq(inPipe, Least(Chunk, Len(inPipe)) + 1, Len(inPipe))
        /\ inPipe \in Seq(Nat) /\ inPipe # <<>>
      BY <1>2 DEF PollReads, ToolInv, OutputInv
  <2>2. Least(Chunk, Len(inPipe)) \in 1..Len(inPipe)
      BY <1>1, <2>1, ToolBounds, EmptySeq DEF Least
  <2>3. Len(inPipe') = Len(inPipe) - Least(Chunk, Len(inPipe))
    <3> DEFINE n == Least(Chunk, Len(inPipe))
    <3> HIDE DEF n
    <3>1. inPipe' = SubSeq(inPipe, n + 1, Len(inPipe)) /\ n \in 1..Len(inPipe)
        BY <2>1, <2>2 DEF n
    <3>2. \A i \in n + 1 .. Len(inPipe) : inPipe[i] \in Nat
        BY <1>1, <2>1, <3>1
    <3>3. Len(SubSeq(inPipe, n + 1, Len(inPipe))) =
             IF n + 1 <= Len(inPipe) THEN Len(inPipe) - (n + 1) + 1 ELSE 0
        BY <1>1, <3>1, <3>2, SubSeqProperties
    <3>4. Len(SubSeq(inPipe, n + 1, Len(inPipe))) = Len(inPipe) - n
        BY <1>1, <3>1, <3>3
    <3> QED BY <3>1, <3>4 DEF n
  <2>4. Len(inPipe') \in Nat /\ Len(inPipe') < Len(inPipe)
      BY <1>1, <2>2, <2>3
  <2>5. phase = "poll" /\ phase' = "wait" /\ left' = left
      BY <2>1
  <2> QED BY <1>1, <2>4, <2>5 DEF Patience
<1>3. CASE PollIdle
  <2>1. phase = "poll" /\ phase' = "wait" /\ left' = left - 1 /\ inPipe' = inPipe
      BY <1>3 DEF PollIdle, RunEnds, Charged
  <2> QED BY <1>1, <2>1 DEF Patience
<1>4. CASE Wait
  <2>1. phase = "wait" /\ phase' = "poll" /\ left' = left /\ inPipe' = inPipe
      BY <1>4 DEF Wait, RunEnds
  <2> QED BY <1>1, <2>1 DEF Patience
<1> QED BY <1>2, <1>3, <1>4 DEF Runner, PollHangup, Running

\* the run of another tool begins when none runs
LEMMA OnlyOutputAdds ==
    ASSUME ToolInv, Running, [Next]_vars, ~Runner
    PROVE  Patience' = Patience \/ wrote' > wrote \/ pc' # "run"
<1>1. CASE ChildWrites
  <2>1. PICK n \in 1 .. MaxOutput - wrote : wrote' = wrote + n
      BY <1>1 DEF ChildWrites
  <2>2. wrote \in Nat
      BY DEF ToolInv, OutputInv
  <2> QED BY <2>1, <2>2, ToolBounds
<1>2. CASE ChildCloses \/ ChildExits \/ UNCHANGED vars
  <2>1. UNCHANGED <<left, inPipe, phase>>
      BY <1>2 DEF ChildCloses, ChildExits, ChildUnchanged, runVars, vars
  <2> QED BY <2>1 DEF Patience
<1> QED BY <1>1, <1>2 DEF Next, BeginTurn, Accepted, OtherEvent, EndTurn, ToolIntent, Running

\* A tool whose output is open holds up the turn for 2 * (Ticks + PipeCap) + 1 steps of
\* tool_runner_run at most after it last wrote: each poll without a byte is charged
\* to the timeout, each with bytes empties the pipe, and only the child fills it.  A
\* run without a timeout (Ticks = 0) and a closed output are not charged.
THEOREM SilenceIsCharged ==
    ASSUME Ticks > 0
    PROVE  Spec => /\ [](Patience \in 0..2 * (Ticks + PipeCap) + 1)
                   /\ [][Running /\ pc' = "run" =>
                           /\ Runner => Patience' < Patience
                           /\ Patience' > Patience => wrote' > wrote]_vars
<1>1. ToolInv => Patience \in 0..2 * (Ticks + PipeCap) + 1
    BY PatienceType
<1>2. ToolInv /\ ToolInv' /\ [Next]_vars =>
        [Running /\ pc' = "run" => /\ Runner => Patience' < Patience
                                   /\ Patience' > Patience => wrote' > wrote]_vars
  <2> SUFFICES ASSUME ToolInv, ToolInv', [Next]_vars, Running, pc' = "run"
               PROVE  /\ Runner => Patience' < Patience
                      /\ Patience' > Patience => wrote' > wrote
      OBVIOUS
  <2>1. Runner => Patience' < Patience
      BY RoundCounts
  <2>2. Patience \in Nat /\ Patience' \in Nat
    <3>1. left' \in Nat /\ Len(inPipe') \in Nat
        BY ToolBounds, LenProperties DEF ToolInv, ChildInv, OutputInv
    <3>2. Patience \in Nat
        BY PatienceType
    <3> QED BY <3>1, <3>2 DEF Patience
  <2>3. ~Runner => (Patience' > Patience => wrote' > wrote)
    <3> SUFFICES ASSUME ~Runner PROVE Patience' = Patience \/ wrote' > wrote
        BY <2>2
    <3> QED BY OnlyOutputAdds
  <2>4. Runner => ~(Patience' > Patience)
    <3> HIDE DEF Patience
    <3> QED BY <2>1, <2>2
  <2> QED BY <2>1, <2>3, <2>4
<1> QED BY <1>1, <1>2, ToolAlways, PTL DEF Spec

=============================================================================
