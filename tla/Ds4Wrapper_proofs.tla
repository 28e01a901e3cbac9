------------------------- MODULE Ds4Wrapper_proofs -------------------------
(***************************************************************************)
(* The wrapper and its ds4 process, proved for every value of the          *)
(* constants: whose output a turn shows, what the context ds4 works in     *)
(* holds, with which effort it was launched, and that no turn goes on for  *)
(* ever.                                                                   *)
(***************************************************************************)
EXTENDS Ds4Wrapper, SequenceTheorems, TLAPS

-----------------------------------------------------------------------------
(* What the wrapper and the process hold at each point.                    *)

\* What TypeOK needs to be inductive, apart from the commands; the process starts
\* only while the wrapper waits for it.
ShapeInv ==
    /\ pc \in {"launch", "idle", "save", "switch", "prompt", "stream", "judge", "ended"}
    /\ cur \in Requests /\ session \in BOOLEAN /\ current \in Efforts \cup {NoEffort}
    /\ conts \in 0..MaxContinuations /\ ds4 \in {"none", "starting", "up", "dead"}
    /\ flag \in Efforts \cup {NoEffort} /\ home \in 0..MaxRequests
    /\ said \in 0..MaxLines /\ deaths \in 0..MaxDeaths
    /\ late \in BOOLEAN /\ faithful \in BOOLEAN /\ told \subseteq 1..MaxRequests
    /\ born \in 0..cur.of /\ epoch \in 0..born
    /\ busy # Nothing => ds4 = "up"
    /\ ds4 = "starting" => pc = "launch"
    /\ pc \notin {"launch", "idle", "ended"} => cur.of > 0
    /\ savedId \in {NoId, Bogus} \cup 1..MaxRequests
    /\ pc = "launch" => savedId \in {NoId, Bogus} \cup epoch..cur.of

\* The commands sent since ds4 was launched: a prompt whose request names an effort
\* names the one ds4 runs with, a save is known by its request's number, and a switch
\* asks for nothing older than the last reset.
Sent == { c \in Commands :
    /\ c.kind \in {"prompt", "save", "switch"}
    /\ c.of \in 1..cur.of /\ c.of >= born
    /\ c.kind = "prompt" /\ c.effort # NoEffort => c.effort = flag
    /\ c.kind = "save" => c.id = c.of
    /\ c.kind = "switch" => c.id \in {NoId, Bogus} \/ c.id >= epoch }

PlayInv ==
    /\ input \in Seq(Sent) /\ busy \in Sent \cup {Nothing}
    /\ lines \in Seq(Sent \cup {Marker}) /\ taken \subseteq Sent
    /\ pc \in {"launch", "idle", "switch"} => taken = {}

\* The effort the wrapper remembers, if any, and the request's, if it names one, are
\* those ds4 was launched with, as long as there is a session at all.
EffortInv ==
    /\ pc \in {"launch", "switch"} => flag = cur.effort
    /\ cur.of = 0 => current = NoEffort
    /\ session /\ pc \notin {"launch", "switch"} => current \in {NoEffort, flag}
    /\ session /\ pc \in {"prompt", "stream", "judge"} => cur.effort \in {NoEffort, flag}

\* No context holds a request from before the last reset, unless it was saved then.
ContextInv ==
    /\ mem \subseteq 1..MaxRequests /\ \A r \in mem : r >= epoch
    /\ \A k \in kept : /\ k.home \in 0..MaxRequests /\ k.id \in 1..cur.of
                       /\ k.mem \subseteq 1..MaxRequests
                       /\ k.id >= epoch => \A r \in k.mem : r >= epoch

BaseInv == ShapeInv /\ PlayInv /\ EffortInv /\ ContextInv

-----------------------------------------------------------------------------
(* Until a wait is given up, wrapper and process stay in step.             *)

Silent == input = <<>> /\ busy = Nothing /\ lines = <<>>

Mine(c, kind) == c.kind = kind /\ c.of = cur.of

\* one command is being worked on: it is to be read, or what is printed for it,
\* and at the end the marker, is on its way
Working(kind) ==
    \/ ds4 = "dead" /\ Silent
    \/ Len(input) = 1 /\ Mine(input[1], kind) /\ busy = Nothing /\ lines = <<>>
    \/ input = <<>> /\ Mine(busy, kind) /\ \A i \in 1..Len(lines) : Mine(lines[i], kind)
    \/ /\ input = <<>> /\ busy = Nothing /\ lines # <<>> /\ lines[Len(lines)] = Marker
       /\ \A i \in 1 .. Len(lines) - 1 : Mine(lines[i], kind)

StepInv ==
    ~late =>
      /\ ds4 = "dead" => Silent
      /\ pc \in {"idle", "prompt", "judge", "ended"} => Silent
      /\ pc = "launch" => input = <<>> /\ busy = Nothing /\ lines \in {<<>>, <<Marker>>}
      /\ pc = "save" => Working("save")
      /\ pc = "switch" => Working("switch")
      /\ pc = "stream" => Working("prompt")
      /\ pc = "save" => \A c \in taken : Mine(c, "save")
      /\ pc \in {"prompt", "stream", "judge"} => \A c \in taken : Mine(c, "prompt")

-----------------------------------------------------------------------------
(* As long as nothing failed, the context follows the conversation.        *)

\* this request saved the context, and it is all prompts since the reset
SavedNow == {k.mem : k \in {s \in kept : s.home = home /\ s.id = cur.of}} = {told}

\* the save printed its id
IdPrinted == taken # {} \/ (lines # <<>> /\ lines[1] # Marker)

FaithInv ==
    faithful =>
      /\ ~late
      /\ pc # "ended" => session /\ ds4 \in {"starting", "up"}
      /\ pc \in {"idle", "prompt", "stream", "judge", "save"} => mem = told
      /\ pc = "launch" => IF cur.reset \/ cur.of = 0 THEN mem = told
                                                     ELSE savedId = cur.of /\ SavedNow
      /\ pc = "switch" => IF input = <<>> THEN mem = told
                                          ELSE input[1].id = cur.of /\ SavedNow
      /\ pc = "save" => /\ ~cur.reset
                        /\ IF input # <<>> THEN \A k \in kept : k.id # cur.of
                           ELSE SavedNow /\ (busy = Nothing \/ said > 0 => IdPrinted)

\* Only a command just sent is still being written.
WriteInv == writing => InCommand

Ds4Inv == BaseInv /\ StepInv /\ FaithInv /\ WriteInv

-----------------------------------------------------------------------------
(* Commands, lines and types.                                              *)

LEMMA InitBase == Init => BaseInv
<1> SUFFICES ASSUME Init PROVE BaseInv
    OBVIOUS
<1> USE DEF Init
<1>1. ShapeInv
  <2>1. 0 \in 0..MaxRequests /\ 0 \in 0..MaxContinuations /\ 0 \in 0..MaxLines /\ 0 \in 0..MaxDeaths
      BY Ds4Bounds
  <2>2. cur \in Requests /\ cur.of = 0
      BY <2>1 DEF Requests
  <2>3. born \in 0..cur.of /\ epoch \in 0..born
      BY <2>2
  <2> QED BY <2>1, <2>2, <2>3 DEF ShapeInv
<1>2. PlayInv  BY EmptySeq DEF PlayInv
<1>3. EffortInv  BY DEF EffortInv
<1>4. ContextInv  BY Ds4Bounds DEF ContextInv
<1> QED BY <1>1, <1>2, <1>3, <1>4 DEF BaseInv

LEMMA CurrentRequest ==
    ASSUME ShapeInv
    PROVE  /\ cur.of \in 0..MaxRequests /\ cur.of \in Nat /\ born \in Nat /\ epoch \in Nat
           /\ epoch <= born /\ born <= cur.of /\ cur.effort \in Efforts \cup {NoEffort}
           /\ MaxRequests \in Nat
BY Ds4Bounds DEF ShapeInv, Requests

LEMMA SentSame == UNCHANGED <<cur, born, flag, epoch>> => Sent' = Sent
BY DEF Sent

\* the commands the wrapper composes
LEMMA Composed ==
    ASSUME ShapeInv, cur.of > 0
    PROVE  /\ cur.effort \in {NoEffort, flag} => Command("prompt", 0) \in Sent
           /\ savedId \in {NoId, Bogus} \cup epoch..cur.of => Command("switch", savedId) \in Sent
<1>1. /\ cur.of \in 1..MaxRequests /\ born <= cur.of /\ cur.of \in 1..cur.of
      /\ cur.effort \in Efforts \cup {NoEffort} /\ 0 \in 0..MaxRequests
    BY CurrentRequest
<1>2. cur.effort \in {NoEffort, flag} => Command("prompt", 0) \in Sent
    BY <1>1 DEF Command, Commands, Sent
<1>3. ASSUME savedId \in {NoId, Bogus} \cup epoch..cur.of
      PROVE  Command("switch", savedId) \in Sent
  <2>1. savedId \in {NoId, Bogus} \cup 0..MaxRequests /\ (savedId \in {NoId, Bogus} \/ savedId >= epoch)
      BY <1>3, CurrentRequest
  <2> QED BY <1>1, <2>1 DEF Command, Commands, Sent
<1> QED BY <1>2, <1>3

LEMMA LaunchBase ==
    ASSUME BaseInv, NEW h \in 0..MaxRequests, Launch(cur'.effort, h),
           taken' = {}, UNCHANGED <<conts, current, kept, deaths>>,
           cur' \in Requests, cur'.of \in {cur.of, cur.of + 1}, cur'.of > 0,
           epoch' = epoch \/ (cur'.of = cur.of + 1 /\ epoch' = cur'.of),
           savedId' \in {NoId, Bogus} \cup 1..MaxRequests,
           savedId' \in {NoId, Bogus} \cup epoch'..cur'.of,
           told' \subseteq 1..MaxRequests, faithful' \in BOOLEAN
    PROVE  BaseInv'
<1> USE DEF BaseInv
<1>1. /\ pc' = "launch" /\ session' = TRUE /\ ds4' = "starting" /\ flag' = cur'.effort
      /\ home' = h /\ mem' = {} /\ input' = <<>> /\ busy' = Nothing /\ said' = 0
      /\ lines' = <<>> /\ late' = FALSE /\ born' = cur'.of
    BY DEF Launch
<1>2. /\ cur.of \in Nat /\ cur'.of \in 0..MaxRequests /\ epoch \in Nat /\ epoch <= cur.of
      /\ cur'.effort \in Efforts \cup {NoEffort}
    BY CurrentRequest DEF Requests
<1>3. ShapeInv'
  <2>1. born' \in 0..cur'.of /\ epoch' \in 0..born' /\ said' \in 0..MaxLines
      BY <1>1, <1>2, Ds4Bounds
  <2> QED BY <1>1, <1>2, <2>1 DEF ShapeInv
<1>4. PlayInv'
    BY <1>1, EmptySeq DEF PlayInv
<1>5. EffortInv'
    BY <1>1, <1>2 DEF EffortInv
<1>6. ContextInv'
  <2>1. ASSUME NEW k \in kept
        PROVE  /\ k.home \in 0..MaxRequests /\ k.id \in 1..cur'.of /\ k.mem \subseteq 1..MaxRequests
               /\ k.id >= epoch' => \A r \in k.mem : r >= epoch'
    <3>1. /\ k.home \in 0..MaxRequests /\ k.id \in 1..cur.of /\ k.mem \subseteq 1..MaxRequests
          /\ k.id >= epoch => \A r \in k.mem : r >= epoch
        BY DEF ContextInv
    <3>2. k.id \in 1..cur'.of /\ k.id < cur.of + 1
        BY <1>2, <3>1
    <3>3. k.id >= epoch' => epoch' = epoch
        BY <1>2, <3>1, <3>2
    <3> QED BY <3>1, <3>2, <3>3
  <2> QED BY <1>1, <2>1 DEF ContextInv
<1> QED BY <1>3, <1>4, <1>5, <1>6

\* steps of the process
LEMMA ProcessBase ==
    ASSUME BaseInv, Process
    PROVE  BaseInv'
<1> USE DEF BaseInv
<1>1. UNCHANGED <<pc, cur, conts, taken, wrapperVars, flag, home, late, epoch, born>>
    BY DEF Process, Starts, Reads, Takes, Prints, Waits, Dies, turnVars, processVars, history
<1>2. Sent' = Sent
    BY <1>1, SentSame
<1>3. EffortInv'
    BY <1>1 DEF EffortInv, wrapperVars
<1>4. CASE Starts
  <2>1. /\ ds4 = "starting" /\ ds4' = "up" /\ lines' = <<Marker>>
        /\ UNCHANGED <<input, busy, said, kept, deaths, mem, faithful, told>>
      BY <1>4 DEF Starts, processVars, history, saveVars
  <2>2. ShapeInv'
      BY <1>1, <2>1 DEF ShapeInv, turnVars, wrapperVars
  <2>3. PlayInv'
      BY <1>1, <1>2, <2>1 DEF PlayInv, turnVars
  <2>4. ContextInv'
      BY <1>1, <2>1 DEF ContextInv, turnVars
  <2> QED BY <1>3, <2>2, <2>3, <2>4
<1>5. CASE Takes
  <2> DEFINE c == Head(input)
  <2>1. c \in Sent /\ Tail(input) \in Seq(Sent)
      BY <1>5, HeadTailProperties DEF Takes, PlayInv
  <2>2. /\ ds4 = "up" /\ busy' = c /\ input' = Tail(input) /\ said' = 0
        /\ UNCHANGED <<ds4, lines, deaths, faithful>>
      BY <1>5 DEF Takes
  <2>3. /\ mem' = CASE c.kind = "prompt" -> mem \cup {c.of}
                    [] c.kind = "switch" /\ Restored(c) # {} -> UNION Restored(c)
                    [] OTHER -> mem
        /\ kept' = IF c.kind = "save" THEN kept \cup {[home |-> home, id |-> c.of, mem |-> mem]}
                   ELSE kept
        /\ told' = IF c.kind = "prompt" THEN told \cup {c.of} ELSE told
      BY <1>5 DEF Takes
  <2> HIDE DEF c
  <2>4. c.of \in 1..MaxRequests /\ c.of \in 1..cur.of /\ c.of >= epoch
      BY <2>1, CurrentRequest DEF Sent
  <2>5. ShapeInv'
    <3>1. told' \subseteq 1..MaxRequests
        BY <2>3, <2>4 DEF ShapeInv
    <3>2. said' \in 0..MaxLines
        BY <2>2, Ds4Bounds
    <3> QED BY <1>1, <2>2, <3>1, <3>2 DEF ShapeInv, turnVars, wrapperVars
  <2>6. PlayInv'
      BY <1>1, <1>2, <2>1, <2>2 DEF PlayInv, turnVars
  <2>7. mem' \subseteq 1..MaxRequests /\ \A r \in mem' : r >= epoch
    <3>1. CASE c.kind = "prompt"
      <4>1. mem' = mem \cup {c.of}
          BY <2>3, <3>1
      <4> QED BY <2>4, <4>1 DEF ContextInv
    <3>2. CASE c.kind = "switch" /\ Restored(c) # {}
      <4>1. mem' = UNION Restored(c)
          BY <2>3, <3>2
      <4>2. ASSUME NEW r \in mem' PROVE r \in 1..MaxRequests /\ r >= epoch
        <5>1. PICK k \in kept : k.id = c.id /\ r \in k.mem
            BY <4>1 DEF Restored
        <5>2. k.id \in 1..cur.of /\ k.mem \subseteq 1..MaxRequests
            BY DEF ContextInv
        <5>3. c.id \in {NoId, Bogus} \/ c.id >= epoch
            BY <2>1, <3>2 DEF Sent
        <5>4. k.id >= epoch
            BY <5>1, <5>2, <5>3, CurrentRequest DEF NoId, Bogus
        <5> QED BY <5>1, <5>2, <5>4 DEF ContextInv
      <4> QED BY <4>2
    <3>3. CASE c.kind # "prompt" /\ ~(c.kind = "switch" /\ Restored(c) # {})
      <4>1. mem' = mem
          BY <2>3, <3>3
      <4> QED BY <4>1 DEF ContextInv
    <3> QED BY <3>1, <3>2, <3>3
  <2>8. ContextInv'
    <3>1. ASSUME NEW k \in kept'
          PROVE  /\ k.home \in 0..MaxRequests /\ k.id \in 1..cur.of /\ k.mem \subseteq 1..MaxRequests
                 /\ k.id >= epoch => \A r \in k.mem : r >= epoch
      <4>1. CASE k \in kept
          BY <4>1 DEF ContextInv
      <4>2. CASE k = [home |-> home, id |-> c.of, mem |-> mem]
          BY <2>4, <4>2 DEF ContextInv, ShapeInv
      <4> QED BY <2>3, <4>1, <4>2
    <3>2. UNCHANGED <<cur, epoch>>
        BY <1>1 DEF turnVars
    <3> QED BY <2>7, <3>1, <3>2 DEF ContextInv
  <2> QED BY <1>3, <2>5, <2>6, <2>8
<1>6. CASE Prints \/ Waits
  <2>1. /\ ds4 = "up" /\ busy # Nothing /\ UNCHANGED <<ds4, input, kept, deaths, mem, faithful, told>>
        /\ \/ lines' = Append(lines, busy) /\ said' = said + 1 /\ said < MaxLines /\ busy' = busy
           \/ lines' = Append(lines, Marker) /\ said' = 0 /\ busy' = Nothing
      BY <1>6 DEF Prints, Waits, processVars, history, saveVars
  <2>2. ShapeInv'
    <3>1. said' \in 0..MaxLines
        BY <2>1, Ds4Bounds DEF ShapeInv
    <3>2. busy' # Nothing => ds4' = "up"
        BY <2>1
    <3> QED BY <1>1, <2>1, <3>1, <3>2 DEF ShapeInv, turnVars, wrapperVars
  <2>3. PlayInv'
    <3>1. busy \in Sent \cup {Marker} /\ busy' \in Sent \cup {Nothing}
        BY <2>1 DEF PlayInv
    <3>2. lines' \in Seq(Sent \cup {Marker})
      <4>1. lines \in Seq(Sent \cup {Marker}) /\ Marker \in Sent \cup {Marker}
          BY DEF PlayInv
      <4>2. Append(lines, busy) \in Seq(Sent \cup {Marker})
          BY <3>1, <4>1, AppendProperties
      <4>3. Append(lines, Marker) \in Seq(Sent \cup {Marker})
          BY <4>1, AppendProperties
      <4> QED BY <2>1, <4>2, <4>3
    <3> QED BY <1>1, <1>2, <2>1, <3>1, <3>2 DEF PlayInv, turnVars
  <2>4. ContextInv'
      BY <1>1, <2>1 DEF ContextInv, turnVars
  <2> QED BY <1>3, <2>2, <2>3, <2>4
<1>7. CASE Dies
  <2>1. /\ ds4' = "dead" /\ deaths < MaxDeaths /\ deaths' = deaths + 1 /\ faithful' = FALSE
        /\ input' = <<>> /\ busy' = Nothing /\ said' = 0 /\ lines' = <<>>
        /\ UNCHANGED <<kept, mem, told>>
      BY <1>7 DEF Dies, processVars
  <2>2. ShapeInv'
    <3>1. said' \in 0..MaxLines /\ deaths' \in 0..MaxDeaths
        BY <2>1, Ds4Bounds DEF ShapeInv
    <3> QED BY <1>1, <2>1, <3>1 DEF ShapeInv, turnVars, wrapperVars
  <2>3. PlayInv'
      BY <1>1, <1>2, <2>1, EmptySeq DEF PlayInv, turnVars
  <2>4. ContextInv'
      BY <1>1, <2>1 DEF ContextInv, turnVars
  <2> QED BY <1>3, <2>2, <2>3, <2>4
<1>8. CASE Reads
  <2>1. UNCHANGED <<ds4, mem, input, busy, said, lines, kept, deaths, faithful, told>>
      BY <1>8 DEF Reads, processVars, outputVars, saveVars, history
  <2>2. ShapeInv'
      BY <1>1, <2>1 DEF ShapeInv, wrapperVars
  <2>3. PlayInv'
      BY <1>1, <1>2, <2>1 DEF PlayInv
  <2>4. ContextInv'
      BY <1>1, <2>1 DEF ContextInv
  <2> QED BY <1>3, <2>2, <2>3, <2>4
<1> QED BY <1>4, <1>5, <1>6, <1>7, <1>8 DEF Process

-----------------------------------------------------------------------------
(* The wrapper's steps.                                                    *)

\* a restart between /save and /switch, and what it may have saved under
LEMMA SavedIdType ==
    ASSUME BaseInv, NEW id \in SavedIds
    PROVE  id \in {NoId, Bogus} \cup epoch..cur.of /\ id \in {NoId, Bogus} \cup 1..MaxRequests
<1>1. id \in {NoId, Bogus} \/ \E c \in taken : c.kind = "save" /\ id = c.id
    BY DEF SavedIds
<1>2. ASSUME NEW c \in taken, c.kind = "save" PROVE c.id \in epoch..cur.of /\ c.id \in 1..MaxRequests
  <2>1. c \in Sent
      BY DEF BaseInv, PlayInv
  <2>2. c.id = c.of /\ c.of \in 1..cur.of /\ c.of >= born
      BY <1>1, <1>2, <2>1 DEF Sent
  <2> QED BY <2>2, CurrentRequest DEF BaseInv
<1> QED BY <1>1, <1>2

LEMMA OldHomeType == ShapeInv => OldHome \in 0..MaxRequests
BY CurrentRequest DEF ShapeInv, OldHome

LEMMA SaveEndsBase ==
    ASSUME BaseInv, pc = "save", UNCHANGED <<cur, kept, deaths, told, epoch>>, EndWait,
           faithful' \in BOOLEAN
    PROVE  BaseInv'
<1>1. PICK id \in SavedIds :
         /\ savedId' = id /\ taken' = {} /\ Launch(cur.effort, OldHome)
         /\ UNCHANGED <<conts, current>>
    BY DEF EndWait
<1>2. PICK h \in 0..MaxRequests : h = OldHome
    BY OldHomeType DEF BaseInv
<1>3. Launch(cur'.effort, h)
    BY <1>1, <1>2
<1>4. /\ cur' \in Requests /\ cur'.of = cur.of /\ cur'.of > 0
      /\ told' \subseteq 1..MaxRequests
    BY DEF BaseInv, ShapeInv
<1>5. /\ savedId' \in {NoId, Bogus} \cup 1..MaxRequests
      /\ savedId' \in {NoId, Bogus} \cup epoch'..cur'.of
    BY <1>1, SavedIdType
<1> QED BY <1>1, <1>3, <1>4, <1>5, LaunchBase

\* steps of the wrapper that neither restart the process nor take a request
LEMMA WrapperBase ==
    ASSUME BaseInv, Wrapper
    PROVE  BaseInv'
<1> USE DEF BaseInv
<1>1. CASE pc = "save" /\ (ReadMarker \/ GiveUp \/ SeesExit)
  <2>1. EndWait /\ UNCHANGED <<cur, kept, deaths, told, epoch>> /\ faithful' \in {faithful, FALSE}
      BY <1>1 DEF ReadMarker, GiveUp, SeesExit, saveVars
  <2> QED BY <1>1, <2>1, SaveEndsBase DEF ShapeInv
<1>2. CASE ~(pc = "save" /\ (ReadMarker \/ GiveUp \/ SeesExit))
  <2>1. UNCHANGED <<cur, flag, home, saveVars, told, epoch, born>>
      BY <1>2 DEF Wrapper, Started, StartFails, Prompt, ReadLine, ReadMarker, GiveUp, SeesExit,
         Judge, EndWait, turnVars, processVars, history
  <2>2. Sent' = Sent
      BY <2>1, SentSame
  <2>3. CASE Started
    <3>1. /\ pc = "launch" /\ ds4 = "up" /\ lines # <<>> /\ lines' = Tail(lines)
          /\ UNCHANGED <<session, savedId, ds4, mem, busy, said, taken, conts, deaths, late, faithful>>
        BY <2>3 DEF Started, AfterMarker, turnVars, processVars, saveVars, history
    <3>2. \/ cur.of = 0 /\ pc' = "idle" /\ UNCHANGED <<current, input>>
          \/ cur.of > 0 /\ pc' = "prompt" /\ current' = cur.effort /\ UNCHANGED input
          \/ cur.of > 0 /\ pc' = "switch" /\ Send(Command("switch", savedId)) /\ UNCHANGED current
        BY <2>3 DEF Started, NewEffort
    <3>3. ShapeInv'
        BY <2>1, <3>1, <3>2, CurrentRequest DEF ShapeInv
    <3>4. PlayInv'
      <4>1. lines' \in Seq(Sent \cup {Marker})
          BY <3>1, HeadTailProperties DEF PlayInv
      <4>2. cur.of > 0 => Command("switch", savedId) \in Sent
          BY <3>1, Composed DEF ShapeInv
      <4>3. input' \in Seq(Sent)
          BY <3>2, <4>2, AppendProperties DEF PlayInv, Send
      <4> QED BY <2>2, <3>1, <4>1, <4>3 DEF PlayInv
    <3>5. EffortInv'
        BY <2>1, <3>1, <3>2, CurrentRequest DEF EffortInv
    <3>6. ContextInv'
        BY <2>1, <3>1 DEF ContextInv, saveVars
    <3> QED BY <3>3, <3>4, <3>5, <3>6
  <2>4. CASE StartFails
    <3>1. /\ pc = "launch" /\ session' = FALSE /\ ds4' = "none" /\ pc' \in {"idle", "ended"}
          /\ input' = <<>> /\ busy' = Nothing /\ said' = 0 /\ lines' = <<>> /\ mem' = {}
          /\ faithful' = FALSE
          /\ UNCHANGED <<taken, conts, current, savedId, deaths, late>>
        BY <2>4 DEF StartFails, turnVars, saveVars
    <3>2. ShapeInv'
      <4>1. said' \in 0..MaxLines
          BY <3>1, Ds4Bounds
      <4> QED BY <2>1, <3>1, <4>1 DEF ShapeInv
    <3>3. PlayInv'
        BY <2>2, <3>1, EmptySeq DEF PlayInv
    <3>4. EffortInv'
        BY <2>1, <3>1 DEF EffortInv
    <3>5. ContextInv'
        BY <2>1, <3>1 DEF ContextInv, saveVars
    <3> QED BY <3>2, <3>3, <3>4, <3>5
  <2>5. CASE Prompt
    <3>1. /\ pc = "prompt"
          /\ UNCHANGED <<taken, conts, session, current, savedId, ds4, mem, busy, said, lines,
                         deaths, late, faithful>>
          /\ \/ session /\ pc' = "stream" /\ Send(Command("prompt", 0))
             \/ pc' = "judge" /\ UNCHANGED input
        BY <2>5 DEF Prompt, turnVars, wrapperVars, processVars, saveVars, history
    <3>2. ShapeInv'
        BY <2>1, <3>1 DEF ShapeInv
    <3>3. PlayInv'
      <4>1. session => Command("prompt", 0) \in Sent
          BY <3>1, Composed DEF ShapeInv, EffortInv
      <4>2. input' \in Seq(Sent)
          BY <3>1, <4>1, AppendProperties DEF PlayInv, Send
      <4> QED BY <2>2, <3>1, <4>2 DEF PlayInv
    <3>4. EffortInv'
        BY <2>1, <3>1 DEF EffortInv
    <3>5. ContextInv'
        BY <2>1, <3>1 DEF ContextInv, saveVars
    <3> QED BY <3>2, <3>3, <3>4, <3>5
  <2>6. CASE ReadLine
    <3>1. /\ lines # <<>> /\ Head(lines) # Marker /\ lines' = Tail(lines)
          /\ taken' = taken \/ (taken' = taken \cup {Head(lines)} /\ pc \in {"save", "stream"})
          /\ UNCHANGED <<pc, conts, session, current, savedId, ds4, mem, input, busy, said,
                         deaths, late, faithful>>
        BY <2>6 DEF ReadLine, wrapperVars, processVars, saveVars, history
    <3>2. ShapeInv'
        BY <2>1, <3>1 DEF ShapeInv
    <3>3. PlayInv'
      <4>1. Head(lines) \in Sent /\ lines' \in Seq(Sent \cup {Marker})
          BY <3>1, HeadTailProperties DEF PlayInv
      <4>2. taken' \subseteq Sent
          BY <3>1, <4>1 DEF PlayInv
      <4> QED BY <2>2, <3>1, <4>1, <4>2 DEF PlayInv
    <3>4. EffortInv'
        BY <2>1, <3>1 DEF EffortInv
    <3>5. ContextInv'
        BY <2>1, <3>1 DEF ContextInv, saveVars
    <3> QED BY <3>2, <3>3, <3>4, <3>5
  <2>7. CASE pc # "save" /\ (ReadMarker \/ GiveUp \/ SeesExit)
    <3>1. /\ \/ pc = "switch" /\ pc' = "prompt" /\ current' = cur.effort
             \/ pc = "stream" /\ pc' = "judge" /\ UNCHANGED current
          /\ UNCHANGED <<taken, conts, session, savedId, ds4, mem, input, busy, said, deaths>>
        BY <2>7 DEF ReadMarker, GiveUp, SeesExit, EndWait, wrapperVars, processVars, saveVars
    <3>2. /\ lines' = lines \/ (lines # <<>> /\ lines' = Tail(lines))
          /\ late' \in {late, TRUE} /\ faithful' \in {faithful, FALSE}
        BY <2>7 DEF ReadMarker, GiveUp, SeesExit
    <3>3. ShapeInv'
      <4>1. current' \in Efforts \cup {NoEffort}
          BY <3>1, CurrentRequest DEF ShapeInv
      <4>2. late' \in BOOLEAN /\ faithful' \in BOOLEAN
          BY <3>2 DEF ShapeInv
      <4>3. pc \notin {"launch", "idle", "ended"} /\ pc' \in {"prompt", "judge"}
          BY <3>1
      <4> QED BY <2>1, <3>1, <4>1, <4>2, <4>3 DEF ShapeInv
    <3>4. PlayInv'
      <4>1. lines' \in Seq(Sent \cup {Marker})
          BY <3>2, HeadTailProperties DEF PlayInv
      <4> QED BY <2>2, <3>1, <4>1 DEF PlayInv
    <3>5. EffortInv'
        BY <2>1, <3>1, CurrentRequest DEF EffortInv, ShapeInv
    <3>6. ContextInv'
        BY <2>1, <3>1 DEF ContextInv, saveVars
    <3> QED BY <3>3, <3>4, <3>5, <3>6
  <2>8. CASE Judge
    <3>1. /\ pc = "judge"
          /\ UNCHANGED <<session, current, savedId, ds4, mem, input, busy, said, lines, deaths,
                         late, faithful>>
          /\ \/ conts < MaxContinuations /\ conts' = conts + 1 /\ pc' = "prompt" /\ UNCHANGED taken
             \/ pc' = "idle" /\ taken' = {} /\ conts' = 0
        BY <2>8 DEF Judge, MayContinue, wrapperVars, processVars, outputVars, saveVars, history
    <3>2. ShapeInv'
      <4>1. conts' \in 0..MaxContinuations
          BY <3>1, Ds4Bounds DEF ShapeInv
      <4> QED BY <2>1, <3>1, <4>1 DEF ShapeInv
    <3>3. PlayInv'
        BY <2>2, <3>1 DEF PlayInv
    <3>4. EffortInv'
        BY <2>1, <3>1 DEF EffortInv
    <3>5. ContextInv'
        BY <2>1, <3>1 DEF ContextInv, saveVars
    <3> QED BY <3>2, <3>3, <3>4, <3>5
  <2> QED BY <1>2, <2>3, <2>4, <2>5, <2>6, <2>7, <2>8 DEF Wrapper
<1> QED BY <1>1, <1>2

LEMMA RequestBase ==
    ASSUME BaseInv, TakeRequest
    PROVE  BaseInv'
<1> USE DEF BaseInv
<1>1. /\ pc = "idle" /\ cur' \in Requests /\ cur'.of = cur.of + 1
      /\ UNCHANGED <<conts, kept, deaths>>
    BY DEF TakeRequest, saveVars
<1>2. /\ cur.of \in Nat /\ cur'.of > 0 /\ cur'.of \in 1..MaxRequests
      /\ cur'.effort \in Efforts \cup {NoEffort} /\ born <= cur.of /\ epoch <= born
      /\ born \in Nat /\ epoch \in Nat
    BY <1>1, CurrentRequest DEF Requests
<1>3. CASE Reset
  <2>1. /\ taken' = {} /\ savedId' = NoId /\ Launch(cur'.effort, cur'.of) /\ faithful' = TRUE
        /\ told' = {} /\ epoch' = cur'.of /\ UNCHANGED current
      BY <1>3 DEF Reset
  <2>2. PICK h \in 0..MaxRequests : h = cur'.of
      BY <1>2
  <2> QED BY <1>1, <1>2, <2>1, <2>2, LaunchBase
<1>4. CASE ChangeEffort /\ pc' # "save"
  <2>1. /\ taken' = {} /\ savedId' = NoId /\ Launch(cur'.effort, OldHome)
        /\ UNCHANGED <<current, faithful, told, epoch>>
      BY <1>4 DEF ChangeEffort, Relaunch
  <2>2. PICK h \in 0..MaxRequests : h = OldHome
      BY OldHomeType
  <2> QED BY <1>1, <1>2, <2>1, <2>2, LaunchBase DEF ShapeInv
<1>5. CASE KeepEffort \/ (ChangeEffort /\ pc' = "save")
  <2>1. /\ taken' = {}
        /\ UNCHANGED <<session, savedId, ds4, flag, home, mem, busy, said, lines, late, faithful,
                       told, epoch, born>>
      BY <1>5 DEF KeepEffort, ChangeEffort, Relaunch, Launch, processVars, outputVars, history
  <2>2. \/ /\ pc' = "prompt" /\ current' = cur'.effort /\ cur'.effort \in {NoEffort, current}
           /\ UNCHANGED input
        \/ /\ pc' = "save" /\ UNCHANGED current
           /\ input' = Append(input, [kind |-> "save", of |-> cur'.of, effort |-> cur'.effort,
                                      id |-> cur'.of])
      BY <1>5 DEF KeepEffort, ChangeEffort, Changes, Relaunch, Launch, Send, outputVars
  <2>3. Sent \subseteq Sent'
      BY <1>1, <1>2, <2>1 DEF Sent
  <2>4. ShapeInv'
    <3>1. born' \in 0..cur'.of
        BY <1>1, <1>2, <2>1
    <3> QED BY <1>1, <1>2, <2>1, <2>2, <3>1 DEF ShapeInv
  <2>5. PlayInv'
    <3> DEFINE s == [kind |-> "save", of |-> cur'.of, effort |-> cur'.effort, id |-> cur'.of]
    <3>1. s \in Sent'
        BY <1>1, <1>2, <2>1 DEF Sent, Commands
    <3> HIDE DEF s
    <3>2. input \in Seq(Sent') /\ lines \in Seq((Sent \cup {Marker})')
      <4>1. input \in Seq(Sent) /\ lines \in Seq(Sent \cup {Marker})
          BY DEF PlayInv
      <4>2. Sent \cup {Marker} \subseteq (Sent \cup {Marker})'
          BY <2>3 DEF Marker
      <4> QED BY <2>3, <4>1, <4>2, SeqMonotonic
    <3>3. input' \in Seq(Sent')
        BY <2>2, <3>1, <3>2, AppendProperties DEF s
    <3>4. busy' \in Sent' \cup {Nothing}
        BY <2>1, <2>3 DEF PlayInv
    <3> QED BY <2>1, <2>2, <3>2, <3>3, <3>4 DEF PlayInv
  <2>6. EffortInv'
      BY <1>1, <1>2, <2>1, <2>2 DEF EffortInv
  <2>7. ContextInv'
    <3>1. \A k \in kept : k.id \in 1..cur.of => k.id \in 1..cur'.of
        BY <1>1, <1>2
    <3> QED BY <1>1, <2>1, <3>1 DEF ContextInv
  <2> QED BY <2>4, <2>5, <2>6, <2>7
<1> QED BY <1>3, <1>4, <1>5 DEF TakeRequest

LEMMA FinishBase ==
    ASSUME BaseInv, Finish
    PROVE  BaseInv'
<1> USE DEF BaseInv
<1>1. /\ pc = "idle" /\ pc' = "ended" /\ session' = FALSE /\ ds4' = "none"
      /\ input' = <<>> /\ busy' = Nothing /\ said' = 0 /\ lines' = <<>>
      /\ UNCHANGED <<turnVars, current, savedId, processVars, saveVars, history>>
    BY DEF Finish
<1>2. Sent' = Sent
    BY <1>1, SentSame DEF turnVars, processVars, history
<1>3. ShapeInv'
  <2>1. said' \in 0..MaxLines
      BY <1>1, Ds4Bounds
  <2> QED BY <1>1, <2>1 DEF ShapeInv, turnVars, processVars, saveVars, history
<1>4. PlayInv'
    BY <1>1, <1>2, EmptySeq DEF PlayInv, turnVars
<1>5. EffortInv'
    BY <1>1 DEF EffortInv, turnVars, processVars
<1>6. ContextInv'
    BY <1>1 DEF ContextInv, turnVars, processVars, saveVars, history
<1> QED BY <1>3, <1>4, <1>5, <1>6

LEMMA StutterBase ==
    ASSUME BaseInv, UNCHANGED vars
    PROVE  BaseInv'
<1> USE DEF BaseInv, vars, turnVars, wrapperVars, processVars, outputVars, saveVars, history
<1>1. Sent' = Sent   BY SentSame
<1>2. ShapeInv'  BY DEF ShapeInv
<1>3. PlayInv'  BY <1>1 DEF PlayInv
<1>4. EffortInv' /\ ContextInv'  BY DEF EffortInv, ContextInv
<1> QED BY <1>2, <1>3, <1>4

LEMMA BaseStep == BaseInv /\ [Next]_vars => BaseInv'
BY ProcessBase, WrapperBase, RequestBase, FinishBase, StutterBase DEF Next

-----------------------------------------------------------------------------
(* In step.                                                                *)

LEMMA KindsDiffer ==
    ASSUME NEW kind \in {"prompt", "save", "switch"}
    PROVE  ~Mine(Nothing, kind) /\ ~Mine(Marker, kind)
BY DEF Mine, Nothing, Marker

\* the process goes on with the one command
LEMMA WorkingProcess ==
    ASSUME PlayInv, NEW kind \in {"prompt", "save", "switch"}, Working(kind),
           ds4 = "dead" => Silent, Takes \/ Prints \/ Waits
    PROVE  Working(kind)'
<1>1. UNCHANGED cur
    BY DEF Takes, Prints, Waits, turnVars
<1>2. lines \in Seq(Sent \cup {Marker}) /\ input \in Seq(Sent) /\ Len(lines) \in Nat
    BY LenProperties DEF PlayInv
<1>3. CASE Takes
  <2>1. input # <<>> /\ busy' = Head(input) /\ input' = Tail(input) /\ UNCHANGED lines
      BY <1>3 DEF Takes
  <2>2. Len(input) = 1 /\ Mine(input[1], kind) /\ lines = <<>>
      BY <2>1 DEF Working, Silent
  <2>3. Tail(input) \in Seq(Sent) /\ Len(Tail(input)) = 0
      BY <1>2, <2>1, <2>2, HeadTailProperties
  <2>4. input' = <<>>
      BY <2>1, <2>3, EmptySeq
  <2>5. busy' = input[1]
      BY <2>1, <2>2
  <2>6. Mine(busy, kind)' /\ 1..Len(lines') = {}
      BY <1>1, <2>1, <2>2, <2>5, EmptySeq DEF Mine
  <2> QED BY <2>4, <2>6 DEF Working
<1>4. CASE Prints \/ Waits
  <2>1. busy # Nothing /\ UNCHANGED input
      BY <1>4 DEF Prints, Waits
  <2>2. input = <<>> /\ Mine(busy, kind) /\ \A i \in 1..Len(lines) : Mine(lines[i], kind)
      BY <2>1 DEF Working, Silent
  <2>3. CASE lines' = Append(lines, busy) /\ UNCHANGED busy
    <3>1. busy \in Sent \cup {Marker}
        BY <2>1 DEF PlayInv
    <3>2. /\ Len(lines') = Len(lines) + 1 /\ lines'[Len(lines) + 1] = busy
          /\ \A i \in 1..Len(lines) : lines'[i] = lines[i]
        BY <1>2, <2>3, <3>1, AppendProperties
    <3>3. \A i \in 1..Len(lines') : Mine(lines'[i], kind)
        BY <1>2, <2>2, <3>2
    <3>4. \A i \in 1..Len(lines') : Mine(lines[i], kind)'
        BY <1>1, <3>3 DEF Mine
    <3> QED BY <1>1, <2>1, <2>2, <2>3, <3>4 DEF Working, Mine
  <2>4. CASE lines' = Append(lines, Marker) /\ busy' = Nothing
    <3>1. /\ Len(lines') = Len(lines) + 1 /\ lines'[Len(lines) + 1] = Marker /\ lines' # <<>>
          /\ \A i \in 1..Len(lines) : lines'[i] = lines[i]
        BY <1>2, <2>4, AppendProperties
    <3>2. \A i \in 1 .. Len(lines') - 1 : Mine(lines'[i], kind)
        BY <1>2, <2>2, <3>1
    <3>3. \A i \in 1 .. Len(lines') - 1 : Mine(lines[i], kind)'
        BY <1>1, <3>2 DEF Mine
    <3>4. lines'[Len(lines')] = Marker
        BY <3>1
    <3> QED BY <2>1, <2>2, <2>4, <3>1, <3>3, <3>4 DEF Working, Marker
  <2> QED BY <1>4, <2>3, <2>4 DEF Prints, Waits
<1> QED BY <1>3, <1>4

\* the wrapper takes a line, or the marker behind the last
LEMMA WorkingRead ==
    ASSUME PlayInv, NEW kind \in {"prompt", "save", "switch"}, Working(kind), lines # <<>>
    PROVE  /\ input = <<>> /\ Head(lines) = lines[1]
           /\ Head(lines) = Marker => Tail(lines) = <<>> /\ busy = Nothing
           /\ Head(lines) # Marker => Mine(Head(lines), kind)
           /\ Head(lines) # Marker /\ lines' = Tail(lines) /\ UNCHANGED <<cur, ds4, input, busy>>
                => Working(kind)'
<1>1. /\ lines \in Seq(Sent \cup {Marker}) /\ Len(lines) \in Nat \ {0}
      /\ Tail(lines) \in Seq(Sent \cup {Marker}) /\ Len(Tail(lines)) = Len(lines) - 1
      /\ \A i \in 1..Len(Tail(lines)) : Tail(lines)[i] = lines[i + 1]
    BY EmptySeq, HeadTailProperties DEF PlayInv
<1>2. input = <<>>
    BY DEF Working, Silent
<1>3. Head(lines) = lines[1]
    BY <1>1
<1>4. \/ Mine(busy, kind) /\ \A i \in 1..Len(lines) : Mine(lines[i], kind)
      \/ /\ busy = Nothing /\ lines[Len(lines)] = Marker
         /\ \A i \in 1 .. Len(lines) - 1 : Mine(lines[i], kind)
    BY DEF Working, Silent
<1>5. ASSUME Head(lines) = Marker PROVE Tail(lines) = <<>> /\ busy = Nothing
  <2>1. ~Mine(lines[1], kind)
      BY <1>3, <1>5, KindsDiffer
  <2>2. busy = Nothing /\ Len(lines) = 1
      BY <1>1, <1>4, <2>1
  <2>3. Len(Tail(lines)) = 0
      BY <1>1, <2>2
  <2> QED BY <1>1, <2>2, <2>3, EmptySeq
<1>6. ASSUME Head(lines) # Marker PROVE Mine(Head(lines), kind)
    BY <1>1, <1>3, <1>4, <1>6
<1>7. ASSUME Head(lines) # Marker, lines' = Tail(lines), UNCHANGED <<cur, ds4, input, busy>>
      PROVE  Working(kind)'
  <2>1. Len(lines') = Len(lines) - 1 /\ \A i \in 1..Len(lines') : lines'[i] = lines[i + 1]
      BY <1>1, <1>7
  <2>2. CASE Mine(busy, kind) /\ \A i \in 1..Len(lines) : Mine(lines[i], kind)
    <3>1. \A i \in 1..Len(lines') : Mine(lines'[i], kind)
        BY <1>1, <2>1, <2>2
    <3>2. Mine(busy, kind)' /\ \A i \in 1..Len(lines') : Mine(lines[i], kind)'
        BY <1>7, <2>2, <3>1 DEF Mine
    <3> QED BY <1>2, <1>7, <3>2 DEF Working
  <2>3. CASE /\ busy = Nothing /\ lines[Len(lines)] = Marker
             /\ \A i \in 1 .. Len(lines) - 1 : Mine(lines[i], kind)
    <3>1. Len(lines) > 1
        BY <1>1, <1>3, <1>7, <2>3
    <3>2. lines'[Len(lines')] = Marker
        BY <1>1, <2>1, <2>3, <3>1
    <3>3. \A i \in 1 .. Len(lines') - 1 : Mine(lines'[i], kind)
        BY <1>1, <2>1, <2>3
    <3>4. \A i \in 1 .. Len(lines') - 1 : Mine(lines[i], kind)'
        BY <1>7, <3>3 DEF Mine
    <3>5. lines' # <<>>
        BY <1>1, <2>1, <3>1, EmptySeq
    <3> QED BY <1>2, <1>7, <2>3, <3>2, <3>4, <3>5 DEF Working, Marker
  <2> QED BY <1>4, <2>2, <2>3
<1> QED BY <1>2, <1>3, <1>5, <1>6, <1>7

\* a command sent in silence
LEMMA SendWorks ==
    ASSUME NEW kind, NEW c, c.kind = kind, c.of = cur'.of, Silent, input' = Append(input, c),
           UNCHANGED <<busy, lines>>
    PROVE  Working(kind)'
<1>1. input' = <<c>>
    BY DEF Silent
<1>2. Len(input') = 1 /\ input'[1] = c
    BY <1>1
<1> QED BY <1>2 DEF Silent, Working, Mine, Nothing

LEMMA LaunchInStep ==
    ASSUME NEW e, NEW h, Launch(e, h)
    PROVE  StepInv'
BY DEF Launch, StepInv

LEMMA ProcessInStep ==
    ASSUME BaseInv, StepInv, Process
    PROVE  StepInv'
<1> SUFFICES ASSUME ~late' PROVE StepInv'
    BY DEF StepInv
<1>1. ~late /\ UNCHANGED <<pc, cur, taken>>
    BY DEF Process, Starts, Reads, Takes, Prints, Waits, Dies, turnVars, history
<1>2. UNCHANGED taken /\ \A c, k : Mine(c, k)' = Mine(c', k)
    BY <1>1 DEF Mine
<1>3. /\ pc = "save" => \A c \in taken : c.kind = "save" /\ c.of = cur.of
      /\ pc \in {"prompt", "stream", "judge"} => \A c \in taken : c.kind = "prompt" /\ c.of = cur.of
    BY <1>1 DEF StepInv, Mine
<1>4. CASE Starts
  <2>1. pc = "launch"
      BY <1>4 DEF Starts, BaseInv, ShapeInv
  <2>2. ds4' = "up" /\ lines' = <<Marker>> /\ UNCHANGED <<input, busy>>
      BY <1>4 DEF Starts
  <2> QED BY <1>1, <2>1, <2>2 DEF StepInv, Marker, Nothing
<1>5. CASE Takes \/ Prints \/ Waits
  <2>1. ds4 = "up" /\ ds4' = "up" /\ (input # <<>> \/ busy # Nothing)
      BY <1>5 DEF Takes, Prints, Waits
  <2>2. pc \in {"save", "switch", "stream"}
      BY <1>1, <2>1 DEF StepInv, Silent, BaseInv, ShapeInv
  <2>3. /\ pc = "save" => Working("save")'
        /\ pc = "switch" => Working("switch")'
        /\ pc = "stream" => Working("prompt")'
      BY <1>1, <1>5, <2>1, WorkingProcess DEF StepInv, BaseInv
  <2> QED BY <1>1, <1>3, <2>1, <2>2, <2>3 DEF StepInv, Mine
<1>6. CASE Dies
  <2>1. Silent' /\ ds4' = "dead"
      BY <1>6 DEF Dies, Silent, Nothing
  <2> QED BY <1>1, <1>3, <2>1 DEF StepInv, Silent, Working, Mine
<1>7. CASE Reads
  <2>1. UNCHANGED <<ds4, input, busy, lines>>
      BY <1>7 DEF Reads, outputVars
  <2> QED BY <1>1, <2>1 DEF StepInv, Silent, Working, Mine, Nothing, Marker
<1> QED BY <1>4, <1>5, <1>6, <1>7 DEF Process

LEMMA WrapperInStep ==
    ASSUME BaseInv, StepInv, Wrapper
    PROVE  StepInv'
<1> SUFFICES ASSUME ~late' PROVE StepInv'
    BY DEF StepInv
<1>1. CASE \E e, h : Launch(e, h)
    BY <1>1, LaunchInStep
<1>2. CASE ~\E e, h : Launch(e, h)
  <2>1. ~late /\ UNCHANGED cur
      BY <1>2 DEF Wrapper, Started, StartFails, Prompt, ReadLine, ReadMarker, GiveUp, SeesExit,
         Judge, EndWait, turnVars, history
  <2>2. PlayInv /\ (ds4 = "dead" => Silent) /\ (pc \in {"launch", "switch"} => taken = {})
      BY <2>1 DEF BaseInv, PlayInv, StepInv
  <2>3. CASE Started
    <3>1. pc = "launch" /\ ds4 = "up" /\ lines # <<>> /\ lines' = Tail(lines)
          /\ UNCHANGED <<ds4, busy, taken>>
        BY <2>3 DEF Started, AfterMarker
    <3>2. input = <<>> /\ busy = Nothing /\ lines = <<Marker>>
        BY <2>1, <3>1 DEF StepInv
    <3>3. lines' = <<>>
        BY <3>1, <3>2
    <3>4. CASE pc' \in {"idle", "prompt"} /\ UNCHANGED input
        BY <2>2, <3>1, <3>2, <3>3, <3>4 DEF StepInv, Silent, Nothing
    <3>5. CASE pc' = "switch" /\ Send(Command("switch", savedId))
      <4>1. input' = <<Command("switch", savedId)>>
          BY <3>2, <3>5 DEF Send
      <4>2. Len(input') = 1 /\ input'[1] = Command("switch", savedId)
          BY <4>1
      <4>3. Working("switch")'
          BY <2>1, <3>1, <3>2, <3>3, <4>2 DEF Working, Mine, Command, Nothing
      <4> QED BY <3>1, <3>5, <4>3 DEF StepInv
    <3> QED BY <2>3, <3>4, <3>5 DEF Started
  <2>4. CASE StartFails
    <3>1. Silent' /\ pc' \in {"idle", "ended"}
        BY <2>4 DEF StartFails, Silent, Nothing
    <3> QED BY <3>1 DEF StepInv
  <2>5. CASE Prompt
    <3>1. pc = "prompt" /\ UNCHANGED <<ds4, busy, lines, taken>>
        BY <2>5 DEF Prompt
    <3>2. Silent /\ \A c \in taken : c.kind = "prompt" /\ c.of = cur.of
        BY <2>1, <3>1 DEF StepInv, Mine
    <3>3. CASE pc' = "judge" /\ UNCHANGED input
        BY <2>1, <3>1, <3>2, <3>3 DEF StepInv, Silent, Mine, Nothing
    <3>4. CASE pc' = "stream" /\ ds4 = "up" /\ Send(Command("prompt", 0))
      <4>1. Working("prompt")'
        <5>1. Command("prompt", 0).kind = "prompt" /\ Command("prompt", 0).of = cur'.of
            BY <2>1 DEF Command
        <5> QED BY <3>1, <3>2, <3>4, <5>1, SendWorks DEF Send
      <4> QED BY <2>1, <3>1, <3>2, <3>4, <4>1 DEF StepInv, Mine
    <3> QED BY <2>5, <3>3, <3>4 DEF Prompt
  <2>6. CASE ReadLine
    <3>1. /\ pc \in {"save", "switch", "stream"} /\ ds4 = "up" /\ lines # <<>> /\ Head(lines) # Marker
          /\ lines' = Tail(lines) /\ UNCHANGED <<pc, ds4, input, busy>>
          /\ taken' = taken \/ (taken' = taken \cup {Head(lines)} /\ pc \in {"save", "stream"})
        BY <2>6 DEF ReadLine, Waiting, InCommand
    <3>2. CASE pc = "save"
      <4>1. Working("save") /\ \A c \in taken : Mine(c, "save")
          BY <2>1, <3>2 DEF StepInv
      <4>2. Working("save")' /\ Mine(Head(lines), "save")
          BY <2>1, <2>2, <3>1, <4>1, WorkingRead
      <4>3. \A c \in taken' : c.kind = "save" /\ c.of = cur.of
          BY <3>1, <4>1, <4>2 DEF Mine
      <4> QED BY <2>1, <3>1, <3>2, <4>2, <4>3 DEF StepInv, Mine
    <3>3. CASE pc = "switch"
      <4>1. Working("switch")'
          BY <2>1, <2>2, <3>1, <3>3, WorkingRead DEF StepInv
      <4> QED BY <2>1, <3>1, <3>3, <4>1 DEF StepInv
    <3>4. CASE pc = "stream"
      <4>1. Working("prompt") /\ \A c \in taken : Mine(c, "prompt")
          BY <2>1, <3>4 DEF StepInv
      <4>2. Working("prompt")' /\ Mine(Head(lines), "prompt")
          BY <2>1, <2>2, <3>1, <4>1, WorkingRead
      <4>3. \A c \in taken' : c.kind = "prompt" /\ c.of = cur.of
          BY <3>1, <4>1, <4>2 DEF Mine
      <4> QED BY <2>1, <3>1, <3>4, <4>2, <4>3 DEF StepInv, Mine
    <3> QED BY <3>1, <3>2, <3>3, <3>4
  <2>7. CASE ReadMarker \/ GiveUp \/ SeesExit
    <3>1. pc # "save"
        BY <1>2, <2>7 DEF ReadMarker, GiveUp, SeesExit, EndWait
    <3>2. /\ UNCHANGED <<taken, ds4, input, busy>>
          /\ \/ pc = "switch" /\ pc' = "prompt"
             \/ pc = "stream" /\ pc' = "judge"
        BY <2>7, <3>1 DEF ReadMarker, GiveUp, SeesExit, EndWait
    <3>3. Silent'
      <4>1. CASE ReadMarker
        <5>1. lines # <<>> /\ Head(lines) = Marker /\ lines' = Tail(lines)
            BY <3>1, <4>1 DEF ReadMarker
        <5>2. Working("switch") \/ Working("prompt")
            BY <2>1, <3>2 DEF StepInv
        <5>3. input = <<>> /\ busy = Nothing /\ Tail(lines) = <<>>
            BY <2>2, <5>1, <5>2, WorkingRead
        <5> QED BY <3>2, <5>1, <5>3 DEF Silent, Nothing
      <4>2. CASE GiveUp
          BY <3>1, <4>2 DEF GiveUp
      <4>3. CASE SeesExit
        <5>1. ds4 = "dead" /\ lines' = lines
            BY <3>1, <4>3 DEF SeesExit
        <5> QED BY <2>2, <3>2, <5>1 DEF Silent, Nothing
      <4> QED BY <2>7, <4>1, <4>2, <4>3
    <3>4. \A c \in taken' : c.kind = "prompt" /\ c.of = cur.of
        BY <2>1, <2>2, <3>2 DEF StepInv, Mine
    <3> QED BY <2>1, <3>2, <3>3, <3>4 DEF StepInv, Mine
  <2>8. CASE Judge
    <3>1. /\ pc = "judge" /\ UNCHANGED <<ds4, input, busy, lines>>
          /\ ((pc' = "prompt" /\ UNCHANGED taken) \/ pc' = "idle")
        BY <2>8 DEF Judge, outputVars
    <3>2. Silent' /\ \A c \in taken : c.kind = "prompt" /\ c.of = cur.of
        BY <2>1, <3>1 DEF StepInv, Silent, Mine, Nothing
    <3> QED BY <2>1, <3>1, <3>2 DEF StepInv, Mine
  <2> QED BY <2>3, <2>4, <2>5, <2>6, <2>7, <2>8 DEF Wrapper
<1> QED BY <1>1, <1>2

LEMMA RequestInStep ==
    ASSUME BaseInv, StepInv, TakeRequest
    PROVE  StepInv'
<1> SUFFICES ASSUME ~late' PROVE StepInv'
    BY DEF StepInv
<1>1. CASE Reset  BY <1>1, LaunchInStep DEF Reset
<1>2. CASE ChangeEffort /\ pc' # "save"  BY <1>2, LaunchInStep DEF ChangeEffort, Relaunch
<1>3. CASE KeepEffort \/ (ChangeEffort /\ pc' = "save")
  <2>1. pc = "idle" /\ taken' = {} /\ UNCHANGED <<late, ds4, busy, lines>>
      BY <1>3 DEF TakeRequest, KeepEffort, ChangeEffort, Relaunch, Launch, outputVars, history
  <2>2. Silent
      BY <2>1 DEF StepInv
  <2>3. CASE KeepEffort
    <3>1. pc' = "prompt" /\ Silent'
        BY <2>1, <2>2, <2>3 DEF KeepEffort, outputVars, Silent, Nothing
    <3> QED BY <2>1, <3>1 DEF StepInv
  <2>4. CASE ChangeEffort /\ pc' = "save"
    <3> DEFINE s == [kind |-> "save", of |-> cur'.of, effort |-> cur'.effort, id |-> cur'.of]
    <3>1. ds4 = "up" /\ input' = Append(input, s)
        BY <2>4 DEF ChangeEffort, Relaunch, Launch, Send
    <3>2. s.kind = "save" /\ s.of = cur'.of
        OBVIOUS
    <3> HIDE DEF s
    <3>3. Working("save")'
        BY <2>1, <2>2, <3>1, <3>2, SendWorks
    <3> QED BY <2>1, <2>4, <3>1, <3>3 DEF StepInv
  <2> QED BY <1>3, <2>3, <2>4
<1> QED BY <1>1, <1>2, <1>3 DEF TakeRequest

LEMMA StepStep == BaseInv /\ StepInv /\ [Next]_vars => StepInv'
<1> SUFFICES ASSUME BaseInv, StepInv, [Next]_vars PROVE StepInv'
    OBVIOUS
<1>1. CASE Finish
  <2>1. pc' = "ended" /\ Silent'
      BY <1>1 DEF Finish, Silent, Nothing
  <2> QED BY <2>1 DEF StepInv
<1>2. CASE UNCHANGED vars
    BY <1>2 DEF StepInv, Working, Silent, Mine, vars, turnVars, wrapperVars, outputVars, history,
       Nothing, Marker
<1> QED BY <1>1, <1>2, ProcessInStep, WrapperInStep, RequestInStep DEF Next

-----------------------------------------------------------------------------
(* The context follows the conversation.                                   *)

LEMMA InitFaith == Init => StepInv /\ FaithInv
BY DEF Init, StepInv, FaithInv, Silent

\* ds4 reads the command
LEMMA TakesFaith ==
    ASSUME BaseInv, StepInv, FaithInv, Takes
    PROVE  FaithInv'
<1> SUFFICES ASSUME faithful' PROVE FaithInv'
    BY DEF FaithInv
<1>1. /\ faithful /\ ~late /\ ds4 = "up" /\ ds4' = "up" /\ busy = Nothing /\ input # <<>>
      /\ busy' = Head(input) /\ input' = Tail(input) /\ said' = 0
      /\ UNCHANGED <<pc, cur, taken, session, savedId, home, lines, late>>
    BY DEF Takes, FaithInv, turnVars, wrapperVars
<1>2. pc \in {"save", "switch", "stream"}
    BY <1>1 DEF StepInv, Silent, BaseInv, ShapeInv
<1>3. PICK kind \in {"prompt", "save", "switch"} :
        /\ Working(kind)
        /\ pc = CASE kind = "prompt" -> "stream" [] kind = "save" -> "save" [] kind = "switch" -> "switch"
    BY <1>1, <1>2 DEF StepInv
<1>4. Len(input) = 1 /\ Mine(input[1], kind) /\ lines = <<>>
    BY <1>1, <1>3 DEF Working, Silent
<1>5. input \in Seq(Sent) /\ Head(input) = input[1] /\ input[1] \in Sent
    BY <1>1, <1>4, ElementOfSeq DEF BaseInv, PlayInv
<1>6. input' = <<>>
  <2>1. Tail(input) \in Seq(Sent) /\ Len(Tail(input)) = 0
      BY <1>1, <1>4, <1>5, HeadTailProperties
  <2> QED BY <1>1, <2>1, EmptySeq
<1>7. busy' = input[1] /\ busy'.kind = kind /\ busy'.of = cur.of /\ busy' # Nothing
    BY <1>1, <1>4, <1>5 DEF Mine, Nothing
<1>8. CASE kind = "prompt"
  <2>1. mem' = mem \cup {cur.of} /\ told' = told \cup {cur.of}
      BY <1>1, <1>4, <1>5, <1>8 DEF Takes, Mine
  <2> QED BY <1>1, <1>3, <1>8, <2>1 DEF FaithInv
<1>9. CASE kind = "switch"
  <2>1. input[1].id = cur.of /\ SavedNow
      BY <1>1, <1>3, <1>9 DEF FaithInv
  <2>2. Restored(input[1]) = {told}
      BY <2>1 DEF Restored, SavedNow
  <2>3. mem' = UNION {told} /\ told' = told
    <3>1. Head(input).kind = "switch" /\ Restored(Head(input)) = {told}
        BY <1>4, <1>5, <1>9, <2>2 DEF Mine
    <3> QED BY <3>1 DEF Takes
  <2>4. mem' = told'
      BY <2>3
  <2> QED BY <1>1, <1>3, <1>6, <1>9, <2>4 DEF FaithInv
<1>10. CASE kind = "save"
  <2>1. mem' = mem /\ told' = told /\ kept' = kept \cup {[home |-> home, id |-> cur.of, mem |-> mem]}
      BY <1>1, <1>4, <1>5, <1>10 DEF Takes, Mine
  <2>2. mem = told /\ ~cur.reset /\ \A k \in kept : k.id # cur.of
      BY <1>1, <1>3, <1>10 DEF FaithInv
  <2>3. SavedNow'
    <3> DEFINE new == [home |-> home, id |-> cur.of, mem |-> mem]
    <3>1. new.home = home /\ new.id = cur.of /\ new.mem = told /\ kept' = kept \cup {new}
        BY <2>1, <2>2
    <3> HIDE DEF new
    <3>2. {s \in kept' : s.home = home /\ s.id = cur.of} = {new}
        BY <2>2, <3>1
    <3>3. {k.mem : k \in {s \in kept' : s.home = home /\ s.id = cur.of}} = {told}
        BY <3>1, <3>2
    <3> QED BY <1>1, <2>1, <3>3 DEF SavedNow
  <2> QED BY <1>1, <1>3, <1>6, <1>7, <1>10, <2>1, <2>2, <2>3 DEF FaithInv
<1> QED BY <1>8, <1>9, <1>10

LEMMA ProcessFaith ==
    ASSUME BaseInv, StepInv, FaithInv, Process
    PROVE  FaithInv'
<1>1. CASE Starts
  <2>1. pc = "launch"
      BY <1>1 DEF Starts, BaseInv, ShapeInv
  <2>2. ds4' = "up" /\ UNCHANGED <<pc, cur, session, savedId, home, mem, kept, late, faithful, told>>
      BY <1>1 DEF Starts, turnVars, wrapperVars, processVars, saveVars, history
  <2> QED BY <2>1, <2>2 DEF FaithInv, SavedNow
<1>2. CASE Prints \/ Waits
  <2>1. /\ busy # Nothing /\ ds4 = "up"
        /\ UNCHANGED <<pc, cur, taken, session, savedId, ds4, home, mem, kept, late, faithful, told, input>>
      BY <1>2 DEF Prints, Waits, turnVars, wrapperVars, processVars, saveVars, history
  <2>2. SavedNow' = SavedNow
      BY <2>1 DEF SavedNow
  <2>3. ASSUME faithful, pc = "save", input = <<>>, busy' = Nothing \/ said' > 0
        PROVE  IdPrinted'
    <3>1. Working("save") /\ busy.kind = "save" /\ lines \in Seq(Sent \cup {Marker})
      <4>1. Working("save")
          BY <2>3 DEF StepInv, FaithInv
      <4> QED BY <2>1, <4>1 DEF Working, Silent, Mine, BaseInv, PlayInv
    <3>2. busy \in Sent /\ busy # Marker
        BY <2>1, <3>1 DEF BaseInv, PlayInv, Marker
    <3>3. CASE Waits
      <4>1. said > 0 /\ lines' = Append(lines, Marker)
          BY <3>1, <3>3 DEF Waits
      <4>2. IdPrinted
          BY <2>3, <4>1 DEF FaithInv
      <4>3. lines # <<>> => lines' # <<>> /\ lines'[1] = lines[1]
        <5>1. lines # <<>> => Len(lines) \in Nat \ {0}
            BY <3>1, EmptySeq, LenProperties
        <5> QED BY <3>1, <4>1, <5>1, AppendProperties
      <4> QED BY <2>1, <4>2, <4>3 DEF IdPrinted, Marker
    <3>4. CASE Prints
      <4>1. lines' = Append(lines, busy)
          BY <3>4 DEF Prints
      <4>2. lines' # <<>> /\ lines'[1] = IF lines = <<>> THEN busy ELSE lines[1]
        <5>1. Len(lines) \in Nat /\ (lines # <<>> => Len(lines) \in Nat \ {0})
            BY <3>1, EmptySeq, LenProperties
        <5>2. lines = <<>> => Len(lines) = 0
            BY EmptySeq
        <5> QED BY <3>1, <3>2, <4>1, <5>1, <5>2, AppendProperties
      <4>3. lines # <<>> => lines[1] # Marker
        <5>1. \A i \in 1..Len(lines) : Mine(lines[i], "save")
            BY <2>1, <3>1 DEF Working, Silent
        <5>2. lines # <<>> => Mine(lines[1], "save")
            BY <3>1, <5>1, EmptySeq, LenProperties
        <5> QED BY <5>2, KindsDiffer
      <4> QED BY <3>2, <4>2, <4>3 DEF IdPrinted, Marker
    <3> QED BY <1>2, <3>3, <3>4
  <2> QED BY <2>1, <2>2, <2>3 DEF FaithInv
<1>3. CASE Dies
    BY <1>3 DEF Dies, FaithInv
<1>4. CASE Reads
  <2>1. UNCHANGED <<pc, cur, taken, session, savedId, ds4, home, mem, kept, late, faithful, told,
                    input, busy, said, lines>>
      BY <1>4 DEF Reads, wrapperVars, processVars, outputVars, saveVars, history
  <2> QED BY <2>1 DEF FaithInv, SavedNow, IdPrinted, Nothing, Marker
<1> QED BY <1>1, <1>2, <1>3, <1>4, TakesFaith DEF Process

LEMMA WrapperFaith ==
    ASSUME BaseInv, StepInv, FaithInv, Wrapper
    PROVE  FaithInv'
<1> SUFFICES ASSUME faithful' PROVE FaithInv'
    BY DEF FaithInv
<1>1. CASE Started
  <2>1. /\ pc = "launch" /\ ds4 = "up" /\ faithful /\ ~late
        /\ UNCHANGED <<cur, taken, session, savedId, ds4, home, mem, kept, late, told>>
      BY <1>1 DEF Started, FaithInv, turnVars, processVars, saveVars, history
  <2>2. input = <<>> /\ session
      BY <2>1 DEF StepInv, FaithInv
  <2>3. CASE pc' = "idle" /\ cur.of = 0
      BY <2>1, <2>2, <2>3 DEF FaithInv
  <2>4. CASE pc' = "prompt" /\ (cur.reset \/ savedId = NoId)
    <3>1. savedId # cur.of \/ cur.reset
        BY <2>1, <2>4, CurrentRequest DEF NoId, BaseInv
    <3> QED BY <2>1, <2>2, <2>4, <3>1 DEF FaithInv
  <2>5. CASE pc' = "switch" /\ cur.of > 0 /\ ~cur.reset /\ Send(Command("switch", savedId))
    <3>1. savedId = cur.of /\ SavedNow
      <4>1. ~(cur.of = 0)
          BY <2>5
      <4> QED BY <2>1, <2>5, <4>1 DEF FaithInv
    <3>2. input' = <<Command("switch", savedId)>>
        BY <2>2, <2>5 DEF Send
    <3>3. input' # <<>> /\ input'[1].id = cur.of
        BY <3>1, <3>2 DEF Command
    <3> QED BY <2>1, <2>2, <2>5, <3>1, <3>3 DEF FaithInv, SavedNow
  <2> QED BY <1>1, <2>3, <2>4, <2>5 DEF Started
<1>2. CASE Prompt
  <2>1. /\ pc = "prompt" /\ faithful
        /\ UNCHANGED <<cur, taken, session, savedId, ds4, home, mem, kept, late, told>>
      BY <1>2 DEF Prompt, turnVars, wrapperVars, processVars, saveVars, history
  <2>2. pc' \in {"stream", "judge"}
      BY <1>2 DEF Prompt
  <2> QED BY <2>1, <2>2 DEF FaithInv
<1>3. CASE ReadLine
  <2>1. /\ pc \in {"save", "switch", "stream"} /\ faithful /\ ds4 = "up" /\ lines # <<>>
        /\ UNCHANGED <<pc, cur, session, savedId, ds4, home, mem, kept, late, told, input, busy, said>>
      BY <1>3 DEF ReadLine, Waiting, InCommand, wrapperVars, processVars, saveVars, history
  <2>2. pc = "save" => taken' # {}
      BY <1>3, <2>1 DEF ReadLine
  <2> QED BY <2>1, <2>2 DEF FaithInv, SavedNow, IdPrinted
<1>4. CASE ReadMarker \/ SeesExit
  <2>1. /\ faithful /\ ~late /\ ds4 = "up" /\ session /\ EndWait
        /\ UNCHANGED <<cur, kept, told>> /\ InCommand /\ ~writing
      BY <1>4 DEF ReadMarker, SeesExit, FaithInv, Waiting, InCommand, saveVars
  <2>2. lines # <<>> /\ Head(lines) = Marker /\ (pc # "save" => late' = late)
      BY <1>4, <2>1 DEF ReadMarker, SeesExit
  <2>3. input = <<>> /\ busy = Nothing /\ Head(lines) = lines[1]
    <3>1. Working("save") \/ Working("switch") \/ Working("prompt")
        BY <2>1 DEF StepInv, InCommand
    <3> QED BY <2>2, <3>1, WorkingRead DEF BaseInv
  <2>4. CASE pc = "save"
    <3>1. SavedNow /\ taken # {} /\ ~cur.reset
        BY <2>1, <2>2, <2>3, <2>4 DEF FaithInv, IdPrinted
    <3>2. \A c \in taken : c.kind = "save" /\ c.of = cur.of /\ c.id = cur.of
        BY <2>1, <2>4 DEF StepInv, Mine, BaseInv, PlayInv, Sent
    <3>3. SavedIds = {cur.of}
      <4>1. {c \in taken : c.kind = "save"} = taken
          BY <3>2
      <4>2. {c.id : c \in taken} = {cur.of}
          BY <3>1, <3>2
      <4> QED BY <2>1, <3>1, <4>1, <4>2 DEF SavedIds
    <3>4. savedId' = cur.of /\ Launch(cur.effort, home)
        BY <2>1, <2>4, <3>3 DEF EndWait, OldHome
    <3>5. cur.of # 0
        BY <2>4, CurrentRequest DEF BaseInv, ShapeInv
    <3> QED BY <2>1, <3>1, <3>4, <3>5 DEF Launch, FaithInv, SavedNow
  <2>5. CASE pc # "save"
    <3>1. /\ UNCHANGED <<session, ds4, mem, late>> /\ mem = told
          /\ pc' \in {"prompt", "judge"}
        BY <2>1, <2>2, <2>3, <2>5 DEF EndWait, FaithInv, InCommand, wrapperVars, processVars
    <3> QED BY <2>1, <3>1 DEF FaithInv
  <2> QED BY <2>4, <2>5
<1>5. CASE Judge
  <2>1. /\ pc = "judge" /\ pc' \in {"prompt", "idle"} /\ faithful
        /\ UNCHANGED <<session, ds4, mem, late, told>>
      BY <1>5 DEF Judge, wrapperVars, processVars, history
  <2> QED BY <2>1 DEF FaithInv
<1>6. CASE StartFails \/ GiveUp
    BY <1>6 DEF StartFails, GiveUp
<1> QED BY <1>1, <1>2, <1>3, <1>4, <1>5, <1>6 DEF Wrapper

LEMMA RequestFaith ==
    ASSUME BaseInv, StepInv, FaithInv, TakeRequest
    PROVE  FaithInv'
<1> SUFFICES ASSUME faithful' PROVE FaithInv'
    BY DEF FaithInv
<1>1. pc = "idle" /\ cur'.of = cur.of + 1 /\ UNCHANGED kept /\ cur.of \in Nat
    BY CurrentRequest DEF TakeRequest, saveVars, BaseInv
<1>2. CASE Reset
    BY <1>2 DEF Reset, Launch, FaithInv
<1>3. CASE ChangeEffort \/ KeepEffort
  <2>1. faithful /\ session /\ ds4 \in {"starting", "up"} /\ mem = told /\ ~late /\ UNCHANGED told
      BY <1>1, <1>3 DEF ChangeEffort, KeepEffort, FaithInv, history
  <2>2. ds4 = "up"
      BY <1>1, <2>1 DEF BaseInv, ShapeInv
  <2>3. CASE KeepEffort
      BY <2>1, <2>3 DEF KeepEffort, FaithInv, processVars, history
  <2>4. CASE ChangeEffort
    <3>1. /\ pc' = "save" /\ ~cur'.reset /\ input' # <<>>
          /\ UNCHANGED <<session, ds4, mem, late>>
      <4> DEFINE s == [kind |-> "save", of |-> cur'.of, effort |-> cur'.effort, id |-> cur'.of]
      <4>1. /\ pc' = "save" /\ ~cur'.reset /\ input' = Append(input, s)
            /\ UNCHANGED <<session, ds4, mem, late>>
          BY <2>1, <2>2, <2>4 DEF ChangeEffort, Send, processVars
      <4> HIDE DEF s
      <4>2. input = <<>>
          BY <1>1, <2>1 DEF StepInv, Silent
      <4>3. input' = <<s>> /\ input'[1] = s
          BY <4>1, <4>2
      <4> QED BY <4>1, <4>3
    <3>2. \A k \in kept : k.id # cur'.of
        BY <1>1 DEF BaseInv, ContextInv
    <3> QED BY <1>1, <2>1, <3>1, <3>2 DEF FaithInv
  <2> QED BY <1>3, <2>3, <2>4
<1> QED BY <1>2, <1>3 DEF TakeRequest

LEMMA FaithStep == BaseInv /\ StepInv /\ FaithInv /\ [Next]_vars => FaithInv'
<1> SUFFICES ASSUME BaseInv, StepInv, FaithInv, [Next]_vars PROVE FaithInv'
    OBVIOUS
<1>1. CASE Finish
    BY <1>1 DEF Finish, FaithInv, history
<1>2. CASE UNCHANGED vars
    BY <1>2 DEF FaithInv, SavedNow, IdPrinted, Nothing, Marker, vars, turnVars, wrapperVars,
       processVars, outputVars, saveVars, history
<1> QED BY <1>1, <1>2, ProcessFaith, WrapperFaith, RequestFaith DEF Next

-----------------------------------------------------------------------------
(* Writing to ds4.                                                         *)

LEMMA WriteStep == WriteInv /\ [Next]_vars => WriteInv'
<1> SUFFICES ASSUME WriteInv, [Next]_vars PROVE WriteInv'
    OBVIOUS
<1> USE DEF WriteInv, InCommand
<1>1. CASE Process \/ UNCHANGED vars
  <2>1. UNCHANGED pc /\ writing' \in {writing, FALSE}
      BY <1>1 DEF Process, Starts, Reads, Takes, Prints, Waits, Dies, turnVars, vars
  <2> QED BY <2>1
<1>2. CASE ReadMarker \/ GiveUp \/ SeesExit
    BY <1>2 DEF ReadMarker, GiveUp, SeesExit, EndWait
<1>3. CASE Started \/ StartFails \/ Prompt \/ Judge \/ TakeRequest \/ Finish
  <2>1. ~writing
      BY <1>3 DEF Started, StartFails, Prompt, Judge, TakeRequest, Finish
  <2>2. writing' => pc' \in {"save", "switch", "stream"}
      BY <1>3, <2>1 DEF Started, StartFails, Prompt, Judge, TakeRequest, Finish, Reset,
         ChangeEffort, KeepEffort, turnVars
  <2> QED BY <2>2
<1>4. CASE ReadLine
    BY <1>4 DEF ReadLine
<1> QED BY <1>1, <1>2, <1>3, <1>4 DEF Next, Wrapper

-----------------------------------------------------------------------------
(* The properties.                                                         *)

LEMMA Ds4Always == Spec => []Ds4Inv
<1>1. Init => Ds4Inv
    BY InitBase, InitFaith DEF Ds4Inv, WriteInv, Init
<1>2. Ds4Inv /\ [Next]_vars => Ds4Inv'
    BY BaseStep, StepStep, FaithStep, WriteStep DEF Ds4Inv
<1> QED BY <1>1, <1>2, PTL DEF Spec

\* Every variable keeps its type: no effort, session number or command that nobody
\* sent gets into the wrapper's globals or the process's queue (main, ds4_wrapper.py),
\* and only a running ds4 works on something.
THEOREM WrapperTypes == Spec => []TypeOK
<1>1. Ds4Inv => TypeOK
  <2> SUFFICES ASSUME BaseInv, WriteInv PROVE TypeOK
      BY DEF Ds4Inv
  <2>1. ShapeInv /\ PlayInv /\ ContextInv
      BY DEF BaseInv
  <2>2. 0 \in 0..MaxRequests
      BY Ds4Bounds
  <2>3. Marker \in Commands /\ Nothing \in Commands /\ Sent \subseteq Commands
      BY <2>2 DEF Marker, Nothing, Commands, Sent
  <2>4. input \in Seq(Commands) /\ lines \in Seq(Commands)
    <3>1. input \in Seq(Sent) /\ lines \in Seq(Sent \cup {Marker})
        BY <2>1 DEF PlayInv
    <3> QED BY <2>3, <3>1, SeqMonotonic
  <2>5. busy \in Commands /\ taken \subseteq Commands
      BY <2>1, <2>3 DEF PlayInv
  <2>6. epoch \in 0..MaxRequests /\ born \in 0..MaxRequests
      BY <2>1, CurrentRequest
  <2>7. \A k \in kept : k.home \in 0..MaxRequests /\ k.id \in 1..MaxRequests
                        /\ k.mem \subseteq 1..MaxRequests
    <3>1. \A n \in 1..cur.of : n \in 1..MaxRequests
        BY <2>1, CurrentRequest
    <3> QED BY <2>1, <3>1 DEF ContextInv
  <2> QED BY <2>1, <2>4, <2>5, <2>6, <2>7 DEF TypeOK, ShapeInv, ContextInv, WriteInv
<1> QED BY <1>1, Ds4Always, PTL

\* Whatever ds4 does, a turn shows no line of a ds4 process that ran before the one it
\* talks to; and until a wait was given up, it shows the lines of its own prompts only
\* (stream_prompt_with_deltas takes whatever the reader's queue holds).
THEOREM LinesAreOwn == Spec => []OwnLines
<1>1. Ds4Inv => OwnLines
  <2>1. Ds4Inv => \A c \in taken : c.of >= born
      BY DEF Ds4Inv, BaseInv, PlayInv, Sent
  <2>2. Ds4Inv /\ ~late /\ pc \in {"stream", "judge"} =>
          \A c \in taken : c.kind = "prompt" /\ c.of = cur.of
      BY DEF Ds4Inv, StepInv, Mine
  <2> QED BY <2>1, <2>2 DEF OwnLines
<1> QED BY <1>1, Ds4Always, PTL

\* The context a prompt meets never reaches behind the last reset, whatever failed; and
\* if nothing failed it holds every prompt since, across restarts for another effort
\* (apply_effort_change saves, relaunches in the same home and switches back).
THEOREM ContextIsKept == Spec => []ContextFollows
<1>1. Ds4Inv => ContextFollows
  <2> SUFFICES ASSUME Ds4Inv, busy.kind = "prompt" PROVE ContextFollows
      BY DEF ContextFollows
  <2>1. \A r \in mem : r >= epoch
      BY DEF Ds4Inv, BaseInv, ContextInv
  <2>2. ASSUME faithful PROVE mem = told
    <3>1. ~late /\ busy # Nothing
        BY <2>2 DEF Ds4Inv, FaithInv, Nothing
    <3>2. pc = "stream"
        BY <3>1 DEF Ds4Inv, BaseInv, ShapeInv, StepInv, Silent, Working, Mine
    <3> QED BY <2>2, <3>2 DEF Ds4Inv, FaithInv
  <2> QED BY <2>1, <2>2 DEF ContextFollows
<1> QED BY <1>1, Ds4Always, PTL

\* A prompt is never read by a ds4 launched with another effort than its request names,
\* though the wrapper's own note of the effort is lost at every request that names none
\* and is stale after a restart that failed (main's _current_reasoning_effort).
THEOREM EffortIsAsked == Spec => []EffortAsked
<1>1. Ds4Inv => EffortAsked
    BY DEF Ds4Inv, BaseInv, PlayInv, Sent, EffortAsked, Nothing
<1> QED BY <1>1, Ds4Always, PTL

-----------------------------------------------------------------------------
(* The steps a turn can still take.                                         *)

\* Each wait is behind the one before it, and a continuation goes back to the
\* prompt, at most MAX_CONTINUATIONS times.
StepsLeft ==
    IF pc \in {"idle", "ended"} THEN 0
    ELSE 3 * (MaxContinuations - conts) +
         CASE pc = "save" -> 6 [] pc = "launch" -> 5 [] pc = "switch" -> 4
           [] pc = "prompt" -> 3 [] pc = "stream" -> 2 [] OTHER -> 1

LEMMA ContinuationBounds ==
    ASSUME ShapeInv
    PROVE  /\ MaxContinuations \in Nat /\ conts \in 0..MaxContinuations
           /\ StepsLeft \in 0..3 * MaxContinuations + 6
BY Ds4Bounds DEF ShapeInv, StepsLeft

LEMMA WaitEnds ==
    ASSUME ShapeInv, InCommand, EndWait
    PROVE  StepsLeft' < StepsLeft
BY ContinuationBounds DEF InCommand, EndWait, Launch, StepsLeft

LEMMA WrapperCounts ==
    ASSUME ShapeInv, Wrapper
    PROVE  StepsLeft' < StepsLeft \/ (StepsLeft' = StepsLeft /\ Len(lines') < Len(lines))
<1>1. CASE Started
  BY <1>1, ContinuationBounds DEF Started, turnVars, StepsLeft
<1>2. CASE StartFails
  BY <1>2, ContinuationBounds DEF StartFails, turnVars, StepsLeft
<1>3. CASE Prompt
  BY <1>3, ContinuationBounds DEF Prompt, turnVars, StepsLeft
<1>4. CASE Judge
  BY <1>4, ContinuationBounds DEF Judge, MayContinue, StepsLeft
<1>5. CASE ReadLine
  <2>1. UNCHANGED <<pc, conts>> /\ lines # <<>> /\ lines' = Tail(lines)
    BY <1>5 DEF ReadLine
  <2>2. Len(lines) \in Nat \ {0} /\ Len(Tail(lines)) = Len(lines) - 1
    BY <2>1 DEF ShapeInv
  <2> QED
    BY <2>1, <2>2 DEF StepsLeft
<1>6. CASE ReadMarker \/ GiveUp \/ SeesExit
  BY <1>6, WaitEnds DEF ReadMarker, GiveUp, SeesExit, Waiting, InCommand, Timed
<1> QED
  BY <1>1, <1>2, <1>3, <1>4, <1>5, <1>6 DEF Wrapper

LEMMA OthersDoNotCount ==
    ASSUME Process \/ Finish \/ UNCHANGED vars
    PROVE  StepsLeft' = StepsLeft
<1>1. CASE Process \/ UNCHANGED vars
  <2>1. UNCHANGED <<pc, conts>>
    BY <1>1 DEF Process, Starts, Reads, Takes, Prints, Waits, Dies, turnVars, vars
  <2> QED
    BY <2>1 DEF StepsLeft
<1>2. CASE Finish
  BY <1>2 DEF Finish, StepsLeft
<1> QED
  BY <1>1, <1>2

\* A turn of the wrapper, its restart of ds4 included, takes at most
\* 3 * MAX_CONTINUATIONS + 6 steps besides the reading of lines: a step of main that
\* takes no line uses one up, and whatever ds4 prints or reads, and whether it dies
\* or hangs, gives none back; only the next request does.  That a step comes is not
\* said: a write to a ds4 that reads no more has no deadline.
THEOREM TurnRunsOut ==
    Spec => /\ [](StepsLeft \in 0..3 * MaxContinuations + 6)
            /\ [][/\ Wrapper => \/ StepsLeft' < StepsLeft
                                \/ StepsLeft' = StepsLeft /\ Len(lines') < Len(lines)
                  /\ StepsLeft' > StepsLeft => TakeRequest]_vars
<1>1. Ds4Inv => ShapeInv
  BY DEF Ds4Inv, BaseInv
<1>2. ShapeInv => StepsLeft \in 0..3 * MaxContinuations + 6
  BY ContinuationBounds
<1>3. ShapeInv /\ ShapeInv' /\ [Next]_vars =>
         [/\ Wrapper => \/ StepsLeft' < StepsLeft
                        \/ StepsLeft' = StepsLeft /\ Len(lines') < Len(lines)
          /\ StepsLeft' > StepsLeft => TakeRequest]_vars
  <2> SUFFICES ASSUME ShapeInv, ShapeInv', [Next]_vars, ~TakeRequest
               PROVE  /\ Wrapper => \/ StepsLeft' < StepsLeft
                                    \/ StepsLeft' = StepsLeft /\ Len(lines') < Len(lines)
                      /\ ~(StepsLeft' > StepsLeft)
    BY WrapperCounts
  <2>1. StepsLeft \in Nat
    BY ContinuationBounds
  <2>2. CASE Wrapper
    <3>1. StepsLeft' < StepsLeft \/ (StepsLeft' = StepsLeft /\ Len(lines') < Len(lines))
      BY <2>2, WrapperCounts
    <3>2. StepsLeft' \in Nat
      BY Ds4Bounds DEF ShapeInv, StepsLeft
    <3> QED
      BY <2>1, <3>1, <3>2
  <2>3. CASE ~Wrapper
    BY <2>1, <2>3, OthersDoNotCount DEF Next
  <2> QED
    BY <2>2, <2>3
<1> QED
  BY <1>1, <1>2, <1>3, Ds4Always, PTL DEF Spec

=============================================================================
