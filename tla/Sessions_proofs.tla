-------------------------- MODULE Sessions_proofs --------------------------
(***************************************************************************)
(* Sessions, proved for every value of the constants: which session the    *)
(* agent is in when it works on a request or saves, whose state ids are on *)
(* file, and what a write of the index keeps.                              *)
(***************************************************************************)
EXTENDS Sessions, SequenceTheorems, FiniteSetTheorems, TLAPS

-----------------------------------------------------------------------------
(* What memory, file and agent hold at each point.                         *)

\* TypeOK, conjunct by conjunct, the tables being finite functions.
Sound(m) ==
    /\ DOMAIN m \subseteq Keys /\ \A k \in DOMAIN m : m[k] \in Entries
    /\ m = [k \in DOMAIN m |-> m[k]]
    /\ IsFiniteSet(DOMAIN m) /\ Cardinality(DOMAIN m) <= MaxEntries

ConfigInv ==
    /\ starts \in 1..MaxStarts /\ ws \in Workspaces /\ model \in Models
    /\ canLoad \in CanLoads /\ autoSave \in AutoSaves
IndexInv == Sound(index) /\ dirty \in BOOLEAN /\ loaded \in BOOLEAN
FileInv ==
    /\ file = [complete |-> file.complete, entries |-> file.entries]
    /\ file.complete \in BOOLEAN /\ Sound(file.entries)
PlanOps == [op : OpNames, key : Keys, becomes : Ids]
Messages == [op : OpNames, key : Keys, expects : Keys, turn : 0..MaxTurns, asked : Ids]
Replies == [type : {"ack", "response"}, turn : 0..MaxTurns, sid : StateIds]
TurnInv ==
    /\ last \in Ids /\ usedResets \subseteq Resets /\ turns \in 0..MaxTurns
    /\ pc \in {"idle", "plan", "wait", "write", "writing", "answer", "save", "saved"}
    /\ plan \in Seq(PlanOps)
AgentInv ==
    /\ inbox \in Seq(Messages) /\ outbox \in Seq(Replies)
    /\ active \in Keys /\ late \in 0..starts
TableInv == ConfigInv /\ IndexInv /\ FileInv /\ TurnInv /\ AgentInv

\* A key in a table is that of a name; only such keys are created or loaded.
Unwrapped(k) == k.id.wraps = 0
KeysInv ==
    /\ \A k \in DOMAIN index \cup DOMAIN file.entries : Unwrapped(k)
    /\ \A n \in 1..Len(plan) : plan[n].op \in {"create", "load"} => Unwrapped(plan[n].key)

\* A reply is waited for only for an operation of the plan.
WaitInv == pc = "wait" => plan # <<>>

\* Memory knows all that is on file, once the file was read.
LoadedInv == loaded /\ Readable => DOMAIN file.entries \subseteq DOMAIN index

-----------------------------------------------------------------------------
(* Until a read times out, one thing at a time is under way.               *)

\* the reply a message of the plan gets, and where the agent is by then
Acked(o) ==
    /\ Head(outbox).type = "ack"
    /\ o.op \in {"create", "load"} => Head(outbox).sid.key = o.key
    /\ o.op \in {"create", "load", "switch"} => active = o.key

InTransit(op) ==
    \/ /\ Len(inbox) = 1 /\ Head(inbox).op = op /\ outbox = <<>>
       /\ Head(inbox).expects # NoKey => active = Head(inbox).expects
    \/ inbox = <<>> /\ Len(outbox) = 1

Quiet == inbox = <<>> /\ outbox = <<>>

WireInv ==
    late # starts =>
      /\ pc \in {"idle", "plan", "write", "writing", "save"} => Quiet
      /\ pc \in {"idle", "write", "writing", "answer", "save", "saved"} => plan = <<>>
      /\ pc = "wait" =>
           /\ plan # <<>> /\ Head(plan).op \in {"create", "load", "save", "switch"}
           /\ InTransit(Head(plan).op)
           /\ inbox # <<>> => Head(inbox).key = Head(plan).key
           /\ outbox # <<>> => Acked(Head(plan))
      /\ pc = "answer" => InTransit("request")
      /\ pc = "saved" => InTransit("save")

-----------------------------------------------------------------------------
(* Until then, too, the agent is in the session the bridge goes on with.   *)

\* if the table has it for this workspace and model
In(m) == canLoad /\ last # NoId /\ Key(last) \in DOMAIN m /\ Fits(m[Key(last)])
           => active = Key(last)
InSession == In(index) /\ In(Parsed)

\* an operation that ends a plan leads there
Leads(o) ==
    \/ o.op = "error" /\ InSession
    \/ o.op = "create" /\ o.becomes # NoId /\ (Key(o.becomes) = o.key \/ o.becomes.wraps > 0)
    \/ o.op = "load" /\ o.key = IF o.becomes = NoId THEN Key(last) ELSE Key(o.becomes)
    \/ o.op = "switch" /\ o.becomes = NoId /\ o.key = Key(last)

\* the session to be saved is the one the agent is in
Saves(o) ==
    o.op = "save" /\ o.becomes = NoId /\ (Restored(o.key) # NoKey => active = o.key)

PlanInv ==
    late # starts =>
      \/ plan = <<>> /\ InSession
      \/ Len(plan) = 1 /\ Leads(plan[1])
      \/ Len(plan) = 1 /\ Saves(plan[1]) /\ InSession
      \/ Len(plan) = 2 /\ Saves(plan[1]) /\ Leads(plan[2])
      \/ Len(plan) = 2 /\ plan[1].op = "error" /\ plan[2].op = "create" /\ Leads(plan[2])

\* The state ids in both tables are the agent's for their keys.
OwnInv ==
    late = 0 =>
      /\ \A k \in DOMAIN index : index[k].sid.key = k
      /\ \A k \in DOMAIN file.entries : file.entries[k].sid.key = k

-----------------------------------------------------------------------------
(* Types.                                                                  *)

LEMMA KeyType ==
    ASSUME ConfigInv
    PROVE  /\ \A i \in Ids : Key(i) \in Keys
           /\ \A n \in Asked \cup Resets : SessionId(n) \in Ids /\ SessionId(n) # NoId
           /\ NoId \in Ids /\ Default \in Ids /\ Default # NoId /\ NoKey \in Keys
           /\ \A k \in Keys : AsId(k) \in Ids /\ AsId(k).wraps = k.id.wraps + 1 /\ AsId(k) # NoId
<1>1. Hash[ws] \in Nat /\ "" \notin Asked \cup Resets
    BY SessionChoices DEF ConfigInv
<1>2. ASSUME NEW n \in {"", "default"} \cup Asked \cup Resets
      PROVE  SessionId(n) \in Ids
    BY DEF SessionId, Ids
<1>3. NoId \in Ids /\ Default \in Ids /\ Default # NoId
  <2>1. SessionId("") \in Ids /\ SessionId("default") \in Ids
      BY <1>2
  <2> QED BY <2>1 DEF NoId, Default, SessionId
<1>4. ASSUME NEW k \in Keys
      PROVE  AsId(k) \in Ids /\ AsId(k).wraps = k.id.wraps + 1 /\ AsId(k) # NoId
  <2>1. k.id \in Ids
      BY DEF Keys
  <2>2. k.id.name \in {"", "default"} \cup Asked \cup Resets
      BY <2>1 DEF Ids
  <2>3. k.id.wraps \in Nat /\ k.id.wraps + 1 \in Nat /\ k.id.wraps + 1 # 0
    <3>1. k.id.wraps \in Nat
        BY <2>1 DEF Ids
    <3> QED BY <3>1
  <2>4. AsId(k) \in Ids
      BY <2>2, <2>3 DEF Ids, AsId
  <2>5. AsId(k).wraps = k.id.wraps + 1 /\ AsId(k).wraps # 0
      BY <2>3 DEF AsId
  <2>6. NoId.wraps = 0
      BY DEF NoId, SessionId
  <2> QED BY <2>4, <2>5, <2>6
<1>5. ASSUME NEW n \in Asked \cup Resets
      PROVE  SessionId(n) \in Ids /\ SessionId(n) # NoId
  <2>1. n # "" /\ SessionId(n).name = n /\ NoId.name = ""
      BY <1>1 DEF SessionId, NoId
  <2> QED BY <1>2, <2>1
<1>6. \A i \in Ids : Key(i) \in Keys
    BY <1>1 DEF Key, Keys
<1>7. NoKey \in Keys
    BY <1>3 DEF NoKey, Keys
<1> QED BY <1>3, <1>4, <1>5, <1>6, <1>7

LEMMA NoEntriesSound ==
    DOMAIN NoEntries = {} /\ Sound(NoEntries)
<1>1. DOMAIN NoEntries = {}
    BY DEF NoEntries
<1>2. NoEntries = [k \in DOMAIN NoEntries |-> NoEntries[k]]
    BY DEF NoEntries
<1>3. IsFiniteSet(DOMAIN NoEntries) /\ Cardinality(DOMAIN NoEntries) <= MaxEntries
    BY <1>1, FS_EmptySet, SessionBounds
<1> QED BY <1>1, <1>2, <1>3 DEF Sound

LEMMA UpdatedSound ==
    ASSUME NEW m, Sound(m), NEW k \in Keys, NEW e \in Entries
    PROVE  /\ Sound(Updated(m, k, e)) /\ DOMAIN m \subseteq DOMAIN Updated(m, k, e)
           /\ DOMAIN Updated(m, k, e) \subseteq DOMAIN m \cup {k}
           /\ \A j \in DOMAIN m \ {k} : Updated(m, k, e)[j] = m[j]
           /\ Takes(m, k) => k \in DOMAIN Updated(m, k, e) /\ Updated(m, k, e)[k].sid = e.sid
<1> DEFINE D == DOMAIN m
<1>1. D \subseteq Keys /\ IsFiniteSet(D) /\ Cardinality(D) <= MaxEntries /\ Cardinality(D) \in Nat
      /\ (\A j \in D : m[j] \in Entries)
    BY FS_CardinalityType DEF Sound
<1>2. ASSUME NEW f \in Entries, k \in D \/ ~Full(m)
      PROVE  /\ Sound(Stored(m, k, f)) /\ DOMAIN Stored(m, k, f) = D \cup {k}
             /\ \A j \in D \ {k} : Stored(m, k, f)[j] = m[j]
             /\ Stored(m, k, f)[k] = f
  <2> DEFINE s == Stored(m, k, f)
  <2>1. s = [j \in D \cup {k} |-> IF j = k THEN f ELSE m[j]]
      BY DEF Stored
  <2>2. DOMAIN s = D \cup {k} /\ (\A j \in D \ {k} : s[j] = m[j]) /\ s[k] = f
        /\ s = [j \in DOMAIN s |-> s[j]]
      BY <2>1
  <2>3. IsFiniteSet(D \cup {k}) /\ Cardinality(D \cup {k}) <= MaxEntries
    <3>1. IsFiniteSet(D \cup {k})
          /\ Cardinality(D \cup {k}) = IF k \in D THEN Cardinality(D) ELSE Cardinality(D) + 1
        BY <1>1, FS_AddElement
    <3>2. CASE k \in D
        BY <1>1, <3>1, <3>2
    <3>3. CASE k \notin D
      <4>1. Cardinality(D) < MaxEntries
          BY <1>1, <1>2, <3>3, SessionBounds DEF Full
      <4>2. Cardinality(D \cup {k}) = Cardinality(D) + 1
          BY <3>1, <3>3
      <4> HIDE DEF D
      <4> QED BY <1>1, <3>1, <4>1, <4>2, SessionBounds
    <3> QED BY <3>2, <3>3
  <2>4. \A j \in DOMAIN s : s[j] \in Entries
      BY <1>1, <1>2, <2>2
  <2> HIDE DEF s
  <2>5. Sound(s)
      BY <1>1, <2>2, <2>3, <2>4 DEF Sound
  <2> QED BY <2>2, <2>5 DEF s
<1>3. CASE k \notin D /\ Full(m)
    BY <1>1, <1>3 DEF Updated, Takes
<1>4. CASE k \notin D /\ ~Full(m)
  <2>1. Updated(m, k, e) = Stored(m, k, e)
      BY <1>4 DEF Updated
  <2> QED BY <1>2, <1>4, <2>1
<1>5. CASE k \in D
  <2> DEFINE f == [sid   |-> e.sid, ws    |-> IF e.ws = "" THEN m[k].ws ELSE e.ws,
                   model |-> IF e.model = "" THEN m[k].model ELSE e.model]
  <2>1. Updated(m, k, e) = Stored(m, k, f)
      BY <1>5 DEF Updated
  <2>2. f \in Entries /\ f.sid = e.sid
      BY <1>1, <1>5 DEF Entries
  <2> HIDE DEF f
  <2> QED BY <1>2, <1>5, <2>1, <2>2
<1> QED BY <1>3, <1>4, <1>5

LEMMA LoadIndexSound ==
    ASSUME TableInv, LoadIndex, UNCHANGED starts
    PROVE  IndexInv' /\ Sound(Parsed)
<1>1. Sound(Parsed)
    BY NoEntriesSound DEF Parsed, TableInv, FileInv
<1>2. Sound(index')
    BY <1>1 DEF LoadIndex
<1>3. Sound(index)'
    BY <1>2 DEF Sound, Entries, StateIds
<1> QED BY <1>1, <1>3 DEF LoadIndex, IndexInv

\* plans of one and of two operations
LEMMA OnePlan ==
    ASSUME NEW S, NEW a \in S
    PROVE  <<a>> \in Seq(S) /\ Len(<<a>>) = 1 /\ <<a>>[1] = a
OBVIOUS

LEMMA TwoPlan ==
    ASSUME NEW S, NEW a \in S, NEW b \in S
    PROVE  /\ <<a>> \o <<b>> \in Seq(S) /\ Len(<<a>> \o <<b>>) = 2
           /\ (<<a>> \o <<b>>)[1] = a /\ (<<a>> \o <<b>>)[2] = b
<1> DEFINE s == <<a>>
           t == <<b>>
<1>1. s \in Seq(S) /\ Len(s) = 1 /\ s[1] = a /\ t \in Seq(S) /\ Len(t) = 1 /\ t[1] = b
    BY OnePlan
<1> HIDE DEF s, t
<1>2. /\ s \o t \in Seq(S) /\ Len(s \o t) = Len(s) + Len(t)
      /\ \A n \in 1 .. Len(s) + Len(t) : (s \o t)[n] = IF n <= Len(s) THEN s[n] ELSE t[n - Len(s)]
    BY <1>1, ConcatProperties
<1>3. s \o t \in Seq(S) /\ Len(s \o t) = 2 /\ (s \o t)[1] = a /\ (s \o t)[2] = b
    BY <1>1, <1>2
<1> QED BY <1>3 DEF s, t

LEMMA OpType ==
    ASSUME NEW t \in OpNames, NEW k \in Keys, NEW i \in Ids
    PROVE  Op(t, k, i) \in PlanOps /\ Op(t, k, i).op = t /\ Op(t, k, i).key = k /\ Op(t, k, i).becomes = i
BY DEF Op, PlanOps

\* the index has nothing for this session, or not for this workspace and model
Missing(k) == ~(k \in DOMAIN Parsed /\ Fits(Parsed[k]))

\* what BeginSession plans
SessionPlan(p, i) ==
    \/ p = <<>> /\ (last = i \/ ~canLoad)
    \/ Len(p) = 1 /\ p[1] = Op("load", Key(i), NoId) /\ Key(i) \in DOMAIN Parsed
    \/ Len(p) = 1 /\ p[1] = Op("error", NoKey, NoId) /\ Missing(Key(i))
    \/ Len(p) = 1 /\ p[1] = Op("switch", Key(i), NoId)
    \/ Len(p) = 1 /\ p[1] = Op("save", Key(last), NoId) /\ ~canLoad /\ last # NoId
    \/ /\ Len(p) = 2 /\ p[1] = Op("save", Key(last), NoId) /\ last # NoId
       /\ \/ p[2] = Op("error", NoKey, NoId) /\ Missing(Key(i))
          \/ p[2] = Op("switch", Key(i), NoId)

LEMMA SessionPlanned ==
    ASSUME TableInv, NEW i \in Ids, i # NoId, BeginSession(i)
    PROVE  plan' \in Seq(PlanOps) /\ SessionPlan(plan', i) /\ last' = i /\ index' = Parsed
<1> DEFINE get == Op("load", Key(i), NoId)
           tell == Op("error", NoKey, NoId)
           over == Op("switch", Key(i), NoId)
           keep == Op("save", Key(last), NoId)
<1>1. get \in PlanOps /\ tell \in PlanOps /\ over \in PlanOps /\ keep \in PlanOps
    BY KeyType, OpType DEF OpNames, TableInv, TurnInv
<1>2. index' = Parsed /\ last' = i /\ UNCHANGED <<ws, model, canLoad>>
      /\ plan' = (CASE last = NoId -> LoadFirst(Key(i))
                    [] last \notin {NoId, i} -> SaveOld(Key(last)) \o SwitchTo(Key(i))
                    [] OTHER -> <<>>)
    BY DEF BeginSession, LoadIndex, Begin, configVars
<1>3. CASE last = NoId
  <2>1. plan' = LoadFirst(Key(i))
      BY <1>2, <1>3
  <2>2. \/ plan' = <<get>> /\ Key(i) \in DOMAIN Parsed
        \/ plan' = <<tell>> /\ Missing(Key(i))
        \/ plan' = <<>> /\ ~canLoad
    <3>1. CASE Key(i) \in DOMAIN Parsed /\ canLoad /\ Fits(Parsed[Key(i)])
        BY <1>2, <2>1, <3>1 DEF LoadFirst
    <3>2. CASE Key(i) \in DOMAIN Parsed /\ canLoad /\ ~Fits(Parsed[Key(i)])
        BY <1>2, <2>1, <3>2 DEF LoadFirst, Report, Missing
    <3>3. CASE Key(i) \notin DOMAIN Parsed /\ canLoad
        BY <1>2, <2>1, <3>3 DEF LoadFirst, Report, Missing
    <3>4. CASE ~canLoad
        BY <1>2, <2>1, <3>4 DEF LoadFirst
    <3> QED BY <3>1, <3>2, <3>3, <3>4
  <2>3. index' = Parsed /\ last' = i
      BY <1>2
  <2>4. CASE plan' = <<get>> /\ Key(i) \in DOMAIN Parsed
    <3>1. plan' \in Seq(PlanOps) /\ Len(plan') = 1 /\ plan'[1] = get
        BY <1>1, <2>4, OnePlan
    <3> QED BY <2>3, <2>4, <3>1 DEF SessionPlan
  <2>5. CASE plan' = <<tell>> /\ Missing(Key(i))
    <3>1. plan' \in Seq(PlanOps) /\ Len(plan') = 1 /\ plan'[1] = tell
        BY <1>1, <2>5, OnePlan
    <3> QED BY <2>3, <2>5, <3>1 DEF SessionPlan
  <2>6. CASE plan' = <<>> /\ ~canLoad
      BY <1>2, <2>3, <2>6, EmptySeq DEF SessionPlan
  <2> QED BY <2>2, <2>4, <2>5, <2>6
<1>4. CASE last \notin {NoId, i}
  <2>1. plan' = SaveOld(Key(last)) \o SwitchTo(Key(i))
      BY <1>2, <1>4
  <2>2. SaveOld(Key(last)) \in {<<keep>>, <<>>}
      BY DEF SaveOld
  <2>3. \/ SwitchTo(Key(i)) = <<over>>
        \/ SwitchTo(Key(i)) = <<tell>> /\ Missing(Key(i))
        \/ SwitchTo(Key(i)) = <<>> /\ ~canLoad
      BY <1>2 DEF SwitchTo, Report, Missing
  <2> HIDE DEF over, tell, keep
  <2>4. \A s \in Seq(PlanOps) : s \o <<>> = s /\ <<>> \o s = s
      BY ConcatEmptySeq
  <2>5. <<keep>> \in Seq(PlanOps) /\ <<tell>> \in Seq(PlanOps) /\ <<over>> \in Seq(PlanOps)
        /\ <<>> \in Seq(PlanOps)
      BY <1>1, OnePlan
  <2>6. CASE SaveOld(Key(last)) = <<>>
    <3>1. plan' = SwitchTo(Key(i))
        BY <2>1, <2>3, <2>4, <2>5, <2>6
    <3> QED BY <1>1, <1>2, <2>3, <2>5, <3>1, OnePlan DEF SessionPlan, over, tell
  <2>7. CASE SaveOld(Key(last)) = <<keep>>
    <3>1. CASE SwitchTo(Key(i)) = <<>> /\ ~canLoad
      <4>1. plan' = <<keep>>
          BY <2>1, <2>4, <2>5, <2>7, <3>1
      <4> QED BY <1>1, <1>2, <1>4, <3>1, <4>1, OnePlan DEF SessionPlan, keep
    <3>2. CASE SwitchTo(Key(i)) = <<over>>
      <4>1. plan' = <<keep>> \o <<over>>
          BY <2>1, <2>7, <3>2
      <4>2. plan' \in Seq(PlanOps) /\ Len(plan') = 2 /\ plan'[1] = keep /\ plan'[2] = over
        <5>1. LET s == <<keep>> \o <<over>>
              IN  s \in Seq(PlanOps) /\ Len(s) = 2 /\ s[1] = keep /\ s[2] = over
            BY <1>1, TwoPlan
        <5> QED BY <4>1, <5>1
      <4> QED BY <1>2, <1>4, <4>2 DEF SessionPlan, keep, over
    <3>3. CASE SwitchTo(Key(i)) = <<tell>> /\ Missing(Key(i))
      <4>1. plan' = <<keep>> \o <<tell>>
          BY <2>1, <2>7, <3>3
      <4>2. plan' \in Seq(PlanOps) /\ Len(plan') = 2 /\ plan'[1] = keep /\ plan'[2] = tell
        <5>1. LET s == <<keep>> \o <<tell>>
              IN  s \in Seq(PlanOps) /\ Len(s) = 2 /\ s[1] = keep /\ s[2] = tell
            BY <1>1, TwoPlan
        <5> QED BY <4>1, <5>1
      <4> QED BY <1>2, <1>4, <3>3, <4>2 DEF SessionPlan, keep, tell
    <3> QED BY <2>3, <3>1, <3>2, <3>3
  <2> QED BY <2>2, <2>6, <2>7
<1>5. CASE last # NoId /\ last = i
  <2>1. plan' = <<>>
      BY <1>2, <1>5
  <2> QED BY <1>2, <1>5, <2>1 DEF SessionPlan
<1> QED BY <1>3, <1>4, <1>5

\* what BeginDefault plans
DefaultPlan(p) ==
    LET k == Key(Default) IN
    \/ Len(p) = 1 /\ p[1] = Op("load", k, Default) /\ k \in DOMAIN Parsed
    \/ Len(p) = 1 /\ p[1] = Op("create", k, AsId(k))
    \/ Len(p) = 2 /\ p[1] = Op("error", NoKey, NoId) /\ p[2] = Op("create", k, AsId(k))

LEMMA DefaultPlanned ==
    ASSUME TableInv, BeginDefault
    PROVE  plan' \in Seq(PlanOps) /\ DefaultPlan(plan') /\ index' = Parsed
           /\ last = NoId /\ last' = NoId
<1> DEFINE get == Op("load", Key(Default), Default)
           tell == Op("error", NoKey, NoId)
           create == Op("create", Key(Default), AsId(Key(Default)))
<1>1. get \in PlanOps /\ tell \in PlanOps /\ create \in PlanOps
  <2>1. Key(Default) \in Keys
      BY KeyType DEF TableInv
  <2> QED BY <2>1, KeyType, OpType DEF OpNames, TableInv
<1>2. index' = Parsed /\ last = NoId /\ last' = NoId
    BY DEF BeginDefault, LoadIndex, Begin
<1>3. \/ plan' = <<get>> /\ Key(Default) \in DOMAIN Parsed
      \/ plan' = Report \o <<create>>
      \/ plan' = <<create>>
    BY <1>2 DEF BeginDefault, Begin
<1> HIDE DEF get, tell, create
<1>4. CASE plan' = Report \o <<create>>
  <2>1. plan' = <<tell>> \o <<create>>
      BY <1>4 DEF Report, tell
  <2>2. plan' \in Seq(PlanOps) /\ Len(plan') = 2 /\ plan'[1] = tell /\ plan'[2] = create
      BY <1>1, <2>1, TwoPlan
  <2> QED BY <1>2, <2>2 DEF DefaultPlan, tell, create
<1>5. CASE plan' = <<get>> /\ Key(Default) \in DOMAIN Parsed
    BY <1>1, <1>2, <1>5, OnePlan DEF DefaultPlan, get
<1>6. CASE plan' = <<create>>
    BY <1>1, <1>2, <1>6, OnePlan DEF DefaultPlan, create
<1> QED BY <1>3, <1>4, <1>5, <1>6

LEMMA SameStart ==
    ASSUME UNCHANGED starts
    PROVE  Entries' = Entries /\ StateIds' = StateIds /\ Replies' = Replies
BY DEF Entries, StateIds, Replies

LEMMA IndexSame ==
    ASSUME IndexInv, UNCHANGED <<starts, indexVars>>
    PROVE  IndexInv'
BY SameStart DEF IndexInv, Sound, indexVars

LEMMA FileSame ==
    ASSUME FileInv, UNCHANGED <<starts, file>>
    PROVE  FileInv'
BY SameStart DEF FileInv, Sound

LEMMA ConfigSame ==
    ASSUME ConfigInv, UNCHANGED configVars
    PROVE  ConfigInv' /\ UNCHANGED starts
BY DEF ConfigInv, configVars

LEMMA InitTable == Init => TableInv
<1> SUFFICES ASSUME Init PROVE TableInv
    OBVIOUS
<1> USE DEF Init
<1>1. ConfigInv
    BY SessionBounds DEF ConfigInv
<1>2. IndexInv
    BY NoEntriesSound DEF IndexInv
<1>3. FileInv
    BY NoEntriesSound DEF FileInv
<1>4. TurnInv
    BY <1>1, KeyType, SessionBounds, EmptySeq DEF TurnInv
<1>5. AgentInv
    BY <1>1, KeyType, SessionBounds, EmptySeq DEF AgentInv
<1> QED BY <1>1, <1>2, <1>3, <1>4, <1>5 DEF TableInv

LEMMA BeginTurnTable ==
    ASSUME TableInv, BeginTurn
    PROVE  TableInv'
<1>1. /\ pc = "idle" /\ turns < MaxTurns /\ turns' = turns + 1 /\ pc' = "plan"
      /\ UNCHANGED <<configVars, file, wireVars, late>>
    BY DEF BeginTurn, BeginReset, Ask, Continue, BeginDefault, BeginPlain, BeginSession, Begin
<1>2. ConfigInv' /\ UNCHANGED starts /\ FileInv'
    BY <1>1, ConfigSame, FileSame DEF TableInv
<1>3. AgentInv'
    BY <1>1, <1>2, SameStart DEF TableInv, AgentInv, wireVars
<1>4. turns' \in 0..MaxTurns
    BY <1>1, SessionBounds DEF TableInv, TurnInv
<1>5. CASE BeginReset
  <2>1. PICK r \in Resets \ usedResets :
            /\ usedResets' = usedResets \cup {r}
            /\ plan' = <<Op("create", Key(SessionId(r)), SessionId(r))>> /\ last' = last
      BY <1>5 DEF BeginReset, Begin
  <2>2. SessionId(r) \in Ids /\ Key(SessionId(r)) \in Keys
      BY KeyType DEF TableInv
  <2>3. plan' \in Seq(PlanOps)
      BY <2>1, <2>2, OpType, OnePlan DEF OpNames
  <2>4. IndexInv'
      BY <1>2, <1>5, IndexSame DEF BeginReset, TableInv
  <2> QED BY <1>1, <1>2, <1>3, <1>4, <2>1, <2>3, <2>4 DEF TableInv, TurnInv
<1>6. CASE Ask \/ Continue
  <2>1. PICK i \in Ids : i # NoId /\ BeginSession(i)
      BY <1>6, KeyType DEF Ask, Continue, TableInv, TurnInv
  <2>2. plan' \in Seq(PlanOps) /\ last' = i
      BY <2>1, SessionPlanned
  <2>3. IndexInv' /\ UNCHANGED usedResets
      BY <1>2, <2>1, LoadIndexSound DEF BeginSession
  <2> QED BY <1>1, <1>2, <1>3, <1>4, <2>2, <2>3 DEF TableInv, TurnInv
<1>7. CASE BeginDefault
  <2>1. plan' \in Seq(PlanOps) /\ last' = last
      BY <1>7, DefaultPlanned
  <2>2. IndexInv' /\ UNCHANGED usedResets
      BY <1>2, <1>7, LoadIndexSound DEF BeginDefault
  <2> QED BY <1>1, <1>2, <1>3, <1>4, <2>1, <2>2 DEF TableInv, TurnInv
<1>8. CASE BeginPlain
  <2>1. plan' = <<>> /\ last' = last /\ UNCHANGED <<indexVars, usedResets>>
      BY <1>8 DEF BeginPlain, Begin
  <2>2. IndexInv'
      BY <1>2, <2>1, IndexSame DEF TableInv
  <2> QED BY <1>1, <1>2, <1>3, <1>4, <2>1, <2>2, EmptySeq DEF TableInv, TurnInv
<1> QED BY <1>5, <1>6, <1>7, <1>8 DEF BeginTurn

\* a message sent, a reply taken
LEMMA SendType ==
    ASSUME TableInv, NEW t \in OpNames, NEW k \in Keys, NEW e \in Keys, Send(t, k, e)
    PROVE  inbox' \in Seq(Messages)
<1>1. [op |-> t, key |-> k, expects |-> e, turn |-> turns, asked |-> last] \in Messages
    BY DEF Messages, TableInv, TurnInv
<1> QED BY <1>1, AppendProperties DEF Send, TableInv, AgentInv

LEMMA ExpectedType ==
    ASSUME TableInv
    PROVE  Expected \in Keys /\ \A k \in Keys : Restored(k) \in Keys
BY KeyType DEF Expected, Restored, TableInv, TurnInv

LEMMA OutboxTail ==
    ASSUME TableInv, outbox # <<>>
    PROVE  Head(outbox) \in Replies /\ Tail(outbox) \in Seq(Replies)
BY HeadTailProperties DEF TableInv, AgentInv

LEMMA HeadPlan ==
    ASSUME TableInv, plan # <<>>
    PROVE  /\ Head(plan) \in PlanOps /\ Tail(plan) \in Seq(PlanOps) /\ Head(plan) = plan[1]
           /\ Len(plan) \in Nat \ {0} /\ Len(Tail(plan)) = Len(plan) - 1
           /\ \A n \in 1..Len(Tail(plan)) : Tail(plan)[n] = plan[n + 1]
BY HeadTailProperties, EmptySeq, LenProperties DEF TableInv, TurnInv

\* a state id in the reply to the operation gets into the index
LEMMA ReplyRecorded ==
    ASSUME TableInv, OpReply, plan # <<>>
    PROVE  \/ UNCHANGED <<index, dirty>>
           \/ /\ Head(plan).op \in {"create", "load"} /\ dirty' = TRUE
              /\ Takes(index, Head(plan).key)
              /\ index' = Updated(index, Head(plan).key, EntryOf(Head(plan), Head(outbox)))
              /\ EntryOf(Head(plan), Head(outbox)) \in Entries
<1>1. Head(outbox) \in Replies
    BY OutboxTail DEF OpReply
<1>2. ws \in {""} \cup Workspaces /\ model \in {""} \cup Models
    BY DEF TableInv, ConfigInv
<1>3. Head(outbox).sid \in StateIds
    BY <1>1 DEF Replies
<1>4. EntryOf(Head(plan), Head(outbox)) \in Entries
    BY <1>2, <1>3 DEF EntryOf, Entries
<1> QED BY <1>4 DEF OpReply, RecordKey

LEMMA OperationTable ==
    ASSUME TableInv, Operation, pc = "wait" => plan # <<>>
    PROVE  TableInv'
<1>1. UNCHANGED <<configVars, loaded, turns, usedResets, active>>
    BY DEF Operation, RunOp, RunReport, OpReply, OpTimeout, Returned, WriteOpen, WriteFails,
       WriteDone, WriteUnchanged, indexVars, wireVars
<1>2. ConfigInv' /\ UNCHANGED starts
    BY <1>1, ConfigSame DEF TableInv
<1> USE DEF TableInv
<1>3. CASE RunOp
  <2>1. PICK o \in PlanOps : o = Head(plan)
      BY <1>3, HeadPlan DEF RunOp
  <2>2. o.op \in OpNames /\ o.key \in Keys
      BY DEF PlanOps
  <2>3. inbox' \in Seq(Messages)
    <3>1. PICK e \in Keys : e = IF o.op = "save" THEN Restored(o.key) ELSE NoKey
        BY <2>2, ExpectedType, KeyType
    <3>2. Send(o.op, o.key, e)
        BY <1>3, <2>1, <3>1 DEF RunOp
    <3> QED BY <2>2, <3>2, SendType
  <2>4. pc' = "wait" /\ UNCHANGED <<indexVars, file, last, plan, outbox, late>>
      BY <1>3 DEF RunOp
  <2>5. IndexInv' /\ FileInv'
      BY <1>2, <2>4, IndexSame, FileSame
  <2> QED BY <1>1, <1>2, <2>3, <2>4, <2>5, SameStart DEF TurnInv, AgentInv
<1>4. CASE RunReport
  <2>1. plan' \in Seq(PlanOps) /\ UNCHANGED <<indexVars, file, last, pc, wireVars, late>>
      BY <1>4, HeadPlan DEF RunReport
  <2>2. IndexInv' /\ FileInv'
      BY <1>2, <2>1, IndexSame, FileSame
  <2> QED BY <1>1, <1>2, <2>1, <2>2, SameStart DEF TurnInv, AgentInv, wireVars
<1>5. CASE OpReply \/ OpTimeout
  <2>1. plan # <<>>
      BY <1>5 DEF OpReply, OpTimeout
  <2>2. /\ plan' = Tail(plan) /\ last' \in {last, Head(plan).becomes}
        /\ UNCHANGED <<file, inbox>> /\ pc' \in {"write", "plan"}
      BY <1>5 DEF OpReply, OpTimeout, Returned
  <2>3. plan' \in Seq(PlanOps) /\ last' \in Ids
      BY <2>1, <2>2, HeadPlan DEF PlanOps, TurnInv
  <2>4. IndexInv'
    <3>1. CASE UNCHANGED <<index, dirty>>
        BY <1>1, <1>2, <3>1, IndexSame DEF indexVars
    <3>2. CASE ~UNCHANGED <<index, dirty>>
      <4>1. OpReply
          BY <1>5, <3>2 DEF OpTimeout, indexVars
      <4>2. Head(plan).key \in Keys
          BY <2>1, HeadPlan DEF PlanOps
      <4>3. Sound(index')
        <5>1. PICK k \in Keys, e \in Entries : index' = Updated(index, k, e) /\ dirty' = TRUE
            BY <2>1, <3>2, <4>1, <4>2, ReplyRecorded
        <5> QED BY <5>1, UpdatedSound DEF IndexInv
      <4>4. dirty' = TRUE
          BY <2>1, <3>2, <4>1, ReplyRecorded
      <4> QED BY <1>1, <1>2, <4>3, <4>4, SameStart DEF IndexInv, Sound
    <3> QED BY <3>1, <3>2
  <2>5. FileInv'
      BY <1>2, <2>2, FileSame
  <2>6. outbox' \in Seq(Replies) /\ late' \in 0..starts
    <3>1. CASE OpReply
        BY <3>1, OutboxTail DEF OpReply, AgentInv
    <3>2. CASE OpTimeout
        BY <3>2, SessionBounds DEF OpTimeout, AgentInv, ConfigInv
    <3> QED BY <1>5, <3>1, <3>2
  <2> QED BY <1>1, <1>2, <2>2, <2>3, <2>4, <2>5, <2>6, SameStart DEF TurnInv, AgentInv
<1>6. CASE WriteOpen \/ WriteFails \/ WriteDone
  <2>1. UNCHANGED <<index, last, plan, inbox, outbox, late>> /\ pc' \in {"writing", "plan"}
      BY <1>6 DEF WriteOpen, WriteFails, WriteDone, WriteUnchanged, wireVars
  <2>2. dirty' \in BOOLEAN
      BY <1>6 DEF WriteOpen, WriteFails, WriteDone, IndexInv
  <2>3. FileInv'
    <3>1. /\ file' = [complete |-> file'.complete, entries |-> file'.entries]
          /\ file'.complete \in BOOLEAN /\ file'.entries \in {file.entries, index}
      <4>1. CASE WriteOpen
        <5>1. PICK es : file = [complete |-> file.complete, entries |-> es] /\ es = file.entries
            BY DEF FileInv
        <5> QED BY <4>1, <5>1 DEF WriteOpen
      <4>2. CASE WriteFails  BY <4>2 DEF WriteFails, FileInv
      <4>3. CASE WriteDone  BY <4>3 DEF WriteDone
      <4> QED BY <1>6, <4>1, <4>2, <4>3
    <3>2. Sound(file'.entries)
        BY <3>1 DEF FileInv, IndexInv
    <3> QED BY <1>2, <3>1, <3>2, SameStart DEF FileInv, Sound
  <2>4. IndexInv'
      BY <1>1, <1>2, <2>1, <2>2, SameStart DEF IndexInv, Sound
  <2> QED BY <1>1, <1>2, <2>1, <2>3, <2>4, SameStart DEF TurnInv, AgentInv
<1> QED BY <1>3, <1>4, <1>5, <1>6 DEF Operation

LEMMA RequestTable ==
    ASSUME TableInv, Request \/ DebugSession
    PROVE  TableInv'
<1>1. /\ UNCHANGED <<configVars, file, plan, turns, usedResets, active, last>>
      /\ pc' \in {"idle", "answer", "save", "saved"}
    BY DEF Request, SendRequest, Answered, AnswerTimeout, SaveAfter, SaveReply, SaveTimeout,
       TurnUnchanged, DebugSession, turnVars, wireVars
<1>2. ConfigInv' /\ UNCHANGED starts
    BY <1>1, ConfigSame DEF TableInv
<1> USE DEF TableInv
<1>3. FileInv'
    BY <1>1, <1>2, FileSame
<1>4. IndexInv'
  <2>1. UNCHANGED indexVars \/ LoadIndex
      BY DEF Request, SendRequest, Answered, AnswerTimeout, SaveAfter, SaveReply, SaveTimeout,
         DebugSession
  <2> QED BY <1>2, <2>1, IndexSame, LoadIndexSound
<1>5. inbox' \in Seq(Messages)
  <2>1. CASE UNCHANGED inbox
      BY <2>1 DEF AgentInv
  <2>2. CASE SendRequest \/ SaveAfter
    <3>1. Expected \in Keys /\ NoKey \in Keys /\ Key(last) \in Keys
          /\ "request" \in OpNames /\ "save" \in OpNames
        BY ExpectedType, KeyType DEF TurnInv, OpNames
    <3>2. PICK e \in Keys : e = Expected
        BY <3>1
    <3>3. PICK k \in Keys : k = Key(last)
        BY <3>1
    <3>4. Send("request", NoKey, e) \/ Send("save", k, e)
        BY <2>2, <3>2, <3>3 DEF SendRequest, SaveAfter
    <3> QED BY <3>1, <3>4, SendType
  <2> QED BY <2>1, <2>2 DEF Request, Answered, AnswerTimeout, SaveReply, SaveTimeout,
             DebugSession, wireVars
<1>6. outbox' \in Seq(Replies)
  <2>1. UNCHANGED outbox \/ (outbox # <<>> /\ outbox' = Tail(outbox))
      BY DEF Request, SendRequest, Answered, AnswerTimeout, SaveAfter, SaveReply, SaveTimeout,
         DebugSession, wireVars
  <2> QED BY <2>1, OutboxTail DEF AgentInv
<1>7. late' \in 0..starts
  <2>1. late' \in {late, starts}
      BY DEF Request, SendRequest, Answered, AnswerTimeout, SaveAfter, SaveReply, SaveTimeout,
         DebugSession
  <2> QED BY <2>1, SessionBounds DEF AgentInv, ConfigInv
<1> QED BY <1>1, <1>2, <1>3, <1>4, <1>5, <1>6, <1>7, SameStart DEF TurnInv, AgentInv

LEMMA AgentTable ==
    ASSUME TableInv, Agent
    PROVE  TableInv'
<1>1. /\ inbox # <<>> /\ inbox' = Tail(inbox)
      /\ UNCHANGED <<configVars, indexVars, file, turnVars, late>>
    BY DEF Agent
<1>2. ConfigInv' /\ UNCHANGED starts
    BY <1>1, ConfigSame DEF TableInv
<1> USE DEF TableInv
<1>3. Head(inbox) \in Messages /\ inbox' \in Seq(Messages)
    BY <1>1, HeadTailProperties DEF AgentInv
<1>4. PICK f \in Messages : f = Head(inbox)
    BY <1>3
<1>5. f.key \in Keys /\ f.turn \in 0..MaxTurns /\ 0 \in 0..MaxTurns
    BY SessionBounds DEF Messages
<1>6. [key |-> f.key, agent |-> starts] \in StateIds /\ NoState \in StateIds
  <2>1. starts \in 0..starts /\ 0 \in 0..starts
      BY SessionBounds DEF ConfigInv
  <2> QED BY <1>5, <2>1, KeyType DEF StateIds, NoState
<1>7. active' \in Keys
    BY <1>4, <1>5 DEF Agent, AgentInv
<1>8. outbox' \in Seq(Replies)
  <2>1. PICK r : outbox' = Append(outbox, r)
                 /\ r \in {[type |-> "ack", turn |-> 0, sid |-> [key |-> f.key, agent |-> starts]],
                           [type |-> "ack", turn |-> 0, sid |-> NoState],
                           [type |-> "response", turn |-> f.turn, sid |-> NoState]}
      BY <1>4 DEF Agent, AgentReply
  <2>2. r \in Replies
      BY <1>5, <1>6, <2>1 DEF Replies
  <2> QED BY <2>1, <2>2, AppendProperties DEF AgentInv
<1>9. IndexInv' /\ FileInv'
    BY <1>1, <1>2, IndexSame, FileSame
<1> QED BY <1>1, <1>2, <1>3, <1>7, <1>8, <1>9, SameStart DEF TurnInv, AgentInv, turnVars

LEMMA RestartTable ==
    ASSUME TableInv, Restart
    PROVE  TableInv'
<1> USE DEF TableInv
<1>1. ConfigInv' /\ starts' = starts + 1 /\ starts \in Nat
    BY SessionBounds DEF Restart, ConfigInv
<1>2. IndexInv'
  <2>1. Sound(NoEntries)'
      BY NoEntriesSound DEF Sound, NoEntries
  <2> QED BY <2>1 DEF Restart, IndexInv
<1>3. FileInv'
  <2>1. \A n : n \in 0..starts => n \in 0..starts'
      BY <1>1
  <2>2. StateIds \subseteq StateIds'
      BY <2>1 DEF StateIds
  <2>3. Entries \subseteq Entries'
      BY <2>2 DEF Entries
  <2> QED BY <2>3 DEF Restart, FileInv, Sound
<1>4. TurnInv'
    BY KeyType, SessionBounds, EmptySeq DEF Restart, TurnInv
<1>5. AgentInv'
  <2>1. late' \in 0..starts'
      BY <1>1 DEF Restart, AgentInv
  <2>2. inbox' \in Seq(Messages) /\ outbox' \in Seq(Replies') /\ active' \in Keys
      BY KeyType, EmptySeq DEF Restart
  <2> QED BY <2>1, <2>2 DEF AgentInv
<1> QED BY <1>1, <1>2, <1>3, <1>4, <1>5

LEMMA TableStep == TableInv /\ (pc = "wait" => plan # <<>>) /\ [Next]_vars => TableInv'
<1> SUFFICES ASSUME TableInv, pc = "wait" => plan # <<>>, [Next]_vars PROVE TableInv'
    OBVIOUS
<1>1. CASE UNCHANGED vars
  <2> USE <1>1 DEF vars, turnVars, wireVars
  <2>1. UNCHANGED starts /\ ConfigInv'
      BY ConfigSame DEF TableInv
  <2>2. IndexInv' /\ FileInv'
      BY <2>1, IndexSame, FileSame DEF TableInv
  <2> QED BY <2>1, <2>2, SameStart DEF TableInv, TurnInv, AgentInv
<1> QED BY <1>1, BeginTurnTable, OperationTable, RequestTable, AgentTable, RestartTable DEF Next

-----------------------------------------------------------------------------
(* The tables.                                                             *)

LEMMA InitTables == Init => WaitInv /\ KeysInv /\ LoadedInv /\ OwnInv
<1> SUFFICES ASSUME Init PROVE WaitInv /\ KeysInv /\ LoadedInv /\ OwnInv
    OBVIOUS
<1>1. DOMAIN index = {} /\ DOMAIN file.entries = {} /\ Len(plan) = 0
    BY NoEntriesSound, EmptySeq DEF Init
<1>2. WaitInv /\ LoadedInv
    BY DEF Init, WaitInv, LoadedInv
<1> QED BY <1>1, <1>2 DEF KeysInv, OwnInv

LEMMA WaitStep == WaitInv /\ [Next]_vars => WaitInv'
<1> SUFFICES ASSUME WaitInv, [Next]_vars PROVE WaitInv'
    OBVIOUS
<1>1. CASE pc' = "wait" /\ pc # "wait"
  <2>1. RunOp
      BY <1>1 DEF Next, BeginTurn, BeginReset, Ask, Continue, BeginDefault, BeginPlain, BeginSession,
         Begin, Operation, RunReport, OpReply, OpTimeout, WriteOpen, WriteFails, WriteDone, Request,
         SendRequest, Answered, AnswerTimeout, SaveAfter, SaveReply, SaveTimeout, DebugSession,
         Agent, Restart, vars, turnVars
  <2> QED BY <2>1 DEF RunOp, WaitInv
<1>2. CASE pc' = "wait" /\ pc = "wait"
  <2>1. UNCHANGED plan
      BY <1>2 DEF Next, BeginTurn, BeginReset, Ask, Continue, BeginDefault, BeginPlain, BeginSession,
         Begin, Operation, RunOp, RunReport, OpReply, OpTimeout, WriteOpen, WriteFails, WriteDone,
         Request, SendRequest, Answered, AnswerTimeout, SaveAfter, SaveReply, SaveTimeout,
         DebugSession, Agent, Restart, vars, turnVars
  <2> QED BY <1>2, <2>1 DEF WaitInv
<1> QED BY <1>1, <1>2 DEF WaitInv

\* what a step does to the index and to its file
LEMMA Moves ==
    ASSUME [Next]_vars
    PROVE  \/ UNCHANGED <<index, file, loaded>>
           \/ LoadIndex /\ UNCHANGED file
           \/ Restart
           \/ OpReply
           \/ WriteOpen
           \/ WriteDone
<1>1. CASE BeginTurn
    BY <1>1 DEF BeginTurn, BeginReset, Ask, Continue, BeginDefault, BeginPlain, BeginSession,
       Begin, indexVars
<1>2. CASE Operation
    BY <1>2 DEF Operation, RunOp, RunReport, OpTimeout, Returned, WriteFails, WriteUnchanged, indexVars
<1>3. CASE Request \/ DebugSession \/ Agent
    BY <1>3 DEF Request, SendRequest, Answered, AnswerTimeout, SaveAfter, SaveReply, SaveTimeout,
       TurnUnchanged, DebugSession, Agent, indexVars
<1> QED BY <1>1, <1>2, <1>3 DEF Next, vars, indexVars

LEMMA Recorded ==
    ASSUME TableInv, WaitInv, OpReply
    PROVE  /\ plan # <<>> /\ UNCHANGED <<file, loaded>>
           /\ \/ UNCHANGED index
              \/ \E k \in Keys, e \in Entries :
                    /\ k = Head(plan).key /\ Head(plan).op \in {"create", "load"}
                    /\ e = EntryOf(Head(plan), Head(outbox)) /\ Takes(index, k)
                    /\ index' = Updated(index, k, e)
<1>1. plan # <<>> /\ UNCHANGED <<file, loaded>>
    BY DEF OpReply, WaitInv, Returned
<1>2. Head(plan).key \in Keys
    BY <1>1, HeadPlan DEF PlanOps
<1> QED BY <1>1, <1>2, ReplyRecorded

LEMMA ParsedDomain ==
    /\ DOMAIN Parsed \subseteq DOMAIN file.entries
    /\ \A k \in DOMAIN Parsed : Parsed[k] = file.entries[k]
    /\ Readable => Parsed = file.entries
BY NoEntriesSound DEF Parsed

\* what a step does to the plan
LEMMA PlanMoves ==
    ASSUME TableInv, WaitInv, [Next]_vars
    PROVE  \/ UNCHANGED plan
           \/ plan' = <<>>
           \/ plan # <<>> /\ plan' = Tail(plan)
           \/ \E r \in Resets : plan' = <<Op("create", Key(SessionId(r)), SessionId(r))>>
           \/ \E i \in Ids : SessionPlan(plan', i)
           \/ DefaultPlan(plan')
<1>1. CASE BeginTurn
  <2>1. CASE BeginReset  BY <2>1 DEF BeginReset, Begin
  <2>2. CASE Ask \/ Continue
    <3>1. PICK i \in Ids : i # NoId /\ BeginSession(i)
        BY <2>2, KeyType DEF Ask, Continue, TableInv, TurnInv
    <3> QED BY <3>1, SessionPlanned
  <2>3. CASE BeginDefault  BY <2>3, DefaultPlanned
  <2>4. CASE BeginPlain  BY <2>4 DEF BeginPlain, Begin
  <2> QED BY <1>1, <2>1, <2>2, <2>3, <2>4 DEF BeginTurn
<1>2. CASE Operation
    BY <1>2 DEF Operation, RunOp, RunReport, OpReply, OpTimeout, Returned, WriteOpen, WriteFails,
       WriteDone, WriteUnchanged, WaitInv
<1>3. CASE Request \/ DebugSession \/ Agent \/ Restart
    BY <1>3 DEF Request, SendRequest, Answered, AnswerTimeout, SaveAfter, SaveReply, SaveTimeout,
       TurnUnchanged, DebugSession, Agent, Restart, turnVars
<1> QED BY <1>1, <1>2, <1>3 DEF Next, vars, turnVars

LEMMA KeysStep == TableInv /\ WaitInv /\ KeysInv /\ [Next]_vars => KeysInv'
<1> SUFFICES ASSUME TableInv, WaitInv, KeysInv, [Next]_vars PROVE KeysInv'
    OBVIOUS
<1>1. \A k \in (DOMAIN index \cup DOMAIN file.entries)' : Unwrapped(k)
  <2>1. CASE UNCHANGED <<index, file, loaded>>
      BY <2>1 DEF KeysInv
  <2>2. CASE LoadIndex /\ UNCHANGED file
      BY <2>2, ParsedDomain DEF LoadIndex, KeysInv
  <2>3. CASE Restart
      BY <2>3, NoEntriesSound DEF Restart, KeysInv
  <2>4. CASE OpReply
    <3>1. plan # <<>> /\ UNCHANGED file
        BY <2>4, Recorded
    <3>2. CASE UNCHANGED index
        BY <3>1, <3>2 DEF KeysInv
    <3>3. CASE ~UNCHANGED index
      <4>1. PICK k \in Keys, e \in Entries :
              /\ k = Head(plan).key /\ Head(plan).op \in {"create", "load"}
              /\ index' = Updated(index, k, e)
          BY <2>4, <3>3, Recorded
      <4>2. Unwrapped(k)
          BY <3>1, <4>1, HeadPlan DEF KeysInv
      <4>3. DOMAIN index' \subseteq DOMAIN index \cup {k}
          BY <4>1, UpdatedSound DEF TableInv, IndexInv
      <4> QED BY <3>1, <4>2, <4>3 DEF KeysInv
    <3> QED BY <3>2, <3>3
  <2>5. CASE WriteOpen \/ WriteDone
    <3>1. UNCHANGED index /\ file'.entries \in {file.entries, index}
        BY <2>5 DEF WriteOpen, WriteDone, WriteUnchanged, TableInv, FileInv
    <3> QED BY <3>1 DEF KeysInv
  <2> QED BY <2>1, <2>2, <2>3, <2>4, <2>5, Moves
<1>2. \A n \in 1..Len(plan') : plan'[n].op \in {"create", "load"} => Unwrapped(plan'[n].key)
  <2>1. CASE UNCHANGED plan
      BY <2>1 DEF KeysInv
  <2>2. CASE plan' = <<>>
    <3>1. Len(plan') = 0
        BY <2>2, EmptySeq
    <3> QED BY <3>1
  <2>3. CASE plan # <<>> /\ plan' = Tail(plan)
      BY <2>3, HeadPlan DEF KeysInv
  <2>4. \A i \in Ids : Key(i).id = i
      BY DEF Key
  <2>5. CASE \E r \in Resets : plan' = <<Op("create", Key(SessionId(r)), SessionId(r))>>
    <3>1. PICK r \in Resets : plan' = <<Op("create", Key(SessionId(r)), SessionId(r))>>
        BY <2>5
    <3>2. Unwrapped(Key(SessionId(r)))
        BY DEF Unwrapped, Key, SessionId
    <3>3. Len(plan') = 1 /\ plan'[1].key = Key(SessionId(r))
        BY <3>1 DEF Op
    <3> QED BY <3>2, <3>3
  <2>6. CASE \E i \in Ids : SessionPlan(plan', i)
    <3>1. PICK i \in Ids : SessionPlan(plan', i)
        BY <2>6
    <3>2. \A k \in DOMAIN Parsed : Unwrapped(k)
        BY ParsedDomain DEF KeysInv
    <3>3. CASE plan' = <<>>
        BY <2>2, <3>3
    <3>4. CASE Len(plan') = 1 /\ plan'[1] = Op("load", Key(i), NoId) /\ Key(i) \in DOMAIN Parsed
        BY <3>2, <3>4 DEF Op
    <3>5. CASE \/ Len(plan') = 1 /\ plan'[1].op \in {"error", "switch", "save"}
               \/ Len(plan') = 2 /\ plan'[1].op = "save" /\ plan'[2].op \in {"error", "switch"}
        BY <3>5
    <3> QED BY <3>1, <3>3, <3>4, <3>5 DEF SessionPlan, Op
  <2>7. CASE DefaultPlan(plan')
    <3>1. Unwrapped(Key(Default))
        BY DEF Unwrapped, Key, Default, SessionId
    <3>2. \/ Len(plan') = 1 /\ plan'[1].key = Key(Default)
          \/ Len(plan') = 2 /\ plan'[1].op = "error" /\ plan'[2].key = Key(Default)
        BY <2>7 DEF DefaultPlan, Op
    <3> QED BY <3>1, <3>2
  <2> QED BY <2>1, <2>2, <2>3, <2>5, <2>6, <2>7, PlanMoves
<1> QED BY <1>1, <1>2 DEF KeysInv, Unwrapped

LEMMA LoadedStep == TableInv /\ WaitInv /\ LoadedInv /\ [Next]_vars => LoadedInv'
<1> SUFFICES ASSUME TableInv, WaitInv, LoadedInv, [Next]_vars PROVE LoadedInv'
    OBVIOUS
<1>1. CASE UNCHANGED <<index, file, loaded>>
    BY <1>1 DEF LoadedInv, Readable
<1>2. CASE LoadIndex /\ UNCHANGED file
    BY <1>2 DEF LoadIndex, LoadedInv, Readable, Parsed
<1>3. CASE Restart
    BY <1>3 DEF Restart, LoadedInv
<1>4. CASE OpReply
  <2>1. UNCHANGED <<file, loaded>> /\ DOMAIN index \subseteq DOMAIN index'
      BY <1>4, Recorded, UpdatedSound DEF TableInv, IndexInv
  <2> QED BY <2>1 DEF LoadedInv, Readable
<1>5. CASE WriteOpen
  <2>1. file'.complete = FALSE
      BY <1>5 DEF WriteOpen, TableInv, FileInv
  <2> QED BY <2>1 DEF LoadedInv, Readable
<1>6. CASE WriteDone
    BY <1>6 DEF WriteDone, WriteUnchanged, LoadedInv
<1> QED BY <1>1, <1>2, <1>3, <1>4, <1>5, <1>6, Moves

-----------------------------------------------------------------------------
(* One thing at a time.                                                    *)

LEMMA InTime ==
    ASSUME [Next]_vars, ~Restart, late' # starts'
    PROVE  late # starts /\ UNCHANGED <<configVars, late>>
           /\ ~OpTimeout /\ ~AnswerTimeout /\ ~SaveTimeout
<1>1. UNCHANGED configVars
    BY DEF Next, BeginTurn, BeginReset, Ask, Continue, BeginDefault, BeginPlain, BeginSession,
       Begin, Operation, RunOp, RunReport, OpReply, OpTimeout, Returned, WriteOpen, WriteFails,
       WriteDone, WriteUnchanged, Request, SendRequest, Answered, AnswerTimeout, SaveAfter, SaveReply,
       SaveTimeout, TurnUnchanged, DebugSession, Agent, vars
<1>2. ~OpTimeout /\ ~AnswerTimeout /\ ~SaveTimeout
    BY <1>1 DEF OpTimeout, AnswerTimeout, SaveTimeout, configVars
<1>3. UNCHANGED late
    BY <1>2 DEF Next, BeginTurn, BeginReset, Ask, Continue, BeginDefault, BeginPlain, BeginSession,
       Begin, Operation, RunOp, RunReport, OpReply, WriteOpen, WriteFails, WriteDone, WriteUnchanged,
       Request, SendRequest, Answered, SaveAfter, SaveReply, DebugSession, Agent, vars
<1> QED BY <1>1, <1>2, <1>3 DEF configVars

\* the next operation, if there is one, and what it may be
LEMMA NextOp ==
    ASSUME TableInv, PlanInv, late # starts, plan # <<>>
    PROVE  /\ Head(plan) = plan[1] /\ Len(plan) \in {1, 2}
           /\ Head(plan).op \in {"create", "load", "save", "switch", "error"}
           /\ Head(plan).op \in {"create", "load", "switch"} => Len(plan) = 1 /\ Leads(plan[1])
           /\ Head(plan).op = "save" => Saves(plan[1])
           /\ Len(plan) = 1 => Tail(plan) = <<>>
           /\ Len(plan) = 2 => Len(Tail(plan)) = 1 /\ Tail(plan)[1] = plan[2]
<1>1. Head(plan) = plan[1] /\ Len(plan) \in {1, 2}
    BY HeadPlan DEF PlanInv
<1>2. plan[1].op \in {"create", "load", "save", "switch", "error"}
      /\ (plan[1].op \in {"create", "load", "switch"} => Len(plan) = 1 /\ Leads(plan[1]))
      /\ (plan[1].op = "save" => Saves(plan[1]))
    BY DEF PlanInv, Leads, Saves
<1>3. ASSUME Len(plan) = 1 PROVE Tail(plan) = <<>>
  <2>1. Tail(plan) \in Seq(PlanOps) /\ Len(Tail(plan)) = 0
      BY <1>3, HeadPlan
  <2> QED BY <2>1, EmptySeq
<1>4. ASSUME Len(plan) = 2 PROVE Len(Tail(plan)) = 1 /\ Tail(plan)[1] = plan[2]
  <2>1. /\ Len(Tail(plan)) = Len(plan) - 1
        /\ \A n \in 1..Len(Tail(plan)) : Tail(plan)[n] = plan[n + 1]
      BY HeadPlan
  <2>2. Len(Tail(plan)) = 1
      BY <1>4, <2>1
  <2> QED BY <2>1, <2>2
<1> QED BY <1>1, <1>2, <1>3, <1>4

\* what is sent says where the agent is
LEMMA SendQuiet ==
    ASSUME TableInv, Quiet, NEW t \in OpNames, NEW k \in Keys, NEW e \in Keys, Send(t, k, e),
           e # NoKey => active = e, UNCHANGED <<outbox, active>>
    PROVE  InTransit(t)' /\ Head(inbox').key = k /\ inbox' # <<>> /\ outbox' = <<>>
<1>1. inbox' = <<[op |-> t, key |-> k, expects |-> e, turn |-> turns, asked |-> last]>>
    BY DEF Send, Quiet
<1>2. Len(inbox') = 1 /\ Head(inbox').op = t /\ Head(inbox').key = k /\ Head(inbox').expects = e
      /\ inbox' # <<>> /\ outbox' = <<>>
    BY <1>1 DEF Quiet
<1> QED BY <1>2 DEF InTransit

\* the reply is the only one on its way
LEMMA TakeReply ==
    ASSUME TableInv, NEW op, InTransit(op), outbox # <<>>, outbox' = Tail(outbox), UNCHANGED inbox
    PROVE  Quiet'
<1>1. inbox = <<>> /\ Len(outbox) = 1
    BY DEF InTransit
<1>2. Len(Tail(outbox)) = 0 /\ Tail(outbox) \in Seq(Replies)
    BY <1>1, HeadTailProperties DEF TableInv, AgentInv
<1>3. Tail(outbox) = <<>>
    BY <1>2, EmptySeq
<1> QED BY <1>1, <1>3 DEF Quiet

LEMMA ExpectedHere ==
    ASSUME TableInv, PlanInv, late # starts, plan = <<>>
    PROVE  Expected # NoKey => active = Expected
<1>1. InSession
    BY EmptySeq DEF PlanInv
<1> QED BY <1>1 DEF InSession, In, Expected, Known

\* the agent works on the one message there is
LEMMA AgentWire ==
    ASSUME TableInv, WireInv, late # starts, Agent
    PROVE  /\ pc \in {"wait", "answer", "saved"} /\ inbox' = <<>> /\ Len(outbox') = 1
           /\ pc = "wait" => Acked(Head(plan))'
           /\ UNCHANGED active \/ (pc = "wait" /\ Head(plan).op \in {"create", "load", "switch"})
<1>1. inbox # <<>> /\ inbox' = Tail(inbox) /\ UNCHANGED <<pc, plan>>
    BY DEF Agent, turnVars
<1>2. pc \in {"wait", "answer", "saved"}
    BY <1>1 DEF WireInv, Quiet, TableInv, TurnInv
<1>3. PICK op : /\ InTransit(op)
                /\ op = CASE pc = "wait" -> Head(plan).op [] pc = "answer" -> "request" [] OTHER -> "save"
    BY <1>2 DEF WireInv
<1>4. Len(inbox) = 1 /\ Head(inbox).op = op /\ outbox = <<>>
    BY <1>1, <1>3 DEF InTransit
<1>5. inbox' = <<>>
  <2>1. Tail(inbox) \in Seq(Messages) /\ Len(Tail(inbox)) = 0
      BY <1>1, <1>4, HeadTailProperties DEF TableInv, AgentInv
  <2> QED BY <1>1, <2>1, EmptySeq
<1>6. PICK f : f = Head(inbox) /\ f.op = op /\ (pc = "wait" => f.key = Head(plan).key)
    BY <1>1, <1>2, <1>4 DEF WireInv
<1>7. UNCHANGED active \/ (op \in {"create", "load", "switch"} /\ active' = f.key)
    BY <1>6 DEF Agent
<1>8. PICK r : outbox' = <<r>> /\ (op \in {"create", "load", "save", "switch"} => r.type = "ack")
               /\ (op \in {"create", "load"} => r.sid.key = f.key)
               /\ (op \in {"create", "load", "switch"} => active' = f.key)
  <2> DEFINE got(t, n, s) == [type |-> t, turn |-> n, sid |-> s]
  <2>1. \A t, n, s : AgentReply(t, n, s) => outbox' = <<got(t, n, s)>>
      BY <1>4 DEF AgentReply
  <2>2. \/ /\ op \in {"create", "load"}
           /\ active' = f.key /\ AgentReply("ack", 0, [key |-> f.key, agent |-> starts])
        \/ /\ op = "switch"
           /\ active' = f.key /\ AgentReply("ack", 0, NoState)
        \/ op = "save" /\ AgentReply("ack", 0, NoState)
        \/ op = "request" /\ AgentReply("response", f.turn, NoState)
      BY <1>6 DEF Agent
  <2> QED BY <2>1, <2>2
<1>9. Len(outbox') = 1 /\ Head(outbox') = r
    BY <1>8
<1>10. pc = "wait" => Acked(Head(plan))'
  <2> SUFFICES ASSUME pc = "wait" PROVE Acked(Head(plan))'
      OBVIOUS
  <2>1. op = Head(plan).op /\ f.key = Head(plan).key /\ Head(plan).op \in {"create", "load", "save", "switch"}
      BY <1>3, <1>6 DEF WireInv
  <2> QED BY <1>1, <1>8, <1>9, <2>1 DEF Acked
<1>11. UNCHANGED active \/ (pc = "wait" /\ Head(plan).op \in {"create", "load", "switch"})
    BY <1>2, <1>3, <1>7
<1> QED BY <1>2, <1>5, <1>9, <1>10, <1>11

LEMMA WireStep == TableInv /\ WireInv /\ PlanInv /\ [Next]_vars => WireInv'
<1> SUFFICES ASSUME TableInv, WireInv, PlanInv, [Next]_vars, late' # starts' PROVE WireInv'
    BY DEF WireInv
<1>1. CASE Restart
    BY <1>1 DEF Restart, WireInv, Quiet
<1>2. CASE ~Restart
  <2>1. late # starts /\ ~OpTimeout /\ ~AnswerTimeout /\ ~SaveTimeout /\ UNCHANGED configVars
      BY <1>2, InTime
  <2>2. CASE BeginTurn
    <3>1. pc = "idle" /\ pc' = "plan" /\ UNCHANGED wireVars
        BY <2>2 DEF BeginTurn, BeginReset, Ask, Continue, BeginDefault, BeginPlain, BeginSession, Begin
    <3>2. Quiet'
        BY <2>1, <3>1 DEF WireInv, Quiet, wireVars
    <3> QED BY <3>1, <3>2 DEF WireInv
  <2>3. CASE RunOp
    <3>1. PICK o \in PlanOps, e \in Keys :
              /\ o = Head(plan) /\ e = (IF o.op = "save" THEN Restored(o.key) ELSE NoKey)
              /\ Send(o.op, o.key, e)
      <4>1. plan # <<>>
          BY <2>3 DEF RunOp
      <4>2. PICK o \in PlanOps : o = Head(plan)
          BY <4>1, HeadPlan
      <4>3. o.key \in Keys
          BY DEF PlanOps
      <4>4. PICK e \in Keys : e = IF o.op = "save" THEN Restored(o.key) ELSE NoKey
          BY <4>3, ExpectedType, KeyType DEF TableInv
      <4>5. Send(o.op, o.key, e)
          BY <2>3, <4>2, <4>4 DEF RunOp
      <4> QED BY <4>2, <4>4, <4>5
    <3>2. /\ pc = "plan" /\ plan # <<>> /\ o.op # "error" /\ pc' = "wait"
          /\ UNCHANGED <<plan, outbox, active>>
        BY <2>3, <3>1 DEF RunOp
    <3>3. o.op \in {"create", "load", "switch", "save"} /\ o.op \in OpNames /\ o.key \in Keys
        BY <2>1, <3>1, <3>2, NextOp DEF OpNames, PlanOps
    <3>4. e # NoKey => active = e
      <4>1. o.op = "save" => Saves(o)
          BY <2>1, <3>1, <3>2, NextOp
      <4> QED BY <3>1, <4>1 DEF Saves, Restored
    <3>5. Quiet
        BY <2>1, <3>2 DEF WireInv
    <3>6. InTransit(o.op)' /\ Head(inbox').key = o.key /\ inbox' # <<>> /\ outbox' = <<>>
        BY <3>1, <3>2, <3>3, <3>4, <3>5, SendQuiet
    <3>7. InTransit(Head(plan).op)'
      <4>1. Head(plan') = o
          BY <3>1, <3>2
      <4> QED BY <3>6, <4>1 DEF InTransit
    <3> QED BY <3>1, <3>2, <3>3, <3>6, <3>7 DEF WireInv
  <2>4. CASE RunReport
      BY <2>1, <2>4 DEF RunReport, WireInv, Quiet, wireVars
  <2>5. CASE OpReply
    <3>1. pc = "wait" /\ plan # <<>> /\ InTransit(Head(plan).op) /\ outbox # <<>>
          /\ outbox' = Tail(outbox) /\ UNCHANGED inbox
        BY <2>1, <2>5 DEF OpReply, Returned, WireInv
    <3>2. Quiet'
        BY <3>1, TakeReply
    <3>3. plan' = Tail(plan) /\ (pc' = "write" => Head(plan).op \in {"create", "load"})
          /\ pc' \in {"write", "plan"}
        BY <2>5 DEF OpReply, Returned
    <3>4. pc' = "write" => plan' = <<>>
        BY <2>1, <3>1, <3>3, NextOp
    <3> QED BY <3>2, <3>3, <3>4 DEF WireInv
  <2>6. CASE WriteOpen \/ WriteFails \/ WriteDone
    <3>1. pc \in {"write", "writing"} /\ pc' \in {"writing", "plan"} /\ UNCHANGED <<plan, wireVars>>
        BY <2>6 DEF WriteOpen, WriteFails, WriteDone, WriteUnchanged
    <3> QED BY <2>1, <3>1 DEF WireInv, Quiet, wireVars
  <2>7. CASE SendRequest \/ SaveAfter
    <3>1. /\ pc \in {"plan", "save"} /\ plan = <<>> /\ UNCHANGED <<plan, outbox, active>>
        BY <2>1, <2>7 DEF SendRequest, SaveAfter, TurnUnchanged, WireInv
    <3>2. Quiet
        BY <2>1, <3>1 DEF WireInv
    <3>3. PICK e \in Keys, k \in Keys : e = Expected /\ k = Key(last)
        BY ExpectedType, KeyType DEF TableInv, TurnInv
    <3>4. e # NoKey => active = e
        BY <2>1, <3>1, <3>3, ExpectedHere
    <3>5. CASE SendRequest
      <4>1. Send("request", NoKey, e) /\ pc' = "answer" /\ "request" \in OpNames /\ NoKey \in Keys
          BY <3>3, <3>5, KeyType DEF SendRequest, OpNames, TableInv
      <4>2. InTransit("request")'
          BY <3>1, <3>2, <3>4, <4>1, SendQuiet
      <4> QED BY <3>1, <4>1, <4>2 DEF WireInv
    <3>6. CASE SaveAfter
      <4>1. Send("save", k, e) /\ pc' = "saved" /\ "save" \in OpNames
          BY <3>3, <3>6 DEF SaveAfter, OpNames
      <4>2. InTransit("save")'
          BY <3>1, <3>2, <3>4, <4>1, SendQuiet
      <4> QED BY <3>1, <4>1, <4>2 DEF WireInv
    <3> QED BY <2>7, <3>5, <3>6
  <2>8. CASE Answered \/ SaveReply
    <3>1. /\ pc \in {"answer", "saved"} /\ outbox # <<>> /\ outbox' = Tail(outbox)
          /\ pc' \in {"save", "idle"} /\ UNCHANGED <<plan, inbox>>
        BY <2>8 DEF Answered, SaveReply, TurnUnchanged
    <3>2. Quiet'
        BY <2>1, <3>1, TakeReply DEF WireInv
    <3> QED BY <2>1, <3>1, <3>2 DEF WireInv
  <2>9. CASE DebugSession \/ UNCHANGED vars
    <3>1. UNCHANGED <<pc, plan, inbox, outbox, active>>
        BY <2>9 DEF DebugSession, vars, turnVars, wireVars
    <3> QED BY <2>1, <3>1 DEF WireInv, Quiet, InTransit, Acked
  <2>10. CASE Agent
    <3>1. UNCHANGED <<pc, plan>>
        BY <2>10 DEF Agent, turnVars
    <3>2. /\ pc \in {"wait", "answer", "saved"} /\ inbox' = <<>> /\ Len(outbox') = 1
          /\ (pc = "wait" => Acked(Head(plan))')
        BY <2>1, <2>10, AgentWire
    <3>3. \A op : InTransit(op)'
        BY <3>2 DEF InTransit
    <3>4. /\ pc \in {"answer", "saved"} => plan = <<>>
          /\ pc = "wait" => plan # <<>> /\ Head(plan).op \in {"create", "load", "save", "switch"}
        BY <2>1 DEF WireInv
    <3>5. InTransit(Head(plan).op)' /\ InTransit("request")' /\ InTransit("save")'
        BY <3>2 DEF InTransit
    <3> QED BY <3>1, <3>2, <3>4, <3>5 DEF WireInv
  <2> QED BY <1>2, <2>1, <2>2, <2>3, <2>4, <2>5, <2>6, <2>7, <2>8, <2>9, <2>10
          DEF Next, Operation, Request
<1> QED BY <1>1, <1>2

LEMMA OwnStep ==
    TableInv /\ WaitInv /\ WireInv /\ OwnInv /\ [Next]_vars => OwnInv'
<1> SUFFICES ASSUME TableInv, WaitInv, WireInv, OwnInv, [Next]_vars, late' = 0 PROVE OwnInv'
    BY DEF OwnInv
<1>1. late = 0 /\ late # starts
  <2>1. late' \in {late, starts}
      BY DEF Next, BeginTurn, BeginReset, Ask, Continue, BeginDefault, BeginPlain, BeginSession,
         Begin, Operation, RunOp, RunReport, OpReply, OpTimeout, WriteOpen, WriteFails, WriteDone,
         WriteUnchanged, Request, SendRequest, Answered, AnswerTimeout, SaveAfter, SaveReply,
         SaveTimeout, DebugSession, Agent, Restart, vars
  <2> QED BY <2>1, SessionBounds DEF TableInv, ConfigInv
<1>2. /\ \A k \in DOMAIN index : index[k].sid.key = k
      /\ \A k \in DOMAIN file.entries : file.entries[k].sid.key = k
    BY <1>1 DEF OwnInv
<1>3. CASE UNCHANGED <<index, file, loaded>>
    BY <1>2, <1>3 DEF OwnInv
<1>4. CASE LoadIndex /\ UNCHANGED file
    BY <1>2, <1>4, ParsedDomain DEF LoadIndex, OwnInv
<1>5. CASE Restart
    BY <1>2, <1>5, NoEntriesSound DEF Restart, OwnInv
<1>6. CASE OpReply
  <2>1. UNCHANGED file
      BY <1>6, Recorded
  <2>2. CASE UNCHANGED index
      BY <1>2, <2>1, <2>2 DEF OwnInv
  <2>3. CASE ~UNCHANGED index
    <3>1. PICK k \in Keys, e \in Entries :
            /\ k = Head(plan).key /\ Head(plan).op \in {"create", "load"}
            /\ e = EntryOf(Head(plan), Head(outbox)) /\ Takes(index, k)
            /\ index' = Updated(index, k, e)
        BY <1>6, <2>3, Recorded
    <3>2. e.sid.key = k
      <4>1. Acked(Head(plan))
          BY <1>1, <1>6 DEF OpReply, WireInv
      <4> QED BY <3>1, <4>1 DEF Acked, EntryOf
    <3>3. /\ DOMAIN index' \subseteq DOMAIN index \cup {k}
          /\ \A j \in DOMAIN index \ {k} : index'[j] = index[j]
          /\ index'[k].sid = e.sid
        BY <3>1, UpdatedSound DEF TableInv, IndexInv
    <3>4. \A j \in DOMAIN index' : index'[j].sid.key = j
        BY <1>2, <3>2, <3>3
    <3> QED BY <1>2, <2>1, <3>4 DEF OwnInv
  <2> QED BY <2>2, <2>3
<1>7. CASE WriteOpen \/ WriteDone
  <2>1. UNCHANGED index /\ file'.entries \in {file.entries, index}
      BY <1>7 DEF WriteOpen, WriteDone, WriteUnchanged, TableInv, FileInv
  <2> QED BY <1>2, <2>1 DEF OwnInv
<1> QED BY <1>3, <1>4, <1>5, <1>6, <1>7, Moves

-----------------------------------------------------------------------------
(* The agent is where the bridge goes on.                                  *)

LEMMA PlanFrame ==
    ASSUME UNCHANGED <<plan, index, file, last, active, configVars, late>>
    PROVE  PlanInv' = PlanInv /\ InSession' = InSession /\ \A o : Leads(o)' = Leads(o)
<1> USE DEF configVars
<1>1. InSession' = InSession
    BY DEF InSession, In, Parsed, Readable, Key, Fits
<1>3. \A o : Leads(o)' = Leads(o)
    BY <1>1 DEF Leads, Key
<1>4. \A o : Saves(o)' = Saves(o)
    BY DEF Saves, Restored, Key, Fits
<1>5. Leads(plan[1])' = Leads(plan[1]) /\ Leads(plan[2])' = Leads(plan[2])
      /\ Saves(plan[1])' = Saves(plan[1])
    BY <1>1 DEF Leads, Saves, Restored, Key, Fits
<1> QED BY <1>1, <1>3, <1>5 DEF PlanInv

LEMMA BeginPlan ==
    ASSUME TableInv, KeysInv, WireInv, PlanInv, late # starts, BeginTurn, UNCHANGED <<configVars, late>>
    PROVE  PlanInv'
<1>1. pc = "idle" /\ UNCHANGED <<file, active>>
    BY DEF BeginTurn, BeginReset, Ask, Continue, BeginDefault, BeginPlain, BeginSession, Begin, wireVars
<1>2. plan = <<>> /\ InSession
    BY <1>1, EmptySeq DEF WireInv, PlanInv
<1>3. UNCHANGED <<ws, model, canLoad>> /\ Parsed' = Parsed
    BY <1>1 DEF configVars, Parsed, Readable
<1>4. CASE BeginReset
  <2>1. PICK r \in Resets : plan' = <<Op("create", Key(SessionId(r)), SessionId(r))>>
      BY <1>4 DEF BeginReset, Begin
  <2>2. SessionId(r) # NoId /\ Key(SessionId(r))' = Key(SessionId(r))
      BY <1>3, KeyType DEF TableInv, Key
  <2>3. Len(plan') = 1 /\ plan'[1] = Op("create", Key(SessionId(r)), SessionId(r))
      BY <2>1
  <2>4. Leads(plan[1])'
      BY <1>3, <2>2, <2>3 DEF Leads, Op, Key
  <2> QED BY <2>3, <2>4 DEF PlanInv
<1>5. CASE Ask \/ Continue
  <2>1. PICK i \in Ids : i # NoId /\ BeginSession(i)
      BY <1>5, KeyType DEF Ask, Continue, TableInv, TurnInv
  <2>2. SessionPlan(plan', i) /\ last' = i /\ index' = Parsed
      BY <2>1, SessionPlanned
  <2>3. Missing(Key(i)) \/ ~canLoad \/ last = i => InSession'
    <3>1. last' = i /\ index' = Parsed /\ Key(last)' = Key(i)
        BY <1>3, <2>2 DEF Key
    <3>3. In(index)' <=> (canLoad /\ i # NoId /\ Key(i) \in DOMAIN Parsed /\ Fits(Parsed[Key(i)])
                            => active = Key(i))
        BY <1>1, <1>3, <3>1 DEF In, Fits
    <3>4. In(Parsed)' <=> (canLoad /\ i # NoId /\ Key(i) \in DOMAIN Parsed /\ Fits(Parsed[Key(i)])
                            => active = Key(i))
        BY <1>1, <1>3, <3>1 DEF In, Fits
    <3>5. last = i => (canLoad /\ i # NoId /\ Key(i) \in DOMAIN Parsed /\ Fits(Parsed[Key(i)])
                            => active = Key(i))
        BY <1>2 DEF InSession, In
    <3> QED BY <3>3, <3>4, <3>5 DEF InSession, Missing
  <2>4. Key(i)' = Key(i) /\ Key(last)' = Key(i)
      BY <1>3, <2>2 DEF Key
  <2>7. CASE plan' = <<>> /\ (last = i \/ ~canLoad)
      BY <2>3, <2>7 DEF PlanInv
  <2>8. CASE Len(plan') = 1 /\ plan'[1] = Op("load", Key(i), NoId)
    <3>1. Leads(plan[1])'
        BY <2>4, <2>8 DEF Leads, Op
    <3> QED BY <2>8, <3>1 DEF PlanInv
  <2>9. CASE Len(plan') = 1 /\ plan'[1] = Op("error", NoKey, NoId) /\ Missing(Key(i))
    <3>1. Leads(plan[1])'
        BY <2>3, <2>9 DEF Leads, Op
    <3> QED BY <2>9, <3>1 DEF PlanInv
  <2>10. CASE Len(plan') = 1 /\ plan'[1] = Op("switch", Key(i), NoId)
    <3>1. Leads(plan[1])'
        BY <2>4, <2>10 DEF Leads, Op
    <3> QED BY <2>10, <3>1 DEF PlanInv
  <2>11. CASE Len(plan') = 1 /\ plan'[1] = Op("save", Key(last), NoId) /\ ~canLoad
    <3>1. Saves(plan[1])'
        BY <1>3, <2>11 DEF Saves, Restored, Op
    <3> QED BY <2>3, <2>11, <3>1 DEF PlanInv
  <2>12. CASE /\ Len(plan') = 2 /\ plan'[1] = Op("save", Key(last), NoId) /\ last # NoId
              /\ \/ plan'[2] = Op("error", NoKey, NoId) /\ Missing(Key(i))
                 \/ plan'[2] = Op("switch", Key(i), NoId)
    <3>1. PICK k : k = Key(last)
        OBVIOUS
    <3>2. canLoad /\ k \in DOMAIN Parsed /\ Fits(Parsed[k]) => active = k
        BY <1>2, <2>12, <3>1 DEF InSession, In
    <3>3. canLoad' /\ k \in DOMAIN index' /\ Fits(index[k])' => active' = k
        BY <1>1, <1>3, <2>2, <3>2 DEF Fits
    <3>4. plan'[1].op = "save" /\ plan'[1].becomes = NoId /\ plan'[1].key = k
        BY <2>12, <3>1 DEF Op
    <3>5. Saves(plan[1])'
        BY <3>3, <3>4 DEF Saves, Restored
    <3>6. Leads(plan[2])'
        BY <2>3, <2>4, <2>12 DEF Leads, Op
    <3> QED BY <2>12, <3>5, <3>6 DEF PlanInv
  <2> QED BY <2>2, <2>7, <2>8, <2>9, <2>10, <2>11, <2>12 DEF SessionPlan
<1>6. CASE BeginDefault
  <2>1. DefaultPlan(plan')
      BY <1>6, DefaultPlanned
  <2>2. PICK k \in Keys : k = Key(Default)
      BY KeyType DEF TableInv
  <2>3. Default # NoId /\ AsId(k) # NoId /\ AsId(k).wraps > 0 /\ Key(Default)' = k
    <3>1. AsId(k) # NoId /\ AsId(k).wraps = k.id.wraps + 1 /\ Default # NoId
        BY KeyType DEF TableInv
    <3>2. k.id.wraps = 0
        BY <2>2 DEF Key, Default, SessionId
    <3> QED BY <1>3, <2>2, <3>1, <3>2 DEF Key
  <2>4. \/ Len(plan') = 1 /\ plan'[1] = Op("load", k, Default)
        \/ Len(plan') = 1 /\ plan'[1] = Op("create", k, AsId(k))
        \/ Len(plan') = 2 /\ plan'[1] = Op("error", NoKey, NoId) /\ plan'[2] = Op("create", k, AsId(k))
      BY <2>1, <2>2 DEF DefaultPlan
  <2>5. CASE Len(plan') = 1 /\ plan'[1] = Op("load", k, Default)
    <3>1. Leads(plan[1])'
        BY <2>3, <2>5 DEF Leads, Op
    <3> QED BY <2>5, <3>1 DEF PlanInv
  <2>6. CASE Len(plan') = 1 /\ plan'[1] = Op("create", k, AsId(k))
    <3>1. Leads(plan[1])'
        BY <2>3, <2>6 DEF Leads, Op
    <3> QED BY <2>6, <3>1 DEF PlanInv
  <2>7. CASE Len(plan') = 2 /\ plan'[1] = Op("error", NoKey, NoId) /\ plan'[2] = Op("create", k, AsId(k))
    <3>1. Leads(plan[2])' /\ plan'[2].op = "create" /\ plan'[1].op = "error"
        BY <2>3, <2>7 DEF Leads, Op
    <3> QED BY <2>7, <3>1 DEF PlanInv
  <2> QED BY <2>4, <2>5, <2>6, <2>7
<1>7. CASE BeginPlain
  <2>1. plan' = <<>> /\ last' = NoId
      BY <1>7 DEF BeginPlain, Begin
  <2> QED BY <2>1 DEF PlanInv, InSession, In
<1> QED BY <1>4, <1>5, <1>6, <1>7 DEF BeginTurn

\* the reply to the operation
LEMMA ReplyPlan ==
    ASSUME TableInv, WaitInv, WireInv, PlanInv, KeysInv', late # starts, OpReply,
           UNCHANGED <<configVars, late>>
    PROVE  PlanInv'
<1>1. /\ pc = "wait" /\ plan # <<>> /\ plan' = Tail(plan) /\ UNCHANGED <<file, active>>
      /\ Head(plan).op \in {"create", "load", "save", "switch"}
      /\ Acked(Head(plan))
      /\ last' = (IF Head(plan).becomes # NoId THEN Head(plan).becomes ELSE last)
    BY DEF OpReply, Returned, WaitInv, WireInv, Acked
<1>2. /\ Head(plan) = plan[1] /\ Len(plan) \in {1, 2}
      /\ Head(plan).op \in {"create", "load", "switch"} => Len(plan) = 1 /\ Leads(plan[1])
      /\ Len(plan) = 1 => plan' = <<>>
    BY <1>1, NextOp
<1>3. UNCHANGED <<ws, model, canLoad>> /\ Parsed' = Parsed
    BY <1>1 DEF configVars, Parsed, Readable
<1>4. CASE Head(plan).op \in {"create", "load", "switch"}
  <2>1. active' = plan[1].key /\ Leads(plan[1]) /\ plan' = <<>>
      BY <1>1, <1>2, <1>4 DEF Acked
  <2>2. Key(last)' = active' \/ Key(last)'.id.wraps > 0
      BY <1>1, <1>2, <1>3, <1>4, <2>1 DEF Leads, Key
  <2>3. Key(last)' \in DOMAIN index' \/ Key(last)' \in DOMAIN Parsed' => Key(last)'.id.wraps = 0
      BY <1>1, <1>3, ParsedDomain DEF KeysInv, Unwrapped
  <2>4. InSession'
      BY <2>2, <2>3 DEF InSession, In
  <2> QED BY <2>1, <2>4 DEF PlanInv
<1>5. CASE Head(plan).op = "save"
  <2>1. UNCHANGED index
      BY <1>5 DEF OpReply
  <2>2. Saves(plan[1])
      BY <1>1, <1>5, NextOp
  <2>3. UNCHANGED last
      BY <1>1, <1>2, <2>2 DEF Saves
  <2>4. InSession' = InSession
      BY <1>1, <1>3, <2>1, <2>3 DEF InSession, In, Key, Fits
  <2>5. plan[1].op = "save"
      BY <1>2, <1>5
  <2>6. CASE Len(plan) = 1 /\ InSession
      BY <1>2, <2>4, <2>6 DEF PlanInv
  <2>7. CASE Len(plan) = 2 /\ Leads(plan[2])
    <3>1. Len(plan') = 1 /\ plan'[1] = plan[2]
        BY <1>1, <2>7, NextOp
    <3>2. Leads(plan[1])'
        BY <1>3, <2>3, <2>4, <2>7, <3>1 DEF Leads, Key
    <3> QED BY <3>1, <3>2 DEF PlanInv
  <2> QED BY <1>1, <2>5, <2>6, <2>7 DEF PlanInv, Leads
<1> QED BY <1>1, <1>4, <1>5

LEMMA PlanStep ==
    TableInv /\ WaitInv /\ KeysInv /\ WireInv /\ PlanInv /\ [Next]_vars => PlanInv'
<1> SUFFICES ASSUME TableInv, WaitInv, KeysInv, WireInv, PlanInv, [Next]_vars, late' # starts'
             PROVE  PlanInv'
    BY DEF PlanInv
<1>1. CASE Restart
  <2>1. plan' = <<>> /\ last' = NoId
      BY <1>1 DEF Restart
  <2> QED BY <2>1 DEF PlanInv, InSession, In
<1>2. CASE ~Restart
  <2>1. /\ late # starts /\ UNCHANGED <<configVars, late>>
        /\ ~OpTimeout /\ ~AnswerTimeout /\ ~SaveTimeout
      BY <1>2, InTime
  <2>3. CASE BeginTurn
      BY <2>1, <2>3, BeginPlan
  <2>4. CASE OpReply
      BY <2>1, <2>4, KeysStep, ReplyPlan
  <2>5. CASE RunOp \/ WriteFails \/ SendRequest \/ SaveAfter \/ SaveReply \/ UNCHANGED vars
    <3>1. UNCHANGED <<plan, index, file, last, active>>
        BY <2>5 DEF RunOp, WriteFails, WriteUnchanged, SendRequest, SaveAfter, SaveReply,
           TurnUnchanged, indexVars, vars, turnVars, wireVars
    <3> QED BY <2>1, <3>1, PlanFrame
  <2>6. CASE RunReport
    <3>1. /\ plan # <<>> /\ Head(plan).op = "error" /\ plan' = Tail(plan)
          /\ UNCHANGED <<index, file, last, active>>
        BY <2>6 DEF RunReport, indexVars, wireVars
    <3>2. plan[1].op = "error" /\ (Len(plan) = 1 => plan' = <<>>)
        BY <2>1, <3>1, NextOp
    <3>3. InSession' = InSession
        BY <2>1, <3>1 DEF InSession, In, Parsed, Readable, Key, Fits, configVars
    <3>4. CASE Len(plan) = 1 /\ InSession
        BY <3>2, <3>3, <3>4 DEF PlanInv
    <3>5. CASE Len(plan) = 2 /\ Leads(plan[2])
      <4>1. Len(plan') = 1 /\ plan'[1] = plan[2]
          BY <2>1, <3>1, <3>5, NextOp
      <4>2. Leads(plan[1])'
          BY <2>1, <3>1, <3>3, <3>5, <4>1 DEF Leads, Key, configVars
      <4> QED BY <4>1, <4>2 DEF PlanInv
    <3> QED BY <2>1, <3>1, <3>2, <3>4, <3>5 DEF PlanInv, Leads, Saves
  <2>7. CASE WriteOpen \/ WriteDone
    <3>1. /\ pc \in {"write", "writing"} /\ UNCHANGED <<plan, index, last, active>>
        BY <2>7 DEF WriteOpen, WriteDone, WriteUnchanged, wireVars
    <3>2. plan = <<>> /\ InSession
        BY <2>1, <3>1, EmptySeq DEF WireInv, PlanInv
    <3>3. In(index)'
        BY <2>1, <3>1, <3>2 DEF InSession, In, Key, Fits, configVars
    <3>4. Parsed' \in {NoEntries, index}
      <4>1. CASE WriteOpen
        <5>1. file'.complete = FALSE
            BY <4>1 DEF WriteOpen, TableInv, FileInv
        <5> QED BY <5>1 DEF Parsed, Readable
      <4>2. CASE WriteDone
          BY <4>2 DEF WriteDone, Parsed, NoEntries
      <4> QED BY <2>7, <4>1, <4>2
    <3>5. In(Parsed)'
      <4>1. CASE Parsed' = NoEntries
          BY <4>1, NoEntriesSound DEF In
      <4>2. CASE Parsed' = index
          BY <2>1, <3>1, <3>3, <4>2 DEF In, Fits, configVars
      <4> QED BY <3>4, <4>1, <4>2
    <3> QED BY <3>1, <3>2, <3>3, <3>5 DEF PlanInv, InSession
  <2>8. CASE Answered \/ DebugSession
    <3>1. pc \in {"answer", "idle"} /\ UNCHANGED <<plan, file, last, active>>
          /\ (UNCHANGED index \/ index' = Parsed)
        BY <2>8 DEF Answered, DebugSession, TurnUnchanged, LoadIndex, turnVars, wireVars, indexVars
    <3>2. plan = <<>> /\ InSession
        BY <2>1, <3>1, EmptySeq DEF WireInv, PlanInv
    <3>3. Parsed' = Parsed
        BY <3>1 DEF Parsed, Readable
    <3>4. In(index)' /\ In(Parsed)'
        BY <2>1, <3>1, <3>2, <3>3 DEF InSession, In, Key, Fits, configVars
    <3> QED BY <3>1, <3>2, <3>4 DEF PlanInv, InSession
  <2>9. CASE Agent
    <3>1. UNCHANGED <<plan, index, file, last>>
        BY <2>9 DEF Agent, turnVars, indexVars
    <3>2. CASE UNCHANGED active
        BY <2>1, <3>1, <3>2, PlanFrame
    <3>3. CASE pc = "wait" /\ Head(plan).op \in {"create", "load", "switch"}
      <4>1. plan # <<>>
          BY <3>3 DEF WaitInv
      <4>2. Len(plan) = 1 /\ Leads(plan[1]) /\ plan[1].op \in {"create", "load", "switch"}
          BY <2>1, <3>3, <4>1, NextOp
      <4>3. Leads(plan[1])'
          BY <2>1, <3>1, <4>2 DEF Leads, Key, configVars
      <4> QED BY <3>1, <4>2, <4>3 DEF PlanInv
    <3> QED BY <2>1, <2>9, <3>2, <3>3, AgentWire
  <2> QED BY <1>2, <2>1, <2>3, <2>4, <2>5, <2>6, <2>7, <2>8, <2>9 DEF Next, Operation, Request
<1> QED BY <1>1, <1>2

-----------------------------------------------------------------------------
(* The properties.                                                         *)

SessionInv ==
    TableInv /\ WaitInv /\ KeysInv /\ LoadedInv /\ WireInv /\ PlanInv /\ OwnInv

LEMMA InitStep == Init => WireInv /\ PlanInv
BY DEF Init, WireInv, Quiet, PlanInv, InSession, In

LEMMA SessionAlways == Spec => []SessionInv
<1>1. Init => SessionInv
    BY InitTable, InitTables, InitStep DEF SessionInv
<1>2. SessionInv /\ [Next]_vars => SessionInv'
  <2>1. TableInv /\ WaitInv /\ [Next]_vars => TableInv'
      BY TableStep DEF WaitInv
  <2> QED BY <2>1, WaitStep, KeysStep, LoadedStep, WireStep, PlanStep, OwnStep DEF SessionInv
<1> QED BY <1>1, <1>2, PTL DEF Spec

\* Every variable keeps its type, and neither table ever holds more keys than the code has
\* room for (SESSION_INDEX_MAX_ENTRIES, session_index_update).
THEOREM SessionTypes == Spec => []TypeOK
<1>1. SessionInv => TypeOK
    BY DEF SessionInv, TableInv, ConfigInv, IndexInv, FileInv, TurnInv, AgentInv, Sound, Table,
       PlanOps, Messages, Replies, TypeOK
<1> QED BY <1>1, SessionAlways, PTL

\* Until a read of this process times out, the agent is in the session asked for when it
\* works on a request, and in the session that is saved when it saves, if the index has it
\* for this workspace and model (turn_begin's save, switch and load, and the save after a
\* response; replies are told apart by their order alone).
THEOREM SessionsApart == Spec => []SessionsStayApart
<1>1. SessionInv => SessionsStayApart
  <2> SUFFICES ASSUME SessionInv, inbox # <<>>, Head(inbox).expects # NoKey, late # starts
               PROVE  active = Head(inbox).expects
      BY DEF SessionsStayApart
  <2>1. pc \in {"wait", "answer", "saved"}
      BY DEF SessionInv, WireInv, Quiet, TableInv, TurnInv
  <2>2. \E op : InTransit(op)
      BY <2>1 DEF SessionInv, WireInv
  <2> QED BY <2>2 DEF InTransit
<1> QED BY <1>1, SessionAlways, PTL

\* A state id on file is one the agent gave for that key, as long as no read ever timed out,
\* over any number of restarts, failed writes and changes of workspace or model
\* (engine_create_session, engine_load_session and save_session_index).
THEOREM StateIdsAreOwn == Spec => []IdsAreOwn
<1>1. SessionInv => IdsAreOwn
    BY DEF SessionInv, OwnInv, IdsAreOwn
<1> QED BY <1>1, SessionAlways, PTL

\* A write of the index displaces no session that could be read from the file it replaces,
\* if this process has read it (load_session_index and save_session_index).
THEOREM WritesKeepSessions == Spec => SessionsAreKept
<1>1. SessionInv /\ [Next]_vars =>
        [Readable /\ ~file'.complete /\ loaded => DOMAIN file.entries \subseteq DOMAIN index]_vars
    BY DEF SessionInv, LoadedInv
<1> QED BY <1>1, SessionAlways, PTL DEF Spec, SessionsAreKept

=============================================================================
