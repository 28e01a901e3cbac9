--------------------------- MODULE ManagedConfig ---------------------------
(***************************************************************************)
(* --install and --disable: the block that star_bridge keeps in the user's *)
(* ~/.codex/config.toml, the backup it writes beside it, and the user (or  *)
(* Codex Desktop) who edits the same file.                                 *)
(*                                                                         *)
(* A file is a sequence of items.  An item is a marker, one of the two     *)
(* parts of the managed block, a table that the block displaces, or        *)
(* another line or table of the user.  read_file returns NULL for a file   *)
(* that is missing and for an empty one, so both are <<>>.                 *)
(***************************************************************************)
EXTENDS Integers, Sequences, FiniteSets, SequencesExt

CONSTANTS
    Lines, Tables,      \* the user's plain lines and tables
    Model, Provider,    \* [model "star-bridge-ds4"] and [provider "star-bridge-local"]
    FirstFiles,         \* what the file may hold at the start
    MaxOps, MaxEdits, MaxFaults     \* bounds

Begins  == {"BEGIN", "LEGACY_BEGIN"}
Ends    == {"END", "LEGACY_END"}
Markers == Begins \cup Ends
Block   == <<"BEGIN", "keys", "providers", "END">>
Displaced == {Model, Provider}
Theirs  == Lines \cup Tables \cup Displaced
Headers == Tables \cup Displaced \cup {"providers"}
Items   == Theirs \cup Markers \cup ToSet(Block)

ASSUME ConfigBounds ==
    /\ MaxOps \in Nat /\ MaxEdits \in Nat /\ MaxFaults \in Nat
    /\ FirstFiles \subseteq Seq(Items)
    /\ Theirs \cap Markers = {}

VARIABLES
    config, backup,     \* the two files
    op,         \* the operation: do, at, what it read, what it writes next
    used,       \* operations, edits and faults so far
    \* history: the items the user put in the file, outside every block, and did
    \* not delete; the operation that ended last; what has gone wrong since
    owned, last, damage

vars == <<config, backup, op, used, owned, last, damage>>

-----------------------------------------------------------------------------
\* The first item of S in t, from i on; 0 if there is none.
From(t, i, S) == SelectInSubSeq(t, i, Len(t), LAMBDA x : x \in S)

\* find_managed_block: new markers are looked for before the legacy ones, so an
\* END far below is preferred to a LEGACY_END that is next.
Installed(t) ==
    LET begin == IF From(t, 1, {"BEGIN"}) # 0 THEN From(t, 1, {"BEGIN"})
                                              ELSE From(t, 1, {"LEGACY_BEGIN"})
    IN  begin # 0 /\ From(t, begin, Ends) # 0

\* remove_all_managed_sections, from item i on.
StrippedFrom(t) ==
    LET rest[i \in 1..Len(t) + 1] ==
            LET begin == From(t, i, Begins)
                end   == IF begin = 0 THEN 0 ELSE From(t, begin, Ends)
            IN  IF end = 0 THEN SubSeq(t, i, Len(t))
                           ELSE SubSeq(t, i, begin - 1) \o rest[end + 1]
    IN  rest
\* Mutants: the first block only; everything up to the last END as one block.
StrippedOnce(t) ==
    LET begin == From(t, 1, Begins)
        end   == From(t, begin, Ends)
    IN  IF begin = 0 \/ end = 0 THEN t ELSE SubSeq(t, 1, begin - 1) \o SubSeq(t, end + 1, Len(t))
StrippedToLast(t) ==
    LET begin == From(t, 1, Begins)
        end   == SelectLastInSeq(t, LAMBDA x : x \in Ends)
    IN  IF begin = 0 \/ end < begin THEN t ELSE SubSeq(t, 1, begin - 1) \o SubSeq(t, end + 1, Len(t))
Stripped(t) == StrippedFrom(t)[1]

\* A table, with the lines that follow it up to the next one.
Section(t, table) ==
    LET at   == From(t, 1, {table})
        next == From(t, at + 1, Headers)
    IN  IF at = 0 THEN <<>> ELSE SubSeq(t, at, IF next = 0 THEN Len(t) ELSE next - 1)

\* extract_displaced_keys of what comes before the first BEGIN, if there is one.
Extracted(t) ==
    LET begin  == From(t, 1, {"BEGIN"})
        prefix == IF begin = 0 THEN t ELSE SubSeq(t, 1, begin - 1)
    IN  Section(prefix, Model) \o Section(prefix, Provider)

\* What an operation writes to config.toml, from what it read and what it finds
\* in the backup when it has been written.
Content(do, read, saved) ==
    IF do = "install" THEN Stripped(read) \o Block ELSE Stripped(read) \o Extracted(saved)

\* Mutant: only what the block displaces is backed up.
SavedDisplaced(do, read) == Extracted(read)
\* install backs up the file without its blocks, disable the file as it is.
Saved(do, read) == IF do = "install" THEN Stripped(read) ELSE read

-----------------------------------------------------------------------------
Idle == [do |-> "none", at |-> "idle", read |-> <<>>, text |-> <<>>]

\* The user's items of a file that are outside its blocks.
Outside(t) ==
    {t[i] : i \in {k \in DOMAIN t : \A b \in 1..k : t[b] \in Begins => \E e \in b..k : t[e] \in Ends}}
        \cap Theirs

Init ==
    /\ config \in FirstFiles /\ backup = <<>>
    /\ op = Idle /\ used = [op |-> 0, edit |-> 0, fault |-> 0]
    /\ owned = Outside(config) /\ last = "none" /\ damage = "none"

Use(what) == used' = [used EXCEPT ![what] = @ + 1]

\* After a fault the next operation works on what the fault left.
Begin(do, at, text) ==
    /\ op' = [do |-> do, at |-> at, read |-> config, text |-> text]
    /\ Use("op") /\ last' = "none"
    /\ damage' = IF damage = "fault" THEN "beyond" ELSE damage
    /\ UNCHANGED <<config, backup, owned>>

Install ==
    /\ op = Idle /\ used.op < MaxOps
    /\ IF config # <<>> THEN Begin("install", "backup", Saved("install", config))
                        ELSE Begin("install", "config", Block)

\* A file with legacy markers only is refused.
Disable ==
    /\ op = Idle /\ used.op < MaxOps /\ From(config, 1, {"BEGIN"}) # 0
    /\ Begin("disable", "backup", Saved("disable", config))

\* Mutant: the operation is not cleared.
EndKeeps(result) == op' = [op EXCEPT !.at = "idle"] /\ last' = result
End(result) == op' = Idle /\ last' = result

\* write_file: fopen empties the file ...
Opens ==
    /\ op.at = "backup" \/ (op.at = "config" /\ op.text # <<>>)
    /\ op' = [op EXCEPT !.at = IF @ = "backup" THEN "writing backup" ELSE "writing config"]
    /\ IF op.at = "backup" THEN backup' = <<>> /\ UNCHANGED config
                           ELSE config' = <<>> /\ UNCHANGED backup
    /\ UNCHANGED <<used, owned, last, damage>>

\* ... or fails, and the operation with it.
OpenFails ==
    /\ op.at \in {"backup", "config"} /\ used.fault < MaxFaults
    /\ End("failed") /\ Use("fault")
    /\ UNCHANGED <<config, backup, owned, damage>>

\* ... and fwrite fills it.  Its result is not looked at: on a full disk it
\* writes less, and the operation goes on.
WriteBackup(saved) ==
    /\ op.at = "writing backup" /\ backup' = saved
    /\ op' = [op EXCEPT !.at = "config", !.text = Content(op.do, op.read, saved)]
    /\ UNCHANGED <<config, owned, last>>
WriteConfig(text) ==
    /\ op.at = "writing config" /\ config' = text /\ End(op.do)
    /\ UNCHANGED <<backup, owned>>

Fault ==
    /\ used.fault < MaxFaults /\ Use("fault")
    /\ damage' = IF damage = "none" THEN "fault" ELSE "beyond"

Writes ==
    /\ WriteBackup(op.text) \/ WriteConfig(op.text)
    /\ UNCHANGED <<used, damage>>
WritesLess ==
    /\ \E part \in Prefixes(op.text) \ {op.text} : WriteBackup(part) \/ WriteConfig(part)
    /\ Fault

\* disable removes a file that would be empty.
Unlink ==
    /\ op.at = "config" /\ op.text = <<>>
    /\ config' = <<>> /\ End("disable")
    /\ UNCHANGED <<backup, used, owned, damage>>

\* The process ends in the middle: a file it has open holds what was flushed.
Crash ==
    /\ op # Idle /\ Fault /\ End("crashed") /\ UNCHANGED owned
    /\ CASE op.at = "writing backup" -> backup' \in Prefixes(op.text) /\ UNCHANGED config
         [] op.at = "writing config" -> config' \in Prefixes(op.text) /\ UNCHANGED backup
         [] OTHER -> UNCHANGED <<config, backup>>

\* The user adds one of their items.  What is added inside a block is lost, as
\* the block says, and so is what is added while an operation is under way.
Add(x, i) ==
    /\ used.edit < MaxEdits /\ Use("edit") /\ x \notin ToSet(config)
    /\ config' = InsertAt(config, i, x)
    /\ owned' = IF op = Idle THEN owned \cup (Outside(config') \cap {x}) ELSE owned
    /\ last' = "none" /\ UNCHANGED <<backup, op, damage>>

\* The user deletes an item; without its marker a block is no block.
Delete(i) ==
    /\ used.edit < MaxEdits /\ Use("edit")
    /\ config' = RemoveAt(config, i)
    /\ owned' = owned \ ({config[i]} \ Outside(config'))
    /\ damage' = IF config[i] \in Markers THEN "beyond" ELSE damage
    /\ last' = "none" /\ UNCHANGED <<backup, op>>

User == (\E x \in Theirs : \E i \in 1..Len(config) + 1 : Add(x, i)) \/ (\E i \in 1..Len(config) : Delete(i))

Next ==
    Install \/ Disable \/ Opens \/ OpenFails \/ Writes \/ WritesLess \/ Unlink \/ Crash \/ User

Spec == Init /\ [][Next]_vars

-----------------------------------------------------------------------------
\* Files hold items; an operation under way has read a file and knows its next
\* text; what the user owns are their own items.
TypeOK ==
    /\ config \in Seq(Items) /\ backup \in Seq(Items) /\ owned \subseteq Theirs
    /\ op.do \in {"none", "install", "disable"} /\ op.read \in Seq(Items) /\ op.text \in Seq(Items)
    /\ op.at \in {"idle", "backup", "writing backup", "config", "writing config"}
    /\ (op.do = "none") <=> (op.at = "idle")
    /\ last \in {"none", "install", "disable", "failed", "crashed"}
    /\ damage \in {"none", "fault", "beyond"}

\* However often the user installs, edits and disables, install leaves exactly
\* one block, the status then says so, and disable leaves none
\* (config_manager.c:1431: "exactly one managed block with no duplicates").
OneBlock ==
    damage = "none" =>
        /\ last = "install" => /\ Installed(config)
                               /\ Cardinality({i \in DOMAIN config : config[i] \in Begins}) = 1
        /\ last = "disable" => ~Installed(config)

\* Nothing of the user's is lost by an operation that runs to its end, or that
\* gives up because a file cannot be opened (config_manager.c:1189: "User
\* content (including any non-marked settings) is preserved").
UserKept ==
    damage = "none" /\ op.at # "writing config" => owned \subseteq ToSet(config)

\* A crash, or a disk that is full, at any one point of an operation leaves all
\* that is the user's in config.toml or else in the backup beside it.
Recoverable ==
    damage = "none" \/ (damage = "fault" /\ op = Idle) => owned \subseteq ToSet(config) \cup ToSet(backup)

=============================================================================
