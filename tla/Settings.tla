------------------------------- MODULE Settings -------------------------------
(***************************************************************************)
(* `wslkit disk rename`, `disk flags` and `disk default-user` (internal/   *)
(* disk/rename.go, flags.go, cli/disk_rename_windows.go, disk_flags_       *)
(* windows.go, disk_journal_windows.go): each changes one value of a       *)
(* registration, and puts the value it had in the undo journal first.      *)
(* Shells give them at the same time, `doctor undo` puts values back, and  *)
(* the user installs and unregisters distributions.                        *)
(***************************************************************************)
EXTENDS Integers, FiniteSets

CONSTANTS
    Reg, Called,    \* registrations, and the names they may have
    Bit,            \* the bits of Flags: the three switches, and the others
    Prompt,         \* shells
    LastSecond,     \* bound: seconds that pass
    MaxChanges      \* bound: commands that are given, of wsl.exe too

Switch == {"interop", "path", "mount"} \cap Bit
Field  == {"name", "flags", "uid"}

ASSUME SettingsAssumption == Called # {} /\ LastSecond \in Nat /\ MaxChanges \in Nat

VARIABLES
    second,
    keys,           \* the registrations there are
    values,         \* their values
    entries,        \* the undo journal, by id
    change,         \* the command of each shell
    begun,          \* how many were given
    made,           \* history: what was written over what, and what was asked
    twice,          \* history: ids that were given out twice
    soiled          \* history: a name was written that was not looked up in
                    \* the registry as it then was

settingsVars ==
    <<second, keys, values, entries, change, begun, made, twice, soiled>>

AtPrompt == [state |-> "free"]

SettingsInit ==
    /\ second = 0 /\ begun = 0 /\ made = {} /\ twice = {} /\ soiled = FALSE
    /\ keys = {}
    /\ values = [g \in Reg |-> [name |-> CHOOSE n \in Called : TRUE, flags |-> Bit, uid |-> 0]]
    /\ entries = [id \in {} |-> AtPrompt]
    /\ change = [p \in Prompt |-> AtPrompt]

\* What is under way was looked up before this.
Outdated == [p \in Prompt |->
    IF change[p] = AtPrompt THEN AtPrompt ELSE [change[p] EXCEPT !.stale = TRUE]]
SameTime == UNCHANGED <<second, begun>>

-----------------------------------------------------------------------------
(* The user. *)

SecondPasses ==
    /\ second < LastSecond /\ second' = second + 1
    /\ UNCHANGED <<keys, values, entries, change, begun, made, twice, soiled>>

\* wsl.exe refuses a name that is taken.
Installs(g, n) ==
    /\ g \notin keys /\ \A h \in keys : values[h].name # n
    /\ keys' = keys \cup {g}
    /\ values' = [values EXCEPT ![g] = [name |-> n, flags |-> Bit, uid |-> 0]]
    /\ change' = Outdated
    /\ begun < MaxChanges /\ begun' = begun + 1
    /\ UNCHANGED <<second, entries, made, twice, soiled>>

Unregisters(g) ==
    /\ g \in keys /\ keys' = keys \ {g}
    /\ change' = Outdated
    /\ begun < MaxChanges /\ begun' = begun + 1
    /\ UNCHANGED <<second, values, entries, made, twice, soiled>>

-----------------------------------------------------------------------------
(* A command. *)

\* Mutant: only the switches are carried over.
ApplyFlagsKnown(old, on, off) == ((old \cap Switch) \cup on) \ off

\* Every bit that was not asked about stays.
ApplyFlags(old, on, off) == (old \cup on) \ off

\* Mutant: any name that is not the same will do.
PlanRenameAnyhow(g, n) == n # values[g].name

PlanRename(g, n) ==
    /\ n # values[g].name
    /\ \A h \in keys \ {g} : values[h].name # n

\* What each command is asked, and what it would write.
PlanFlags(g, on, off) == ApplyFlags(values[g].flags, on, off) # values[g].flags
FlagOrders(g) ==
    {[field |-> "flags", next |-> ApplyFlags(values[g].flags, w[1], w[2]),
      asked |-> w[1] \cup w[2]] :
         w \in {v \in {<<{s}, {}>> : s \in Switch} \cup {<<{}, {s}>> : s \in Switch} :
                   PlanFlags(g, v[1], v[2])}}
\* The distribution must be known to be stopped, which it may be.
NameOrders(g) ==
    {[field |-> "name", next |-> n, asked |-> {}] : n \in {m \in Called : PlanRename(g, m)}}

\* An account is looked up in a distribution that runs, a number is taken as
\* it is.
UidOrders(g) == {[field |-> "uid", next |-> 1 - values[g].uid, asked |-> {}]}
Wishes(g)    == FlagOrders(g) \cup NameOrders(g) \cup UidOrders(g)

\* The registry is read and the change planned.
Looks(p, g) ==
    /\ change[p] = AtPrompt /\ begun < MaxChanges /\ begun' = begun + 1
    /\ g \in keys
    /\ \E wish \in Wishes(g) :
        change' = [change EXCEPT ![p] =
            [state |-> IF wish.field = "name" THEN "read" ELSE "planned",
             guid |-> g, field |-> wish.field, old |-> values[g][wish.field],
             next |-> wish.next, asked |-> wish.asked,
             id |-> <<second, wish.field>>, stale |-> FALSE]]
    /\ UNCHANGED <<second, keys, values, entries, made, twice, soiled>>

\* Flags and DefaultUid are read once more for the journal.
ReadsOld(p) ==
    LET c == change[p] IN
    /\ c.state = "planned"
    /\ change' = [change EXCEPT ![p].state = "read", ![p].old = values[c.guid][c.field]]
    /\ SameTime /\ UNCHANGED <<keys, values, entries, made, twice, soiled>>

\* A value that is not there counts as the one it is read as, Flags and DefaultUid
\* as none: undo deletes it, and it is read as that again.
UndoEntry(c) == [guid |-> c.guid, field |-> c.field, old |-> c.old]

\* Mutant: the command goes on without an entry.
JournalsOrNot(p) ==
    LET c  == change[p]
        id == <<second, c.field>>
    IN  /\ c.state = "read"
        /\ \/ /\ entries' = [i \in DOMAIN entries \cup {id} |->
                                IF i = id THEN UndoEntry(c) ELSE entries[i]]
              /\ twice' = twice \cup ({id} \cap DOMAIN entries)
           \/ UNCHANGED <<entries, twice>>
        /\ change' = [change EXCEPT ![p].state = "journalled", ![p].id = id]
        /\ SameTime /\ UNCHANGED <<keys, values, made, soiled>>

\* journalRegistry: without an entry nothing is written.
Journals(p) ==
    LET c  == change[p]
        id == <<second, c.field>>
    IN  /\ c.state = "read"
        /\ \/ /\ entries' = [i \in DOMAIN entries \cup {id} |->
                                IF i = id THEN UndoEntry(c) ELSE entries[i]]
              /\ twice' = twice \cup ({id} \cap DOMAIN entries)
              /\ change' = [change EXCEPT ![p].state = "journalled", ![p].id = id]
           \/ change' = [change EXCEPT ![p] = AtPrompt] /\ UNCHANGED <<entries, twice>>
        /\ SameTime /\ UNCHANGED <<keys, values, made, soiled>>

\* A value is written, where the key still is.
WritesValue(p, v, then, note) ==
    LET c == change[p] IN
    /\ c.guid \in keys
    /\ values' = [values EXCEPT ![c.guid][c.field] = v]
    /\ change' = [Outdated EXCEPT ![p] = then]
    /\ made' = made \cup note
    /\ soiled' = (soiled \/ (c.field = "name" /\ c.stale))
    /\ SameTime /\ UNCHANGED <<keys, entries, twice>>

Abandons(p) ==
    /\ change' = [change EXCEPT ![p] = AtPrompt]
    /\ SameTime /\ UNCHANGED <<keys, values, entries, made, twice, soiled>>

WritesNew(p) ==
    LET c == change[p] IN
    /\ c.state = "journalled"
    /\ \/ WritesValue(p, c.next, IF c.field = "name" THEN [c EXCEPT !.state = "starts"] ELSE AtPrompt,
                 {[id |-> c.id, entry |-> [UndoEntry(c) EXCEPT !.old = values[c.guid][c.field]],
                   after |-> c.next, asked |-> c.asked, stale |-> c.stale]})
       \/ Abandons(p)

\* A rename is proved by a start under the new name, of whichever distribution
\* has it.
ProvesName(p) ==
    LET c == change[p] IN
    /\ c.state = "starts"
    /\ \E proved \in BOOLEAN :
        /\ proved => \E g \in keys : values[g].name = c.next
        /\ change' = [change EXCEPT ![p] =
                        IF proved THEN AtPrompt ELSE [c EXCEPT !.state = "back"]]
    /\ SameTime /\ UNCHANGED <<keys, values, entries, made, twice, soiled>>

PutsBack(p) ==
    LET c == change[p] IN
    c.state = "back" /\ (WritesValue(p, c.old, AtPrompt, {}) \/ Abandons(p))

\* doctor undo: an entry is loaded, and after the prompt reg.exe adds the value,
\* and the key with it where it is gone.
Loads(p, id) ==
    /\ change[p] = AtPrompt /\ begun < MaxChanges /\ begun' = begun + 1
    /\ id \in DOMAIN entries
    /\ LET e == entries[id] IN
       change' = [change EXCEPT ![p] =
           [state |-> "undoes", guid |-> e.guid, field |-> e.field, old |-> e.old, stale |-> FALSE]]
    /\ UNCHANGED <<second, keys, values, entries, made, twice, soiled>>

UndoesIt(p) ==
    LET c == change[p] IN
    /\ c.state = "undoes"
    /\ \/ /\ values' = [values EXCEPT ![c.guid][c.field] = c.old]
          /\ keys' = keys \cup {c.guid}
          /\ change' = [Outdated EXCEPT ![p] = AtPrompt]
          /\ soiled' = TRUE
          /\ SameTime /\ UNCHANGED <<entries, made, twice>>
       \/ Abandons(p)

\* The shell is closed.
Quits(p) == change[p] # AtPrompt /\ Abandons(p)

SettingsNext ==
    \/ SecondPasses
    \/ \E g \in Reg : Unregisters(g) \/ \E n \in Called : Installs(g, n)
    \/ \E p \in Prompt :
        \/ \E g \in Reg : Looks(p, g)
        \/ ReadsOld(p) \/ Journals(p) \/ WritesNew(p) \/ ProvesName(p) \/ PutsBack(p)
        \/ Quits(p) \/ UndoesIt(p) \/ \E id \in DOMAIN entries : Loads(p, id)

-----------------------------------------------------------------------------
(* Properties. *)

SettingsTypeOK ==
    /\ second \in 0..LastSecond /\ keys \subseteq Reg
    /\ \A g \in Reg : /\ values[g].name \in Called /\ values[g].flags \subseteq Bit
                       /\ values[g].uid \in 0..1
    /\ DOMAIN entries \subseteq (0..LastSecond) \X Field

\* Two distributions have one name only after an undo, or when a command wrote
\* a name it had looked up in a registry that was another by then.
NamesApart ==
    ~soiled => \A g, h \in keys : values[g].name = values[h].name => g = h

\* Undo puts back what a command has written over, and a command changes the
\* switches it was asked about and no other bit; but when somebody else wrote
\* in the meantime, and for two commands of one second, which have one id.
UndoIsRight ==
    \A m \in made : ~m.stale =>
        /\ m.entry.field = "flags" => m.after \ m.asked = m.entry.old \ m.asked
        /\ m.id \notin twice => m.id \in DOMAIN entries /\ entries[m.id] = m.entry

RegistryIsKept == NamesApart /\ UndoIsRight
=============================================================================
