---------------------------- MODULE ChangesProofs ----------------------------
(***************************************************************************)
(* Theorems about the parts of Changes, each for any terminals, disks,     *)
(* registrations, limits and bounds, whatever the others do.               *)
(***************************************************************************)
EXTENDS Changes, SequenceTheorems, TLAPS

-----------------------------------------------------------------------------
(* The types of the registry, the journal and the commands.                *)

Value   == [name : Called, flags : SUBSET Bit, uid : 0..1]
Datum   == Called \cup (SUBSET Bit) \cup (0..1)
UndoId  == (0..LastSecond) \X Field
Entry   == [guid : Reg, field : Field, old : Datum]
Order   == [state : {"planned", "read", "journalled", "starts", "back"},
            guid : Reg, field : Field, old : Datum, next : Datum, asked : SUBSET Bit,
            id : UndoId, stale : BOOLEAN]
Undoing == [state : {"undoes"}, guid : Reg, field : Field, old : Datum, stale : BOOLEAN]

\* The value v is one of the field f.
Fits(f, v) ==
    /\ f = "name" => v \in Called
    /\ f = "flags" => v \in SUBSET Bit
    /\ f = "uid" => v \in 0..1

SettingsTyped ==
    /\ second \in 0..LastSecond /\ keys \subseteq Reg /\ values \in [Reg -> Value]
    /\ change \in [Prompt -> Order \cup Undoing \cup {AtPrompt}]
    /\ DOMAIN entries \subseteq UndoId
    /\ \A id \in DOMAIN entries : entries[id] \in Entry /\ Fits(entries[id].field, entries[id].old)
    /\ soiled \in BOOLEAN

-----------------------------------------------------------------------------
(* What a command knows of the registry while nobody else writes to it.    *)

\* What a command keeps of a field, or is to write to it, is a value of it.
CommandFits(c) ==
    /\ c \in Order => Fits(c.field, c.next)
    /\ c \in Order \cup Undoing => Fits(c.field, c.old)

\* Nobody else has the name that a rename is about to write, and nobody has
\* taken the one it would put back.
NameIsFree(c) ==
    c \in Order /\ c.field = "name" /\ ~c.stale =>
        /\ c.state # "planned"
        /\ c.state \in {"read", "journalled"} =>
               \A h \in keys \ {c.guid} : values[h].name # c.next
        /\ c.state \in {"starts", "back"} /\ ~soiled =>
               \A h \in keys \ {c.guid} : values[h].name # c.old

\* What was read of the field that is to be written is what is there, and what
\* is to be written differs from it in what was asked.
OldIsThere(c) ==
    c \in Order /\ ~c.stale =>
        /\ c.state \in {"read", "journalled"} => c.old = values[c.guid][c.field]
        /\ c.state \in {"planned", "read", "journalled"} /\ c.field = "flags" =>
               c.next \ c.asked = values[c.guid].flags \ c.asked

\* The journal has the entry of a command that goes on, unless its id was given
\* out twice.
EntryIsThere(c) ==
    c \in Order /\ c.state = "journalled" /\ c.id \notin twice =>
        c.id \in DOMAIN entries /\ entries[c.id] = UndoEntry(c)

CommandsAreOK ==
    \A p \in Prompt : /\ CommandFits(change[p]) /\ NameIsFree(change[p])
                       /\ OldIsThere(change[p]) /\ EntryIsThere(change[p])

\* The inductive invariant of the registrations.
SettingsInv == SettingsTyped /\ CommandsAreOK /\ RegistryIsKept

\* A command is of one kind, which its state tells.
LEMMA Kinds ==
    /\ \A c \in Order : c.state \in {"planned", "read", "journalled", "starts", "back"}
                        /\ c \notin Undoing /\ c # AtPrompt
    /\ \A c \in Undoing : c.state = "undoes" /\ c # AtPrompt
    /\ AtPrompt.state = "free"
BY DEF Order, Undoing, AtPrompt

\* What is outdated is stale, and otherwise as it was.
LEMMA OutdatedFacts ==
    ASSUME SettingsTyped
    PROVE  /\ Outdated \in [Prompt -> Order \cup Undoing \cup {AtPrompt}]
           /\ \A q \in Prompt :
                 /\ Outdated[q] \in Order => /\ change[q] \in Order /\ Outdated[q].stale
                                             /\ Outdated[q].state = change[q].state
                                             /\ Outdated[q].guid = change[q].guid
                                             /\ Outdated[q].field = change[q].field
                                             /\ Outdated[q].next = change[q].next
                                             /\ Outdated[q].old = change[q].old
                                             /\ Outdated[q].id = change[q].id
                 /\ Outdated[q] \in Undoing => /\ change[q] \in Undoing
                                               /\ Outdated[q].field = change[q].field
                                               /\ Outdated[q].old = change[q].old
<1>1. ASSUME NEW q \in Prompt, change[q] \in Order
      PROVE  LET c == [change[q] EXCEPT !.stale = TRUE]
             IN  /\ c \in Order /\ c \notin Undoing /\ c.stale /\ c.state = change[q].state
                 /\ c.guid = change[q].guid /\ c.field = change[q].field
                 /\ c.next = change[q].next /\ c.old = change[q].old /\ c.id = change[q].id
    BY <1>1 DEF Order, Undoing
<1>2. ASSUME NEW q \in Prompt, change[q] \in Undoing
      PROVE  LET c == [change[q] EXCEPT !.stale = TRUE]
             IN  /\ c \in Undoing /\ c \notin Order
                 /\ c.field = change[q].field /\ c.old = change[q].old
    BY <1>2 DEF Order, Undoing
<1>3. \A q \in Prompt : change[q] \in Order \cup Undoing \cup {AtPrompt}
    BY DEF SettingsTyped
<1> QED
    BY <1>1, <1>2, <1>3, Kinds DEF Outdated

\* When the registry was changed, what every command knows is outdated.
LEMMA OthersOutdated ==
    ASSUME SettingsInv, NEW q \in Prompt, change'[q] = Outdated[q], twice' = twice,
           entries' = entries
    PROVE  /\ CommandFits(change[q])' /\ NameIsFree(change[q])'
           /\ OldIsThere(change[q])' /\ EntryIsThere(change[q])'
<1>1. CommandFits(change[q])'
    BY OutdatedFacts DEF SettingsInv, CommandsAreOK, CommandFits
<1>2. NameIsFree(change[q])' /\ OldIsThere(change[q])'
    BY OutdatedFacts DEF SettingsInv, NameIsFree, OldIsThere
<1>3. EntryIsThere(change[q])'
    BY OutdatedFacts DEF SettingsInv, CommandsAreOK, EntryIsThere, UndoEntry
<1> QED
    BY <1>1, <1>2, <1>3

LEMMA SettingsInitInv == SettingsInit => SettingsInv
<1> SUFFICES ASSUME SettingsInit
             PROVE  SettingsInv
    OBVIOUS
<1>1. values \in [Reg -> Value]
    BY SettingsAssumption DEF SettingsInit, Value
<1>2. SettingsTyped
    <2>1. second \in 0..LastSecond
        BY SettingsAssumption DEF SettingsInit
    <2>2. DOMAIN entries = {}
        BY DEF SettingsInit
    <2>3. change \in [Prompt -> Order \cup Undoing \cup {AtPrompt}]
        BY DEF SettingsInit
    <2> QED
        BY <1>1, <2>1, <2>2, <2>3 DEF SettingsInit, SettingsTyped
<1>3. \A p \in Prompt : change[p] = AtPrompt
    BY DEF SettingsInit
<1>4. CommandsAreOK
    BY <1>3, Kinds DEF CommandsAreOK, CommandFits, NameIsFree, OldIsThere, EntryIsThere
<1>5. RegistryIsKept
    BY DEF SettingsInit, RegistryIsKept, NamesApart, UndoIsRight
<1> QED
    BY <1>2, <1>4, <1>5 DEF SettingsInv

\* Where only commands change, the registry is kept, and the others are as they were.
LEMMA OthersStay ==
    ASSUME SettingsInv, NEW q \in Prompt, change'[q] = change[q],
           UNCHANGED <<keys, values, entries, twice, soiled>>
    PROVE  /\ CommandFits(change[q])' /\ NameIsFree(change[q])'
           /\ OldIsThere(change[q])' /\ EntryIsThere(change[q])'
BY DEF SettingsInv, CommandsAreOK, CommandFits, NameIsFree, OldIsThere, EntryIsThere, UndoEntry

\* A command that has ended has nothing to keep.
LEMMA RestIsOK ==
    ASSUME NEW q \in Prompt, change'[q] = AtPrompt
    PROVE  /\ CommandFits(change[q])' /\ NameIsFree(change[q])'
           /\ OldIsThere(change[q])' /\ EntryIsThere(change[q])'
BY Kinds DEF CommandFits, NameIsFree, OldIsThere, EntryIsThere

\* The registry is kept where neither it nor the journal changes.
LEMMA RegistryStays ==
    ASSUME RegistryIsKept, UNCHANGED <<keys, values, entries, made, twice, soiled>>
    PROVE  RegistryIsKept'
BY DEF RegistryIsKept, NamesApart, UndoIsRight

LEMMA AbandonsKeeps ==
    ASSUME SettingsInv, NEW p \in Prompt, Abandons(p)
    PROVE  SettingsInv'
<1>1. change' = [change EXCEPT ![p] = AtPrompt]
    BY DEF Abandons
<1>2. UNCHANGED <<second, keys, values, entries, made, twice, soiled>>
    BY DEF Abandons, SameTime
<1>3. SettingsTyped'
    BY <1>1, <1>2 DEF SettingsInv, SettingsTyped
<1>4. CommandsAreOK'
    <2>1. change'[p] = AtPrompt
        BY <1>1 DEF SettingsInv, SettingsTyped
    <2>2. \A q \in Prompt \ {p} : change'[q] = change[q]
        BY <1>1 DEF SettingsInv, SettingsTyped
    <2> QED
        BY <1>2, <2>1, <2>2, OthersStay, RestIsOK DEF CommandsAreOK
<1> QED
    BY <1>2, <1>3, <1>4, RegistryStays DEF SettingsInv

\* What fits a field is a datum.
LEMMA FitsIsDatum ==
    ASSUME NEW f \in Field, NEW v, Fits(f, v)
    PROVE  v \in Datum
<1>1. f = "name" \/ f = "flags" \/ f = "uid"
    BY DEF Field
<1>2. v \in Called \/ v \in SUBSET Bit \/ v \in 0..1
    BY <1>1 DEF Fits
<1> QED
    BY <1>2, Zenon DEF Datum

\* What a registration has in a field fits it.
LEMMA FieldValues ==
    ASSUME NEW v \in Value, NEW f \in Field
    PROVE  v[f] \in Datum /\ Fits(f, v[f])
<1>1. v.name \in Called /\ v.flags \in SUBSET Bit /\ v.uid \in 0..1
    BY DEF Value
<1>2. CASE f = "name"
    BY <1>1, <1>2, FitsIsDatum DEF Fits
<1>3. CASE f = "flags"
    BY <1>1, <1>3, FitsIsDatum DEF Fits
<1>4. CASE f = "uid"
    BY <1>1, <1>4, FitsIsDatum DEF Fits
<1> QED
    BY <1>2, <1>3, <1>4 DEF Field

\* A command that looks reads what is there, and plans what may be written.
LEMMA LooksKeeps ==
    ASSUME SettingsInv, NEW p \in Prompt, NEW g \in Reg, Looks(p, g)
    PROVE  SettingsInv'
<1> DEFINE Planned(wish) ==
        [state |-> IF wish.field = "name" THEN "read" ELSE "planned",
         guid |-> g, field |-> wish.field, old |-> values[g][wish.field],
         next |-> wish.next, asked |-> wish.asked,
         id |-> <<second, wish.field>>, stale |-> FALSE]
<1>1. PICK wish \in Wishes(g) : change' = [change EXCEPT ![p] = Planned(wish)]
    BY DEF Looks
<1>2. /\ UNCHANGED <<second, keys, values, entries, made, twice, soiled>>
      /\ g \in keys /\ SettingsTyped
    BY DEF Looks, SettingsInv
<1>3. values[g] \in Value
    BY <1>2 DEF SettingsTyped
<1>4. /\ wish.field \in Field /\ Fits(wish.field, wish.next) /\ wish.asked \in SUBSET Bit
      /\ wish.field = "name" => \A h \in keys \ {g} : values[h].name # wish.next
      /\ wish.field = "flags" => wish.next \ wish.asked = values[g].flags \ wish.asked
    <2>1. CASE wish \in FlagOrders(g)
        <3>1. PICK w \in {<<{s}, {}>> : s \in Switch} \cup {<<{}, {s}>> : s \in Switch} :
                  wish = [field |-> "flags", next |-> ApplyFlags(values[g].flags, w[1], w[2]),
                          asked |-> w[1] \cup w[2]]
            BY <2>1 DEF FlagOrders
        <3>2. w[1] \subseteq Bit /\ w[2] \subseteq Bit
            BY <3>1 DEF Switch
        <3>3. /\ wish.field = "flags" /\ wish.asked = w[1] \cup w[2]
              /\ wish.next = (values[g].flags \cup w[1]) \ w[2]
            BY <3>1 DEF ApplyFlags
        <3>4. values[g].flags \in SUBSET Bit
            BY <1>3 DEF Value
        <3>5. wish.next \in SUBSET Bit /\ wish.asked \in SUBSET Bit
            BY <3>2, <3>3, <3>4
        <3>6. wish.next \ wish.asked = values[g].flags \ wish.asked
            BY <3>3
        <3> QED
            BY <3>3, <3>5, <3>6 DEF Field, Fits
    <2>2. CASE wish \in NameOrders(g)
        BY <2>2 DEF NameOrders, PlanRename, Field, Fits
    <2>3. CASE wish \in UidOrders(g)
        <3>1. values[g].uid \in 0..1
            BY <1>3 DEF Value
        <3> QED
            BY <2>3, <3>1 DEF UidOrders, Field, Fits
    <2> QED
        BY <2>1, <2>2, <2>3 DEF Wishes
<1>5. values[g][wish.field] \in Datum /\ Fits(wish.field, values[g][wish.field])
    BY <1>3, <1>4, FieldValues
<1>6. wish.next \in Datum
    BY <1>4, FitsIsDatum
<1>7. Planned(wish) \in Order
    <2>1. <<second, wish.field>> \in UndoId
        BY <1>2, <1>4 DEF UndoId, SettingsTyped
    <2>2. wish.field \in Field /\ wish.asked \in SUBSET Bit
        BY <1>4
    <2> QED
        BY <1>5, <1>6, <2>1, <2>2 DEF Order
<1> DEFINE c == Planned(wish)
<1>8. /\ c.field = wish.field /\ c.next = wish.next /\ c.old = values[g][wish.field]
      /\ c.guid = g /\ c.asked = wish.asked /\ c.stale = FALSE
      /\ c.state = IF wish.field = "name" THEN "read" ELSE "planned"
    OBVIOUS
<1> HIDE DEF c, Planned
<1>9. SettingsTyped'
    BY <1>1, <1>2, <1>7 DEF SettingsTyped
<1>10. CommandsAreOK'
    <2>1. change'[p] = c /\ c \in Order
        BY <1>1, <1>2, <1>7 DEF SettingsTyped, c
    <2>2. \A q \in Prompt \ {p} : change'[q] = change[q]
        BY <1>1, <1>2 DEF SettingsTyped
    <2>3. CommandFits(change[p])'
        BY <1>4, <1>5, <1>8, <2>1 DEF CommandFits
    <2>4. NameIsFree(change[p])'
        BY <1>2, <1>4, <1>8, <2>1 DEF NameIsFree
    <2>5. OldIsThere(change[p])' /\ EntryIsThere(change[p])'
        BY <1>2, <1>4, <1>8, <2>1 DEF OldIsThere, EntryIsThere
    <2> QED
        BY <1>2, <2>2, <2>3, <2>4, <2>5, OthersStay DEF CommandsAreOK
<1> QED
    BY <1>2, <1>9, <1>10, RegistryStays DEF SettingsInv

\* The value is read once more; what is planned does not change with it.
LEMMA ReadsOldKeeps ==
    ASSUME SettingsInv, NEW p \in Prompt, ReadsOld(p)
    PROVE  SettingsInv'
<1> DEFINE c == change[p]
<1> DEFINE d == [c EXCEPT !.state = "read", !.old = values[c.guid][c.field]]
<1>1. /\ c.state = "planned"
      /\ change' = [change EXCEPT ![p] = d]
      /\ UNCHANGED <<second, keys, values, entries, made, twice, soiled>>
    BY DEF ReadsOld, SameTime
<1>2. SettingsTyped /\ c \in Order
    BY <1>1, Kinds DEF SettingsInv, SettingsTyped
<1>3. c.guid \in Reg /\ c.field \in Field
    BY <1>2 DEF Order
<1>4. values[c.guid][c.field] \in Datum /\ Fits(c.field, values[c.guid][c.field])
    BY <1>2, <1>3, FieldValues DEF SettingsTyped
<1>5. /\ d \in Order /\ d.state = "read" /\ d.old = values[c.guid][c.field]
      /\ d.guid = c.guid /\ d.field = c.field /\ d.next = c.next /\ d.asked = c.asked
      /\ d.stale = c.stale
    BY <1>2, <1>4 DEF Order
<1>6. /\ CommandFits(c) /\ NameIsFree(c) /\ OldIsThere(c)
    BY DEF SettingsInv, CommandsAreOK
<1>7. change'[p] = d /\ \A q \in Prompt \ {p} : change'[q] = change[q]
    BY <1>1, <1>2 DEF SettingsTyped
<1> HIDE DEF c, d
<1>8. SettingsTyped'
    BY <1>1, <1>2, <1>5 DEF SettingsTyped
<1>9. CommandFits(change[p])'
    BY <1>2, <1>4, <1>5, <1>6, <1>7 DEF CommandFits
<1>10. NameIsFree(change[p])'
    BY <1>1, <1>2, <1>5, <1>6, <1>7 DEF NameIsFree
<1>11. OldIsThere(change[p])' /\ EntryIsThere(change[p])'
    BY <1>1, <1>2, <1>5, <1>6, <1>7 DEF OldIsThere, EntryIsThere
<1>12. CommandsAreOK'
    BY <1>1, <1>7, <1>9, <1>10, <1>11, OthersStay DEF CommandsAreOK
<1> QED
    BY <1>1, <1>8, <1>12, RegistryStays DEF SettingsInv

\* A name is tried; the command goes on to put the old one back, or ends.
LEMMA ProvesNameKeeps ==
    ASSUME SettingsInv, NEW p \in Prompt, ProvesName(p)
    PROVE  SettingsInv'
<1> DEFINE c == change[p]
<1> DEFINE d == [c EXCEPT !.state = "back"]
<1>1. /\ c.state = "starts"
      /\ \/ change' = [change EXCEPT ![p] = AtPrompt]
         \/ change' = [change EXCEPT ![p] = d]
      /\ UNCHANGED <<second, begun, keys, values, entries, made, twice, soiled>>
    BY DEF ProvesName, SameTime
<1>2. CASE change' = [change EXCEPT ![p] = AtPrompt]
    <2>1. Abandons(p)
        BY <1>1, <1>2 DEF Abandons, SameTime
    <2> QED
        BY <2>1, AbandonsKeeps
<1>3. CASE change' = [change EXCEPT ![p] = d]
    <2>1. SettingsTyped /\ c \in Order
        BY <1>1, Kinds DEF SettingsInv, SettingsTyped
    <2>2. /\ d \in Order /\ d.state = "back" /\ d.old = c.old /\ d.guid = c.guid
          /\ d.field = c.field /\ d.next = c.next /\ d.stale = c.stale
        BY <2>1 DEF Order
    <2>3. CommandFits(c) /\ NameIsFree(c)
        BY DEF SettingsInv, CommandsAreOK
    <2>4. change'[p] = d /\ \A q \in Prompt \ {p} : change'[q] = change[q]
        BY <1>3, <2>1 DEF SettingsTyped
    <2> HIDE DEF c, d
    <2>5. SettingsTyped'
        BY <1>1, <1>3, <2>1, <2>2 DEF SettingsTyped
    <2>6. CommandFits(change[p])' /\ NameIsFree(change[p])'
        BY <1>1, <2>1, <2>2, <2>3, <2>4 DEF CommandFits, NameIsFree
    <2>7. OldIsThere(change[p])' /\ EntryIsThere(change[p])'
        BY <2>2, <2>4 DEF OldIsThere, EntryIsThere
    <2>8. CommandsAreOK'
        BY <1>1, <2>4, <2>6, <2>7, OthersStay DEF CommandsAreOK
    <2> QED
        BY <1>1, <2>5, <2>8, RegistryStays DEF SettingsInv
<1> QED
    BY <1>1, <1>2, <1>3

\* The entry is written before anything else is, and an id that had one
\* already is given out twice.
LEMMA JournalsKeeps ==
    ASSUME SettingsInv, NEW p \in Prompt, Journals(p)
    PROVE  SettingsInv'
<1> DEFINE c  == change[p]
<1> DEFINE id == <<second, c.field>>
<1> DEFINE d  == [c EXCEPT !.state = "journalled", !.id = id]
<1>1. /\ c.state = "read"
      /\ UNCHANGED <<second, begun, keys, values, made, soiled>>
    BY DEF Journals, SameTime
<1>2. CASE change' = [change EXCEPT ![p] = AtPrompt] /\ UNCHANGED <<entries, twice>>
    <2>1. Abandons(p)
        BY <1>1, <1>2 DEF Abandons, SameTime
    <2> QED
        BY <2>1, AbandonsKeeps
<1>3. CASE /\ entries' = [i \in DOMAIN entries \cup {id} |->
                             IF i = id THEN UndoEntry(c) ELSE entries[i]]
           /\ twice' = twice \cup ({id} \cap DOMAIN entries)
           /\ change' = [change EXCEPT ![p].state = "journalled", ![p].id = id]
    <2>1. SettingsTyped /\ c \in Order
        BY <1>1, Kinds DEF SettingsInv, SettingsTyped
    <2>2. id \in UndoId
        BY <2>1 DEF UndoId, SettingsTyped, Order
    <2>3. /\ d \in Order /\ d.state = "journalled" /\ d.id = id /\ d.old = c.old
          /\ d.guid = c.guid /\ d.field = c.field /\ d.next = c.next /\ d.asked = c.asked
          /\ d.stale = c.stale
        BY <2>1, <2>2 DEF Order
    <2>4. change'[p] = d /\ \A q \in Prompt \ {p} : change'[q] = change[q]
        BY <1>3, <2>1 DEF SettingsTyped
    <2>5. CommandFits(c) /\ NameIsFree(c) /\ OldIsThere(c)
        BY DEF SettingsInv, CommandsAreOK
    <2>6. UndoEntry(c) \in Entry /\ UndoEntry(c) = UndoEntry(d)
        BY <2>1, <2>3 DEF Order, Entry, UndoEntry
    <2>7. UndoEntry(c).field = c.field /\ UndoEntry(c).old = c.old
        BY DEF UndoEntry
    <2>8. change' \in [Prompt -> Order \cup Undoing \cup {AtPrompt}]
        BY <1>3, <2>1, <2>3, <2>4 DEF SettingsTyped
    <2>9. /\ DOMAIN entries' = DOMAIN entries \cup {id} /\ entries'[id] = UndoEntry(c)
          /\ \A i \in DOMAIN entries \ {id} : entries'[i] = entries[i]
          /\ \A i : i \notin twice' => i \notin twice /\ (i \in DOMAIN entries => i # id)
        BY <1>3
    <2> HIDE DEF c, d, id
    <2>10. SettingsTyped'
        BY <1>1, <2>1, <2>2, <2>5, <2>6, <2>7, <2>8, <2>9 DEF SettingsTyped, CommandFits
    <2>11. /\ CommandFits(change[p])' /\ NameIsFree(change[p])'
           /\ OldIsThere(change[p])' /\ EntryIsThere(change[p])'
        <3>1. CommandFits(change[p])' /\ NameIsFree(change[p])'
            BY <1>1, <2>1, <2>3, <2>4, <2>5 DEF CommandFits, NameIsFree, c
        <3>2. OldIsThere(change[p])'
            BY <1>1, <2>1, <2>3, <2>4, <2>5 DEF OldIsThere, c
        <3>3. EntryIsThere(change[p])'
            BY <2>3, <2>4, <2>6, <2>9 DEF EntryIsThere
        <3> QED
            BY <3>1, <3>2, <3>3
    <2>12. ASSUME NEW q \in Prompt \ {p}
           PROVE  /\ CommandFits(change[q])' /\ NameIsFree(change[q])'
                  /\ OldIsThere(change[q])' /\ EntryIsThere(change[q])'
        <3>1. /\ CommandFits(change[q]) /\ NameIsFree(change[q])
              /\ OldIsThere(change[q]) /\ EntryIsThere(change[q])
            BY DEF SettingsInv, CommandsAreOK
        <3>2. CommandFits(change[q])' /\ NameIsFree(change[q])' /\ OldIsThere(change[q])'
            BY <1>1, <2>4, <3>1 DEF CommandFits, NameIsFree, OldIsThere
        <3>3. EntryIsThere(change[q])'
            BY <2>4, <2>9, <3>1 DEF EntryIsThere, UndoEntry
        <3> QED
            BY <3>2, <3>3
    <2>13. RegistryIsKept'
        BY <1>1, <2>9 DEF SettingsInv, RegistryIsKept, NamesApart, UndoIsRight
    <2> QED
        BY <2>10, <2>11, <2>12, <2>13 DEF SettingsInv, CommandsAreOK
<1> QED
    BY <1>2, <1>3 DEF Journals

\* What a write of a value does, and that no name is given twice by it where
\* nobody else has the name.
LEMMA ValueIsWritten ==
    ASSUME SettingsInv, NEW p \in Prompt, change[p] \in Order, NEW v, Fits(change[p].field, v),
           NEW then \in Order \cup {AtPrompt}, NEW note, WritesValue(p, v, then, note),
           change[p].field = "name" /\ ~change[p].stale /\ ~soiled =>
               \A h \in keys \ {change[p].guid} : values[h].name # v
    PROVE  /\ change[p].guid \in keys /\ SettingsTyped' /\ NamesApart'
           /\ change'[p] = then /\ \A q \in Prompt \ {p} : change'[q] = Outdated[q]
           /\ values'[change[p].guid][change[p].field] = v
           /\ \A h \in Reg \ {change[p].guid} : values'[h] = values[h]
           /\ soiled \/ (change[p].field = "name" /\ change[p].stale) => soiled'
           /\ made' = made \cup note
           /\ UNCHANGED <<second, keys, entries, twice>>
<1> DEFINE c == change[p]
<1>1. /\ c.guid \in keys
      /\ values' = [values EXCEPT ![c.guid][c.field] = v]
      /\ change' = [Outdated EXCEPT ![p] = then]
      /\ made' = made \cup note
      /\ soiled' = (soiled \/ (c.field = "name" /\ c.stale))
      /\ UNCHANGED <<second, keys, entries, twice>>
    BY DEF WritesValue, SameTime
<1>2. SettingsTyped /\ c.guid \in Reg /\ c.field \in Field
    BY DEF SettingsInv, Order
<1>3. values[c.guid] \in Value
    BY <1>2 DEF SettingsTyped
<1> DEFINE w == [values[c.guid] EXCEPT ![c.field] = v]
<1>4. /\ w \in Value /\ w[c.field] = v
      /\ c.field # "name" => w.name = values[c.guid].name
      /\ c.field = "name" => w.name = v
    <2>1. CASE c.field = "name"
        BY <1>3, <2>1 DEF Value, Fits
    <2>2. CASE c.field = "flags"
        BY <1>3, <2>2 DEF Value, Fits
    <2>3. CASE c.field = "uid"
        BY <1>3, <2>3 DEF Value, Fits
    <2> QED
        BY <1>2, <2>1, <2>2, <2>3 DEF Field
<1>5. values' = [values EXCEPT ![c.guid] = w]
    BY <1>1
<1> HIDE DEF c, w
<1>6. /\ values' \in [Reg -> Value] /\ values'[c.guid] = w
      /\ \A h \in Reg \ {c.guid} : values'[h] = values[h]
    BY <1>2, <1>4, <1>5 DEF SettingsTyped
<1>7. /\ change' \in [Prompt -> Order \cup Undoing \cup {AtPrompt}] /\ change'[p] = then
      /\ \A q \in Prompt \ {p} : change'[q] = Outdated[q]
    BY <1>1, <1>2, OutdatedFacts
<1>8. SettingsTyped'
    BY <1>1, <1>2, <1>6, <1>7 DEF SettingsTyped
<1>9. NamesApart'
    <2> SUFFICES ASSUME ~soiled', NEW g \in keys, NEW h \in keys,
                        values'[g].name = values'[h].name
                 PROVE  g = h
        BY <1>1 DEF NamesApart
    <2>1. ~soiled /\ NamesApart /\ ~(c.field = "name" /\ c.stale)
        BY <1>1 DEF SettingsInv, RegistryIsKept
    <2>2. keys \subseteq Reg
        BY <1>2 DEF SettingsTyped
    <2>3. CASE c.field # "name"
        BY <1>4, <1>6, <2>1, <2>2, <2>3 DEF NamesApart
    <2>4. CASE c.field = "name"
        <3>1. \A k \in keys \ {c.guid} : values[k].name # v
            BY <2>1, <2>4 DEF c
        <3> QED
            BY <1>4, <1>6, <2>1, <2>2, <2>4, <3>1 DEF NamesApart
    <2> QED
        BY <2>3, <2>4
<1> QED
    BY <1>1, <1>4, <1>6, <1>7, <1>8, <1>9 DEF c

\* A rename that is proved wrong puts the old name back, which nobody has taken
\* meanwhile unless the command is stale.
LEMMA PutsBackKeeps ==
    ASSUME SettingsInv, NEW p \in Prompt, PutsBack(p)
    PROVE  SettingsInv'
<1>1. CASE Abandons(p)
    BY <1>1, AbandonsKeeps
<1>2. CASE WritesValue(p, change[p].old, AtPrompt, {})
    <2>1. change[p].state = "back"
        BY DEF PutsBack
    <2>2. change[p] \in Order
        BY <2>1, Kinds DEF SettingsInv, SettingsTyped
    <2>3. CommandFits(change[p]) /\ NameIsFree(change[p])
        BY DEF SettingsInv, CommandsAreOK
    <2>4. Fits(change[p].field, change[p].old)
        BY <2>2, <2>3 DEF CommandFits
    <2>5. change[p].field = "name" /\ ~change[p].stale /\ ~soiled =>
              \A h \in keys \ {change[p].guid} : values[h].name # change[p].old
        BY <2>1, <2>2, <2>3 DEF NameIsFree
    <2>0. AtPrompt \in Order \cup {AtPrompt}
        OBVIOUS
    <2>6. /\ SettingsTyped' /\ NamesApart' /\ change'[p] = AtPrompt
          /\ \A q \in Prompt \ {p} : change'[q] = Outdated[q]
          /\ made' = made \cup {} /\ UNCHANGED <<entries, twice>>
        BY <1>2, <2>2, <2>0, <2>4, <2>5, ValueIsWritten
    <2>7. CommandsAreOK'
        BY <2>6, OthersOutdated, RestIsOK DEF CommandsAreOK
    <2>8. UndoIsRight'
        BY <2>6 DEF SettingsInv, RegistryIsKept, UndoIsRight
    <2> QED
        BY <2>6, <2>7, <2>8 DEF SettingsInv, RegistryIsKept
<1> QED
    BY <1>1, <1>2 DEF PutsBack

\* The new value is written; the journal has what it is written over.
LEMMA WritesNewKeeps ==
    ASSUME SettingsInv, NEW p \in Prompt, WritesNew(p)
    PROVE  SettingsInv'
<1> DEFINE c == change[p]
<1> DEFINE d == [c EXCEPT !.state = "starts"]
<1> DEFINE then == IF c.field = "name" THEN d ELSE AtPrompt
<1> DEFINE m == [id |-> c.id, entry |-> [UndoEntry(c) EXCEPT !.old = values[c.guid][c.field]],
                 after |-> c.next, asked |-> c.asked, stale |-> c.stale]
<1>1. CASE Abandons(p)
    BY <1>1, AbandonsKeeps
<1>2. CASE WritesValue(p, c.next, then, {m})
    <2>1. c.state = "journalled"
        BY DEF WritesNew
    <2>2. c \in Order /\ c.guid \in Reg /\ c.field \in Field
        BY <2>1, Kinds DEF SettingsInv, SettingsTyped, Order
    <2>3. CommandFits(c) /\ NameIsFree(c) /\ OldIsThere(c) /\ EntryIsThere(c)
        BY DEF SettingsInv, CommandsAreOK
    <2>4. Fits(c.field, c.next) /\ Fits(c.field, c.old)
        BY <2>2, <2>3 DEF CommandFits
    <2>5. /\ d \in Order /\ d.state = "starts" /\ d.guid = c.guid /\ d.field = c.field
          /\ d.next = c.next /\ d.old = c.old /\ d.stale = c.stale
        BY <2>2 DEF Order
    <2>6. then \in Order \cup {AtPrompt}
        BY <2>5
    <2>7. c.field = "name" /\ ~c.stale => \A h \in keys \ {c.guid} : values[h].name # c.next
        BY <2>1, <2>2, <2>3 DEF NameIsFree
    <2>8. /\ c.guid \in keys /\ SettingsTyped' /\ NamesApart' /\ change'[p] = then
          /\ \A q \in Prompt \ {p} : change'[q] = Outdated[q]
          /\ values'[c.guid][c.field] = c.next
          /\ \A h \in Reg \ {c.guid} : values'[h] = values[h]
          /\ soiled \/ (c.field = "name" /\ c.stale) => soiled'
          /\ made' = made \cup {m} /\ UNCHANGED <<keys, entries, twice>>
        <3> DEFINE v    == c.next
                   note == {m}
        <3>1. WritesValue(p, v, then, note) /\ Fits(c.field, v)
            BY <1>2, <2>4
        <3>2. c.field = "name" /\ ~c.stale /\ ~soiled => \A h \in keys \ {c.guid} : values[h].name # v
            BY <2>7
        <3> HIDE DEF m, d, then, v, note
        <3>3. /\ c.guid \in keys /\ SettingsTyped' /\ NamesApart' /\ change'[p] = then
              /\ \A q \in Prompt \ {p} : change'[q] = Outdated[q]
              /\ values'[c.guid][c.field] = v
              /\ \A h \in Reg \ {c.guid} : values'[h] = values[h]
              /\ soiled \/ (c.field = "name" /\ c.stale) => soiled'
              /\ made' = made \cup note /\ UNCHANGED <<keys, entries, twice>>
            BY <2>2, <2>6, <3>1, <3>2, ValueIsWritten
        <3> QED
            BY <3>3 DEF v, note
    <2>9. ~c.stale => c.old = values[c.guid][c.field]
        BY <2>1, <2>2, <2>3 DEF OldIsThere
    <2>10. /\ m.id = c.id /\ m.after = c.next /\ m.asked = c.asked /\ m.stale = c.stale
           /\ m.entry.field = c.field /\ m.entry.old = values[c.guid][c.field]
           /\ ~c.stale => m.entry = UndoEntry(c)
        BY <2>9 DEF UndoEntry
    <2>11. UndoIsRight'
        <3>1. ~m.stale => /\ m.entry.field = "flags" => m.after \ m.asked = m.entry.old \ m.asked
                          /\ m.id \notin twice => m.id \in DOMAIN entries /\ entries[m.id] = m.entry
            <4>1. ~c.stale /\ c.field = "flags" =>
                      c.next \ c.asked = values[c.guid][c.field] \ c.asked
                BY <2>1, <2>2, <2>3 DEF OldIsThere
            <4>2. c.id \notin twice => c.id \in DOMAIN entries /\ entries[c.id] = UndoEntry(c)
                BY <2>1, <2>2, <2>3 DEF EntryIsThere
            <4> HIDE DEF m, c
            <4> QED
                BY <2>10, <4>1, <4>2
        <3> HIDE DEF m, c
        <3> QED
            BY <2>8, <3>1 DEF SettingsInv, RegistryIsKept, UndoIsRight
    <2>12. CASE c.field = "name"
        <3>1. change'[p] = d
            BY <2>8, <2>12
        <3>2. CommandFits(change[p])'
            BY <2>4, <2>5, <3>1, Kinds DEF CommandFits
        <3>3. OldIsThere(change[p])' /\ EntryIsThere(change[p])'
            BY <2>5, <3>1 DEF OldIsThere, EntryIsThere
        <3>4. NameIsFree(change[p])'
            <4>1. ASSUME ~c.stale, ~soiled', NEW h \in keys \ {c.guid}
                  PROVE  values'[h].name # c.old
                <5>1. ~soiled /\ NamesApart /\ keys \subseteq Reg
                    BY <2>8, <4>1 DEF SettingsInv, RegistryIsKept, SettingsTyped
                <5>2. c.old = values[c.guid].name
                    BY <2>9, <2>12, <4>1
                <5>3. values'[h] = values[h]
                    BY <2>8, <4>1, <5>1
                <5> QED
                    BY <2>8, <4>1, <5>1, <5>2, <5>3 DEF NamesApart
            <4> HIDE DEF c, d
            <4> QED
                BY <2>5, <2>8, <3>1, <4>1 DEF NameIsFree
        <3> QED
            BY <2>8, <2>11, <3>2, <3>3, <3>4, OthersOutdated
            DEF SettingsInv, CommandsAreOK, RegistryIsKept
    <2>13. CASE c.field # "name"
        <3>1. change'[p] = AtPrompt
            BY <2>8, <2>13
        <3> QED
            BY <2>8, <2>11, <3>1, OthersOutdated, RestIsOK
            DEF SettingsInv, CommandsAreOK, RegistryIsKept
    <2> QED
        BY <2>12, <2>13
<1> QED
    BY <1>1, <1>2 DEF WritesNew

\* An entry is loaded.
LEMMA LoadsKeeps ==
    ASSUME SettingsInv, NEW p \in Prompt, NEW id \in DOMAIN entries, Loads(p, id)
    PROVE  SettingsInv'
<1> DEFINE d == [state |-> "undoes", guid |-> entries[id].guid, field |-> entries[id].field,
                 old |-> entries[id].old, stale |-> FALSE]
<1>1. /\ change' = [change EXCEPT ![p] = d]
      /\ UNCHANGED <<second, keys, values, entries, made, twice, soiled>>
    BY DEF Loads
<1>2. SettingsTyped /\ entries[id] \in Entry /\ Fits(entries[id].field, entries[id].old)
    BY DEF SettingsInv, SettingsTyped
<1>3. d \in Undoing /\ d.field = entries[id].field /\ d.old = entries[id].old
    BY <1>2 DEF Undoing, Entry
<1> HIDE DEF d
<1>4. change'[p] = d /\ \A q \in Prompt \ {p} : change'[q] = change[q]
    BY <1>1, <1>2 DEF SettingsTyped
<1>5. SettingsTyped'
    BY <1>1, <1>2, <1>3 DEF SettingsTyped
<1>6. d \notin Order
    BY <1>3, Kinds
<1>7. /\ CommandFits(change[p])' /\ NameIsFree(change[p])'
      /\ OldIsThere(change[p])' /\ EntryIsThere(change[p])'
    BY <1>2, <1>3, <1>4, <1>6 DEF CommandFits, NameIsFree, OldIsThere, EntryIsThere
<1>8. CommandsAreOK'
    BY <1>1, <1>4, <1>7, OthersStay DEF CommandsAreOK
<1> QED
    BY <1>1, <1>5, <1>8, RegistryStays DEF SettingsInv

\* Undo puts a value back into whatever registry there is.
LEMMA UndoesItKeeps ==
    ASSUME SettingsInv, NEW p \in Prompt, UndoesIt(p)
    PROVE  SettingsInv'
<1> DEFINE c == change[p]
<1>1. CASE Abandons(p)
    BY <1>1, AbandonsKeeps
<1>2. CASE /\ values' = [values EXCEPT ![c.guid][c.field] = c.old]
           /\ keys' = keys \cup {c.guid}
           /\ change' = [Outdated EXCEPT ![p] = AtPrompt]
           /\ soiled' = TRUE
           /\ SameTime /\ UNCHANGED <<entries, made, twice>>
    <2>1. SettingsTyped /\ c.state = "undoes"
        BY DEF UndoesIt, SettingsInv
    <2>2. c \in Undoing
        BY <2>1, Kinds DEF SettingsTyped
    <2>3. c.guid \in Reg /\ c.field \in Field /\ Fits(c.field, c.old)
        BY <2>2 DEF SettingsInv, CommandsAreOK, CommandFits, Undoing
    <2>4. values[c.guid] \in Value
        BY <2>1, <2>3 DEF SettingsTyped
    <2> DEFINE w == [values[c.guid] EXCEPT ![c.field] = c.old]
    <2>5. w \in Value
        <3>1. CASE c.field = "name"
            BY <2>3, <2>4, <3>1 DEF Value, Fits
        <3>2. CASE c.field = "flags"
            BY <2>3, <2>4, <3>2 DEF Value, Fits
        <3>3. CASE c.field = "uid"
            BY <2>3, <2>4, <3>3 DEF Value, Fits
        <3> QED
            BY <2>3, <3>1, <3>2, <3>3 DEF Field
    <2>6. values' = [values EXCEPT ![c.guid] = w]
        BY <1>2
    <2> HIDE DEF c, w
    <2>7. /\ change' \in [Prompt -> Order \cup Undoing \cup {AtPrompt}]
          /\ change'[p] = AtPrompt /\ \A q \in Prompt \ {p} : change'[q] = Outdated[q]
        BY <1>2, <2>1, OutdatedFacts
    <2>8. SettingsTyped'
        BY <1>2, <2>1, <2>3, <2>5, <2>6, <2>7 DEF SettingsTyped, SameTime
    <2>9. CommandsAreOK'
        BY <1>2, <2>7, OthersOutdated, RestIsOK DEF CommandsAreOK
    <2>10. RegistryIsKept'
        BY <1>2 DEF SettingsInv, RegistryIsKept, NamesApart, UndoIsRight
    <2> QED
        BY <2>8, <2>9, <2>10 DEF SettingsInv
<1> QED
    BY <1>1, <1>2 DEF UndoesIt

\* wsl.exe gives no name that is taken, and outdates what is under way.
LEMMA UserKeeps ==
    ASSUME SettingsInv, NEW g \in Reg,
           Unregisters(g) \/ \E n \in Called : Installs(g, n)
    PROVE  SettingsInv'
<1>1. SettingsTyped
    BY DEF SettingsInv
<1>2. change' = Outdated /\ UNCHANGED <<second, entries, made, twice, soiled>>
    BY DEF Unregisters, Installs
<1>3. keys' \subseteq Reg /\ values' \in [Reg -> Value]
    <2>1. CASE Unregisters(g)
        BY <1>1, <2>1 DEF Unregisters, SettingsTyped
    <2>2. ASSUME NEW n \in Called, Installs(g, n)
          PROVE  keys' \subseteq Reg /\ values' \in [Reg -> Value]
        <3>1. [name |-> n, flags |-> Bit, uid |-> 0] \in Value
            BY DEF Value
        <3> QED
            BY <1>1, <2>2, <3>1 DEF Installs, SettingsTyped
    <2> QED
        BY <2>1, <2>2
<1>4. SettingsTyped'
    BY <1>1, <1>2, <1>3, OutdatedFacts DEF SettingsTyped
<1>5. CommandsAreOK'
    BY <1>2, OthersOutdated DEF CommandsAreOK
<1>6. NamesApart'
    <2>1. CASE Unregisters(g)
        BY <2>1 DEF Unregisters, SettingsInv, RegistryIsKept, NamesApart
    <2>2. ASSUME NEW n \in Called, Installs(g, n)
          PROVE  NamesApart'
        <3>1. /\ keys' = keys \cup {g} /\ values'[g].name = n
              /\ \A h \in keys : values'[h] = values[h] /\ values[h].name # n
            BY <1>1, <2>2 DEF Installs, SettingsTyped
        <3> QED
            BY <1>2, <3>1 DEF SettingsInv, RegistryIsKept, NamesApart
    <2> QED
        BY <2>1, <2>2
<1>7. UndoIsRight'
    BY <1>2 DEF SettingsInv, RegistryIsKept, UndoIsRight
<1> QED
    BY <1>4, <1>5, <1>6, <1>7 DEF SettingsInv, RegistryIsKept

\* Nothing of the registrations is about a second but the ids to come.
LEMMA SecondKeeps ==
    ASSUME SettingsInv, SecondPasses
    PROVE  SettingsInv'
<1>1. /\ second' \in 0..LastSecond
      /\ UNCHANGED <<keys, values, entries, change, begun, made, twice, soiled>>
    BY SettingsAssumption DEF SecondPasses, SettingsInv, SettingsTyped
<1>2. SettingsTyped'
    BY <1>1 DEF SettingsInv, SettingsTyped
<1> QED
    BY <1>1, <1>2, OthersStay, RegistryStays DEF SettingsInv, CommandsAreOK

\* A step of Changes keeps the invariant of the registrations, whichever part
\* moves.
LEMMA ChangesStepSettings == SettingsInv /\ [ChangesNext]_changesVars => SettingsInv'
<1> SUFFICES ASSUME SettingsInv, [ChangesNext]_changesVars
             PROVE  SettingsInv'
    OBVIOUS
<1>1. CASE SettingsNext
    <2>1. ASSUME NEW p \in Prompt, Quits(p)
          PROVE  SettingsInv'
        BY <2>1, AbandonsKeeps DEF Quits
    <2> QED
        BY <1>1, <2>1, SecondKeeps, UserKeeps, LooksKeeps, ReadsOldKeeps, JournalsKeeps,
           WritesNewKeeps, ProvesNameKeeps, PutsBackKeeps, UndoesItKeeps, LoadsKeeps
        DEF SettingsNext
<1>2. CASE UNCHANGED settingsVars
    <2>1. UNCHANGED <<second, keys, values, entries, change, begun, made, twice, soiled>>
        BY <1>2 DEF settingsVars
    <2>2. SettingsTyped'
        BY <2>1 DEF SettingsInv, SettingsTyped
    <2> QED
        BY <2>1, <2>2, OthersStay, RegistryStays DEF SettingsInv, CommandsAreOK
<1> QED
    BY <1>1, <1>2 DEF ChangesNext, changesVars

-----------------------------------------------------------------------------
(* The settings file, and the commands that read it whole and write it     *)
(* whole.                                                                  *)

Config   == [parses : {TRUE}, table : SUBSET Vhd, setting : 0..1, extra : BOOLEAN]
Total    == [table : SUBSET Vhd, setting : 0..1]
AnyDisk  == CHOOSE v \in Vhd : TRUE
Working  == [state : {"loaded", "settled", "cut"}, verb : {"set", "add", "rm", "now"},
             disk : Vhd \cup {AnyDisk}, config : Config]
Editing  == [state : {"edits"}, config : Config]
LogonRun == [state : {"loaded"}, verb : {"now"}, config : Config]
Seat     == Window \cup {Logon}

\* What a command does to the file, it does to a disk there is.
VerbIsOK(x) ==
    x \in Working => /\ x.verb \in {"add", "rm"} => x.disk \in Vhd
                     /\ x.state \in {"settled", "cut"} => x.verb # "now"

FileTyped ==
    /\ toml \in Config \cup {Garbled} /\ told \in Total
    /\ window \in [Seat -> Working \cup Editing \cup LogonRun \cup {Closed}]
    /\ \A w \in Seat : VerbIsOK(window[w])
    /\ crossed \in BOOLEAN

\* A command has read what the file comes to, and is to write what it comes to
\* with its own change.
Knows(w) ==
    LET x == window[w] IN
    /\ x.state = "loaded" /\ x.verb # "now" => Told(x.config) = told
    /\ x.state \in {"settled", "cut"} => Told(x.config) = Does(x.verb, x.disk, told)

NoneCuts(ws) == \A w \in ws : window[w].state # "cut"

\* While nobody has written the file that another was at, it is what it comes
\* to, and so is what was read of it while nobody was writing.
FileIsWhole ==
    ~crossed => /\ NoneCuts(Window) /\ toml.parses => Told(toml) = told
                /\ \A w \in Window : NoneCuts(Window \ {w}) => Knows(w)

\* A distribution's disk that the file or a command has in its table got there
\* before it was a distribution's, or by hand.
ListedIsUnvetted ==
    /\ toml.parses => toml.table \cap owned \subseteq unvetted
    /\ \A w \in Seat : window[w] # Closed => window[w].config.table \cap owned \subseteq unvetted

\* The inductive invariant of the settings file and the disks in its table.
AutomountInv == FileTyped /\ FileIsWhole /\ ListedIsUnvetted /\ OneWriter

\* A command is of one kind, which its state tells, as does what was read.
LEMMA Seats ==
    /\ \A x \in Working : /\ x.state \in {"loaded", "settled", "cut"} /\ x.config \in Config
                          /\ x \notin Editing /\ x # Closed
    /\ \A x \in Editing : x.state = "edits" /\ x.config \in Config /\ x # Closed /\ x \notin Working
    /\ \A x \in LogonRun : x.state = "loaded" /\ x.verb = "now" /\ x.config \in Config /\ x # Closed
    /\ Closed.state = "closed" /\ Closed \notin Working
    /\ \A c \in Config : c.parses = TRUE /\ c.table \in SUBSET Vhd /\ c.setting \in 0..1
    /\ Garbled.parses = FALSE
<1>1. \A x \in Working : /\ x.state \in {"loaded", "settled", "cut"} /\ x.config \in Config
                         /\ x \notin Editing /\ x # Closed
    BY DEF Working, Editing, Closed
<1>2. \A x \in Editing : x.state = "edits" /\ x.config \in Config /\ x # Closed /\ x \notin Working
    BY DEF Working, Editing, Closed
<1>3. \A x \in LogonRun : x.state = "loaded" /\ x.verb = "now" /\ x.config \in Config /\ x # Closed
    BY DEF LogonRun, Closed
<1>4. Closed.state = "closed" /\ Closed \notin Working
    BY DEF Working, Closed
<1>5. \A c \in Config : c.parses = TRUE /\ c.table \in SUBSET Vhd /\ c.setting \in 0..1
    BY DEF Config
<1>6. Garbled.parses = FALSE
    BY DEF Garbled
<1> QED
    BY <1>1, <1>2, <1>3, <1>4, <1>5, <1>6, Zenon

\* What a command does is done to the table and the setting, and adds no disk
\* but its own (SetConfigValue, AppendAutomount, RemoveAutomount).
LEMMA DoesFacts ==
    ASSUME NEW c \in Config, NEW verb \in {"set", "add", "rm"}, NEW v,
           verb = "add" => v \in Vhd
    PROVE  /\ Does(verb, v, c) \in Config
           /\ Told(Does(verb, v, c)) = Does(verb, v, Told(c))
           /\ Does(verb, v, c).table \subseteq c.table \cup (IF verb = "add" THEN {v} ELSE {})
<1>1. CASE verb = "set"
    <2>1. Does(verb, v, c) = SetConfigValue(c) /\ Does(verb, v, Told(c)) = SetConfigValue(Told(c))
        BY <1>1 DEF Does
    <2>2. /\ SetConfigValue(c) \in Config /\ SetConfigValue(c).table = c.table
          /\ SetConfigValue(c).setting = 1 - c.setting
        <3>1. c.setting \in 0..1 /\ 1 - c.setting \in 0..1
            BY DEF Config
        <3>2. SetConfigValue(c) = [c EXCEPT !.setting = 1 - c.setting]
            BY DEF SetConfigValue
        <3> QED
            BY <3>1, <3>2 DEF Config
    <2>3. SetConfigValue(Told(c)) = [table |-> c.table, setting |-> 1 - c.setting]
        BY DEF SetConfigValue, Told
    <2> QED
        BY <1>1, <2>1, <2>2, <2>3 DEF Told
<1>2. CASE verb = "add"
    <2>1. /\ Does(verb, v, c) = AppendAutomount(c, v)
          /\ Does(verb, v, Told(c)) = AppendAutomount(Told(c), v)
        BY <1>2 DEF Does
    <2>2. /\ AppendAutomount(c, v) \in Config /\ AppendAutomount(c, v).table = c.table \cup {v}
          /\ AppendAutomount(c, v).setting = c.setting
        BY <1>2 DEF AppendAutomount, Config
    <2>3. AppendAutomount(Told(c), v) = [table |-> c.table \cup {v}, setting |-> c.setting]
        BY DEF AppendAutomount, Told
    <2> QED
        BY <1>2, <2>1, <2>2, <2>3 DEF Told
<1>3. CASE verb = "rm"
    <2>1. /\ Does(verb, v, c) = RemoveAutomount(c, v)
          /\ Does(verb, v, Told(c)) = RemoveAutomount(Told(c), v)
        BY <1>3 DEF Does
    <2>2. /\ RemoveAutomount(c, v) \in Config /\ RemoveAutomount(c, v).table = c.table \ {v}
          /\ RemoveAutomount(c, v).setting = c.setting
        BY DEF RemoveAutomount, Config
    <2>3. RemoveAutomount(Told(c), v) = [table |-> c.table \ {v}, setting |-> c.setting]
        BY DEF RemoveAutomount, Told
    <2> QED
        BY <1>3, <2>1, <2>2, <2>3 DEF Told
<1> QED
    BY <1>1, <1>2, <1>3

LEMMA DoesToSum ==
    ASSUME NEW s \in Total, NEW verb \in {"set", "add", "rm"}, NEW v, verb = "add" => v \in Vhd
    PROVE  Does(verb, v, s) \in Total
<1>1. CASE verb = "set"
    BY <1>1 DEF Does, SetConfigValue, Total
<1>2. CASE verb = "add"
    BY <1>2 DEF Does, AppendAutomount, Total
<1>3. CASE verb = "rm"
    BY <1>3 DEF Does, RemoveAutomount, Total
<1> QED
    BY <1>1, <1>2, <1>3

LEMMA AutomountInitInv == AutomountInit => AutomountInv
<1> SUFFICES ASSUME AutomountInit
             PROVE  AutomountInv
    OBVIOUS
<1>1. toml \in Config /\ told \in Total /\ Told(toml) = told
    BY DEF AutomountInit, Text, Told, Config, Total
<1>2. \A w \in Seat : window[w] = Closed
    BY DEF AutomountInit, Seat
<1>3. FileTyped
    BY <1>1, <1>2, Seats DEF AutomountInit, FileTyped, VerbIsOK, Seat
<1>4. FileIsWhole
    BY <1>1, <1>2, Seats DEF FileIsWhole, Knows, Seat
<1>5. ListedIsUnvetted /\ OneWriter
    BY <1>2 DEF AutomountInit, ListedIsUnvetted, OneWriter
<1> QED
    BY <1>3, <1>4, <1>5 DEF AutomountInv

\* Where a step leaves the file and the disks, and puts one command on, it is
\* enough that this command is of its kind, knows what it should, and adds no
\* disk to what is listed.
LEMMA SeatMoves ==
    ASSUME AutomountInv, NEW w \in Seat, NEW x \in Working \cup Editing \cup LogonRun \cup {Closed},
           window' = [window EXCEPT ![w] = x], UNCHANGED <<toml, told, crossed, owned, unvetted>>,
           window[w].state # "cut", x.state # "cut", VerbIsOK(x),
           w \in Window /\ NoneCuts(Window) /\ ~crossed => Knows(w)',
           x # Closed => x.config.table \cap owned \subseteq unvetted
    PROVE  FileTyped' /\ FileIsWhole' /\ ListedIsUnvetted'
<1>1. /\ window \in [Seat -> Working \cup Editing \cup LogonRun \cup {Closed}]
      /\ window'[w] = x /\ \A y \in Seat \ {w} : window'[y] = window[y]
    BY DEF AutomountInv, FileTyped
<1>2. FileTyped'
    BY <1>1 DEF AutomountInv, FileTyped
<1>3. FileIsWhole'
    <2>1. \A ws \in SUBSET Window : NoneCuts(ws)' <=> NoneCuts(ws)
        BY <1>1 DEF NoneCuts, Seat
    <2>2. ASSUME ~crossed, NEW y \in Window, NoneCuts(Window \ {y})
          PROVE  Knows(y)'
        <3>1. CASE y = w
            <4>1. NoneCuts(Window)
                BY <2>2, <3>1 DEF NoneCuts
            <4> QED
                BY <2>2, <3>1, <4>1
        <3>2. CASE y # w
            BY <1>1, <2>2, <3>2 DEF AutomountInv, FileIsWhole, Knows, Seat
        <3> QED
            BY <3>1, <3>2
    <2>3. \A y \in Window : NoneCuts(Window \ {y})' => NoneCuts(Window \ {y})
        BY <2>1
    <2> QED
        BY <2>1, <2>2, <2>3 DEF AutomountInv, FileIsWhole
<1>4. ListedIsUnvetted'
    BY <1>1 DEF AutomountInv, ListedIsUnvetted
<1> QED
    BY <1>2, <1>3, <1>4

\* Nothing of the file changes with the disks; what is registered is unvetted
\* where it is listed, and what is not a distribution's alone is attached by one.
LEMMA SurroundingsKeep ==
    ASSUME AutomountInv, Surroundings
    PROVE  AutomountInv'
<1>1. UNCHANGED <<toml, task, window, runs, told, crossed>>
    BY DEF Surroundings
<1>2. FileTyped'
    BY <1>1 DEF AutomountInv, FileTyped
<1>3. FileIsWhole'
    BY <1>1 DEF AutomountInv, FileIsWhole, Knows, NoneCuts
<1>4. CASE VMShutsDown
    BY <1>1, <1>2, <1>3, <1>4 DEF AutomountInv, VMShutsDown, ListedIsUnvetted, OneWriter
<1>5. ASSUME NEW v \in Vhd, Unplugged(v)
      PROVE  AutomountInv'
    BY <1>1, <1>2, <1>3, <1>5 DEF AutomountInv, Unplugged, ListedIsUnvetted, OneWriter
<1>6. ASSUME NEW v \in Vhd, DistroStarts(v)
      PROVE  AutomountInv'
    BY <1>1, <1>2, <1>3, <1>6 DEF AutomountInv, DistroStarts, ListedIsUnvetted, OneWriter
<1>7. ASSUME NEW v \in Vhd, Registered(v)
      PROVE  AutomountInv'
    <2>1. /\ owned' = owned \cup {v} /\ unvetted' = unvetted \cup ({v} \cap Listed)
          /\ v \notin attached /\ UNCHANGED <<attached, opened>>
        BY <1>7 DEF Registered
    <2>2. toml.parses /\ v \in toml.table => v \in Listed
        BY DEF Listed, Table
    <2>3. \A w \in Seat : window[w] # Closed /\ v \in window[w].config.table => v \in Listed
        BY DEF Listed, Seat
    <2>4. ListedIsUnvetted'
        BY <1>1, <2>1, <2>2, <2>3 DEF AutomountInv, ListedIsUnvetted
    <2>5. OneWriter'
        BY <2>1 DEF AutomountInv, OneWriter
    <2> QED
        BY <1>2, <1>3, <2>4, <2>5 DEF AutomountInv
<1> QED
    BY <1>4, <1>5, <1>6, <1>7 DEF Surroundings

\* A file that is read is known, unless somebody is writing it.
LEMMA LoadConfigKeeps ==
    ASSUME AutomountInv, NEW w \in Window, NEW verb \in {"set", "add", "rm", "now"},
           NEW v \in Vhd \cup {AnyDisk}, verb \in {"add", "rm"} => v \in Vhd, LoadConfig(w, verb, v)
    PROVE  AutomountInv'
<1> DEFINE x == [state |-> "loaded", verb |-> verb, disk |-> v, config |-> toml]
<1>1. /\ toml \in Config /\ toml.parses /\ w \in Seat /\ window[w] = Closed
      /\ window' = [window EXCEPT ![w] = x]
      /\ UNCHANGED <<toml, there, owned, attached, opened, unvetted, told, crossed>>
    BY Seats DEF LoadConfig, AutomountInv, FileTyped, extraDiskVars, Seat
<1>2. x \in Working /\ x.state = "loaded" /\ x.config = toml /\ VerbIsOK(x)
    BY <1>1 DEF Working, VerbIsOK
<1> HIDE DEF x
<1>3. window'[w] = x
    BY <1>1 DEF AutomountInv, FileTyped
<1>4. NoneCuts(Window) /\ ~crossed => Knows(w)'
    BY <1>1, <1>2, <1>3 DEF AutomountInv, FileIsWhole, Knows
<1>5. x.config.table \cap owned \subseteq unvetted
    BY <1>1, <1>2 DEF AutomountInv, ListedIsUnvetted
<1>6. FileTyped' /\ FileIsWhole' /\ ListedIsUnvetted'
    BY <1>1, <1>2, <1>4, <1>5, SeatMoves, Seats
<1> QED
    BY <1>1, <1>6 DEF AutomountInv, OneWriter

LEMMA OpenEditorKeeps ==
    ASSUME AutomountInv, NEW w \in Window, OpenEditor(w)
    PROVE  AutomountInv'
<1> DEFINE x == [state |-> "edits", config |-> IF toml.parses THEN toml ELSE Default]
<1>1. /\ w \in Seat /\ window[w] = Closed /\ window' = [window EXCEPT ![w] = x]
      /\ UNCHANGED <<toml, there, owned, attached, opened, unvetted, told, crossed>>
    BY DEF OpenEditor, extraDiskVars, Seat
<1>2. /\ x \in Editing /\ x.state = "edits" /\ VerbIsOK(x)
      /\ x.config.table \cap owned \subseteq unvetted
    <2>1. Default \in Config /\ Default.table = {}
        BY DEF Default, Text, Config
    <2>2. toml.parses => toml \in Config /\ toml.table \cap owned \subseteq unvetted
        BY Seats DEF AutomountInv, FileTyped, ListedIsUnvetted
    <2>3. x.config \in Config /\ x.config.table \cap owned \subseteq unvetted
        BY <2>1, <2>2
    <2>4. x \in Editing
        BY <2>3 DEF Editing
    <2> QED
        BY <2>3, <2>4, Seats DEF VerbIsOK
<1> HIDE DEF x
<1>3. window'[w] = x
    BY <1>1 DEF AutomountInv, FileTyped
<1>4. Knows(w)'
    BY <1>2, <1>3 DEF Knows
<1>5. FileTyped' /\ FileIsWhole' /\ ListedIsUnvetted'
    BY <1>1, <1>2, <1>4, SeatMoves, Seats
<1> QED
    BY <1>1, <1>5 DEF AutomountInv, OneWriter

\* A command that changes what it has read knows what the file is to be, and
\* adds no distribution's disk (ValidateAutomount).
LEMMA SettlesKeeps ==
    ASSUME AutomountInv, NEW w \in Window, Settles(w)
    PROVE  AutomountInv'
<1> DEFINE x == window[w]
<1> DEFINE d == Does(x.verb, x.disk, x.config)
<1> DEFINE z == [x EXCEPT !.state = "settled", !.config = d]
<1>1. /\ x.state = "loaded" /\ x.verb # "now" /\ Allowed(x) /\ w \in Seat
      /\ window' = [window EXCEPT ![w] = z]
      /\ UNCHANGED <<toml, there, owned, attached, opened, unvetted, told, crossed>>
    BY DEF Settles, extraDiskVars, Seat
<1>2. x \in Working /\ VerbIsOK(x)
    BY <1>1, Seats DEF AutomountInv, FileTyped
<1>3. /\ x.verb \in {"set", "add", "rm"} /\ x.config \in Config
      /\ x.verb \in {"add", "rm"} => x.disk \in Vhd
    BY <1>1, <1>2 DEF Working, VerbIsOK
<1>4. /\ d \in Config /\ Told(d) = Does(x.verb, x.disk, Told(x.config))
      /\ d.table \subseteq x.config.table \cup (IF x.verb = "add" THEN {x.disk} ELSE {})
    BY <1>3, DoesFacts
<1> HIDE DEF d
<1>5. /\ z \in Working /\ z.state = "settled" /\ z.config = d /\ z.verb = x.verb /\ z.disk = x.disk
    BY <1>2, <1>4 DEF Working
<1> HIDE DEF z
<1>6. VerbIsOK(z)
    BY <1>1, <1>3, <1>5 DEF VerbIsOK
<1>7. window'[w] = z
    BY <1>1 DEF AutomountInv, FileTyped
<1>8. NoneCuts(Window) /\ ~crossed => Knows(w)'
    <2>1. NoneCuts(Window) /\ ~crossed => Told(x.config) = told
        BY <1>1 DEF AutomountInv, FileIsWhole, Knows, NoneCuts
    <2> QED
        BY <1>1, <1>4, <1>5, <1>7, <2>1 DEF Knows
<1>9. z.config.table \cap owned \subseteq unvetted
    <2>1. x.config.table \cap owned \subseteq unvetted
        BY <1>1, <1>2, Seats DEF AutomountInv, ListedIsUnvetted
    <2>2. x.verb = "add" => x.disk \notin owned
        BY <1>1 DEF Allowed, ValidateAutomount
    <2> QED
        BY <1>4, <1>5, <2>1, <2>2
<1>10. FileTyped' /\ FileIsWhole' /\ ListedIsUnvetted'
    BY <1>1, <1>5, <1>6, <1>8, <1>9, SeatMoves
<1> QED
    BY <1>1, <1>10 DEF AutomountInv, OneWriter

\* A file is emptied where nobody else is at it, or somebody has crossed.
LEMMA TruncatesKeeps ==
    ASSUME AutomountInv, NEW w \in Window, Truncates(w)
    PROVE  AutomountInv'
<1> DEFINE x == window[w]
<1> DEFINE z == [x EXCEPT !.state = "cut"]
<1>1. /\ x.state = "settled" /\ w \in Seat /\ window' = [window EXCEPT ![w] = z]
      /\ toml' = Default /\ crossed' = (crossed \/ \E y \in Window \ {w} : window[y] # Closed)
      /\ UNCHANGED <<there, owned, attached, opened, unvetted, told>>
    BY DEF Truncates, extraDiskVars, Seat
<1>2. x \in Working /\ VerbIsOK(x)
    BY <1>1, Seats DEF AutomountInv, FileTyped
<1>3. /\ z \in Working /\ z.state = "cut" /\ z.config = x.config /\ z.verb = x.verb
      /\ z.disk = x.disk /\ VerbIsOK(z)
    BY <1>1, <1>2 DEF Working, VerbIsOK
<1> HIDE DEF z
<1>4. window'[w] = z /\ \A y \in Seat \ {w} : window'[y] = window[y]
    BY <1>1 DEF AutomountInv, FileTyped
<1>5. Default \in Config /\ Default.table = {}
    BY DEF Default, Text, Config
<1>6. FileTyped'
    BY <1>1, <1>3, <1>4, <1>5 DEF AutomountInv, FileTyped
<1>7. FileIsWhole'
    <2>1. ASSUME ~crossed', NEW y \in Window, NoneCuts(Window \ {y})'
          PROVE  Knows(y)'
        <3>1. CASE y = w
            <4>1. ~crossed /\ NoneCuts(Window \ {w})
                BY <1>1, <2>1, Seats DEF NoneCuts
            <4>2. Knows(w)
                BY <4>1 DEF AutomountInv, FileIsWhole
            <4> QED
                BY <1>1, <1>3, <1>4, <3>1, <4>2 DEF Knows
        <3>2. CASE y # w
            <4>1. window'[y] = Closed
                BY <1>1, <1>4, <2>1, <3>2 DEF Seat
            <4> QED
                BY <4>1, Seats DEF Knows
        <3> QED
            BY <3>1, <3>2
    <2>2. ~NoneCuts(Window)'
        BY <1>3, <1>4 DEF NoneCuts
    <2> QED
        BY <2>1, <2>2 DEF FileIsWhole
<1>8. ListedIsUnvetted'
    BY <1>1, <1>2, <1>3, <1>4, <1>5, Seats DEF AutomountInv, ListedIsUnvetted
<1> QED
    BY <1>1, <1>6, <1>7, <1>8 DEF AutomountInv, OneWriter

\* The file is filled with what the command knows it is to be.
LEMMA SaveConfigKeeps ==
    ASSUME AutomountInv, NEW w \in Window, SaveConfig(w)
    PROVE  AutomountInv'
<1> DEFINE x == window[w]
<1>1. /\ x.state = "cut" /\ w \in Seat /\ window' = [window EXCEPT ![w] = Closed]
      /\ toml' = RenderConfig(x.config) /\ told' = Does(x.verb, x.disk, told)
      /\ crossed' = (crossed \/ \E y \in Seat \ {w} : window[y] # Closed)
      /\ UNCHANGED <<there, owned, attached, opened, unvetted>>
    BY DEF SaveConfig, extraDiskVars, Seat
<1>2. x \in Working /\ VerbIsOK(x)
    BY <1>1, Seats DEF AutomountInv, FileTyped
<1>3. /\ x.verb \in {"set", "add", "rm"} /\ x.config \in Config
      /\ x.verb \in {"add", "rm"} => x.disk \in Vhd
    BY <1>1, <1>2 DEF Working, VerbIsOK
<1>4. /\ toml' \in Config /\ toml'.table = x.config.table /\ Told(toml') = Told(x.config)
    BY <1>1, <1>3 DEF RenderConfig, Text, Config, Told
<1>5. window'[w] = Closed /\ \A y \in Seat \ {w} : window'[y] = window[y]
    BY <1>1 DEF AutomountInv, FileTyped
<1>6. FileTyped'
    <2>1. told' \in Total
        BY <1>1, <1>3, DoesToSum DEF AutomountInv, FileTyped
    <2> QED
        BY <1>1, <1>4, <1>5, <2>1, Seats DEF AutomountInv, FileTyped, VerbIsOK
<1>7. FileIsWhole'
    <2> SUFFICES ASSUME ~crossed'
                 PROVE  Told(toml)' = told' /\ \A y \in Window : Knows(y)'
        BY DEF FileIsWhole
    <2>1. ~crossed /\ \A y \in Window : y # w => window[y] = Closed
        BY <1>1 DEF Seat
    <2>2. Knows(w)
        BY <2>1, Seats DEF AutomountInv, FileIsWhole, NoneCuts
    <2>3. Told(toml') = told'
        BY <1>1, <1>4, <2>2 DEF Knows
    <2>4. \A y \in Window : window'[y] = Closed
        BY <1>5, <2>1 DEF Seat
    <2> QED
        BY <2>3, <2>4, Seats DEF Knows, Told
<1>8. ListedIsUnvetted'
    BY <1>1, <1>2, <1>4, <1>5, Seats DEF AutomountInv, ListedIsUnvetted
<1> QED
    BY <1>1, <1>6, <1>7, <1>8 DEF AutomountInv, OneWriter

\* An edit by hand is the file's, and a distribution's disk in it is unvetted.
LEMMA EditedByHandKeeps ==
    ASSUME AutomountInv, NEW w \in Window, EditedByHand(w)
    PROVE  AutomountInv'
<1> DEFINE c == window[w].config
<1>1. /\ window[w].state = "edits" /\ w \in Seat /\ window' = [window EXCEPT ![w] = Closed]
      /\ crossed' = (crossed \/ \E x \in Window \ {w} : window[x] # Closed)
      /\ UNCHANGED <<there, owned, attached, opened>>
    BY DEF EditedByHand, Seat
<1>2. window[w] \in Editing /\ c \in Config /\ window[w] # Closed
    BY <1>1, Seats DEF AutomountInv, FileTyped
<1>3. window'[w] = Closed /\ \A y \in Seat \ {w} : window'[y] = window[y]
    BY <1>1 DEF AutomountInv, FileTyped
<1>4. \/ toml' = Garbled /\ UNCHANGED <<told, unvetted>>
      \/ /\ toml' \in Config /\ told' = Told(toml')
         /\ unvetted' = unvetted \cup ((toml'.table \ c.table) \cap owned)
    <2>1. [c EXCEPT !.extra = TRUE] \in Config /\ \A v \in Vhd : [c EXCEPT !.table = @ \cup {v}] \in Config
        BY <1>2 DEF Config
    <2> DEFINE outcomes == {[c EXCEPT !.extra = TRUE]} \cup {[c EXCEPT !.table = @ \cup {v}] : v \in Vhd}
    <2>2. \/ toml' = Garbled /\ UNCHANGED <<told, unvetted>>
          \/ /\ toml' \in outcomes /\ told' = Told(toml')
             /\ unvetted' = unvetted \cup ((toml'.table \ c.table) \cap owned)
        BY DEF EditedByHand
    <2>3. outcomes \subseteq Config
        BY <2>1
    <2> HIDE DEF outcomes
    <2> QED
        BY <2>2, <2>3
<1>5. FileTyped'
    <2>1. \A d \in Config : Told(d) \in Total
        BY DEF Config, Told, Total
    <2> QED
        BY <1>1, <1>3, <1>4, <2>1, Seats DEF AutomountInv, FileTyped, VerbIsOK
<1>6. FileIsWhole'
    <2> SUFFICES ASSUME ~crossed'
                 PROVE  /\ toml'.parses => Told(toml)' = told'
                        /\ \A y \in Window : Knows(y)'
        BY DEF FileIsWhole
    <2>1. \A y \in Window : window'[y] = Closed
        BY <1>1, <1>3 DEF Seat
    <2> QED
        BY <1>4, <2>1, Seats DEF Knows, Told
<1>7. ListedIsUnvetted'
    <2>1. c.table \cap owned \subseteq unvetted
        BY <1>1, <1>2 DEF AutomountInv, ListedIsUnvetted
    <2>2. unvetted \subseteq unvetted'
        BY <1>4
    <2>3. toml'.parses => toml'.table \cap owned' \subseteq unvetted'
        <3> HIDE DEF c
        <3> QED
            BY <1>1, <1>4, <2>1, Seats
    <2>4. ASSUME NEW y \in Seat, window'[y] # Closed
          PROVE  window'[y].config.table \cap owned' \subseteq unvetted'
        BY <1>1, <1>3, <2>2, <2>4 DEF AutomountInv, ListedIsUnvetted
    <2> QED
        BY <2>3, <2>4 DEF ListedIsUnvetted
<1>8. OneWriter'
    BY <1>1, <1>4 DEF AutomountInv, OneWriter
<1> QED
    BY <1>5, <1>6, <1>7, <1>8 DEF AutomountInv

\* The task reads the file as a command does, and writes nothing.
LEMMA LogsOnKeeps ==
    ASSUME AutomountInv, LogsOn
    PROVE  AutomountInv'
<1> DEFINE x == IF toml.parses THEN [state |-> "loaded", verb |-> "now", config |-> toml] ELSE Closed
<1>1. /\ Logon \in Seat /\ window[Logon] = Closed /\ window' = [window EXCEPT ![Logon] = x]
      /\ UNCHANGED <<toml, there, owned, attached, opened, unvetted, told, crossed>>
    BY DEF LogsOn, extraDiskVars, Seat
<1>2. /\ x \in LogonRun \cup {Closed} /\ x.state # "cut" /\ VerbIsOK(x)
      /\ x # Closed => x.config.table \cap owned \subseteq unvetted
    <2>1. CASE ~toml.parses
        BY <2>1, Seats DEF VerbIsOK
    <2>2. CASE toml.parses
        <3>1. toml \in Config /\ toml.table \cap owned \subseteq unvetted
            BY <2>2, Seats DEF AutomountInv, FileTyped, ListedIsUnvetted
        <3>2. x = [state |-> "loaded", verb |-> "now", config |-> toml]
            BY <2>2
        <3>3. x \in LogonRun /\ x \notin Working /\ x.state = "loaded" /\ x.config = toml
            BY <3>1, <3>2 DEF LogonRun, Working
        <3> QED
            BY <3>1, <3>3 DEF VerbIsOK
    <2> QED
        BY <2>1, <2>2
<1>3. x.state \in {"loaded", "closed"} /\ (x.state = "loaded" => x.verb = "now")
    BY <1>2, Seats
<1> HIDE DEF x
<1>4. window'[Logon] = x
    BY <1>1 DEF AutomountInv, FileTyped
<1>5. Knows(Logon)'
    BY <1>3, <1>4 DEF Knows
<1>6. FileTyped' /\ FileIsWhole' /\ ListedIsUnvetted'
    BY <1>1, <1>2, <1>5, SeatMoves, Seats
<1> QED
    BY <1>1, <1>6 DEF AutomountInv, OneWriter

\* A command or the task attaches what is listed, which if it is a
\* distribution's is unvetted.
LEMMA ApplyAutomountKeeps ==
    ASSUME AutomountInv, NEW w \in Seat, ApplyAutomount(w)
    PROVE  AutomountInv'
<1> DEFINE x == window[w]
<1>1. /\ x.state = "loaded" /\ x.verb = "now" /\ x # Closed
      /\ x \in Working \cup LogonRun /\ VerbIsOK(x)
      /\ UNCHANGED <<toml, there, owned, opened, unvetted, told, crossed>>
    BY Seats DEF ApplyAutomount, extraDiskVars, AutomountInv, FileTyped
<1>2. x.config \in Config /\ x.config.table \cap owned \subseteq unvetted
    BY <1>1, Seats DEF AutomountInv, ListedIsUnvetted
<1>3. CASE window' = [window EXCEPT ![w] = Closed] /\ UNCHANGED extraDiskVars
    <2>1. window'[w] = Closed
        BY <1>3 DEF AutomountInv, FileTyped
    <2>2. FileTyped' /\ FileIsWhole' /\ ListedIsUnvetted'
        BY <1>1, <1>3, <2>1, SeatMoves, Seats DEF VerbIsOK, Knows
    <2> QED
        BY <1>1, <1>3, <2>2 DEF AutomountInv, OneWriter, extraDiskVars
<1>4. ASSUME NEW v \in x.config.table,
             window' = [window EXCEPT ![w] = [x EXCEPT !.config.table = @ \ {v}]],
             IF v \in there \ attached
             THEN attached' \in {attached, attached \cup {v}} ELSE UNCHANGED attached
      PROVE  AutomountInv'
    <2> DEFINE z == [x EXCEPT !.config.table = @ \ {v}]
    <2>1. /\ z \in Working \cup LogonRun /\ z.state = "loaded" /\ z.verb = "now"
          /\ z.config.table = x.config.table \ {v}
        <3>1. CASE x \in Working
            BY <1>1, <1>2, <3>1 DEF Working, Config
        <3>2. CASE x \in LogonRun
            BY <1>1, <1>2, <3>2 DEF LogonRun, Config
        <3> QED
            BY <1>1, <3>1, <3>2
    <2>2. VerbIsOK(z)
        BY <2>1 DEF VerbIsOK
    <2>3. window' = [window EXCEPT ![w] = z]
        BY <1>4
    <2> HIDE DEF z
    <2>4. window'[w] = z
        BY <2>3 DEF AutomountInv, FileTyped
    <2>5. Knows(w)'
        BY <2>1, <2>4 DEF Knows
    <2>6. z.config.table \cap owned \subseteq unvetted
        BY <1>2, <2>1
    <2>7. FileTyped' /\ FileIsWhole' /\ ListedIsUnvetted'
        BY <1>1, <2>1, <2>2, <2>3, <2>5, <2>6, SeatMoves
    <2>8. OneWriter'
        BY <1>1, <1>2, <1>4 DEF AutomountInv, OneWriter
    <2> QED
        BY <2>7, <2>8 DEF AutomountInv
<1> QED
    BY <1>3, <1>4 DEF ApplyAutomount

LEMMA CommandEndsKeeps ==
    ASSUME AutomountInv, NEW w \in Seat, CommandEnds(w)
    PROVE  AutomountInv'
<1>1. /\ window[w].state # "cut" /\ window' = [window EXCEPT ![w] = Closed]
      /\ UNCHANGED <<toml, there, owned, attached, opened, unvetted, told, crossed>>
    BY DEF CommandEnds, extraDiskVars
<1>2. window'[w] = Closed
    BY <1>1 DEF AutomountInv, FileTyped
<1>3. FileTyped' /\ FileIsWhole' /\ ListedIsUnvetted'
    BY <1>1, <1>2, SeatMoves, Seats DEF VerbIsOK, Knows
<1> QED
    BY <1>1, <1>3 DEF AutomountInv, OneWriter

LEMMA CutShortKeeps ==
    ASSUME AutomountInv, NEW w \in Seat, CutShort(w)
    PROVE  AutomountInv'
<1>1. /\ window' = [window EXCEPT ![w] = Closed] /\ crossed' = TRUE
      /\ UNCHANGED <<toml, there, owned, attached, opened, unvetted, told>>
    BY DEF CutShort, extraDiskVars
<1>2. window'[w] = Closed /\ \A y \in Seat \ {w} : window'[y] = window[y]
    BY <1>1 DEF AutomountInv, FileTyped
<1> QED
    BY <1>1, <1>2, Seats
    DEF AutomountInv, FileTyped, VerbIsOK, FileIsWhole, ListedIsUnvetted, OneWriter

LEMMA AutomountStays ==
    ASSUME AutomountInv, UNCHANGED <<toml, extraDiskVars, window, told, crossed>>
    PROVE  AutomountInv'
BY DEF AutomountInv, FileTyped, VerbIsOK, FileIsWhole, NoneCuts, Knows, ListedIsUnvetted, OneWriter,
       extraDiskVars

\* A step of Changes keeps the invariant of the settings file.
LEMMA ChangesStepAutomount == AutomountInv /\ [ChangesNext]_changesVars => AutomountInv'
<1> SUFFICES ASSUME AutomountInv, [ChangesNext]_changesVars
             PROVE  AutomountInv'
    OBVIOUS
<1>1. CASE AutomountNext
    <2>1. ASSUME NEW w \in Window, NEW verb \in {"set", "now"}, LoadConfig(w, verb, AnyDisk)
          PROVE  AutomountInv'
        BY <2>1, LoadConfigKeeps
    <2>2. ASSUME NEW w \in Window, NEW verb \in {"add", "rm"}, NEW v \in Vhd, LoadConfig(w, verb, v)
          PROVE  AutomountInv'
        BY <2>2, LoadConfigKeeps
    <2>3. CASE \E w \in Window : OpenEditor(w) \/ EditedByHand(w) \/ Settles(w) \/ Truncates(w) \/ SaveConfig(w)
        BY <2>3, OpenEditorKeeps, EditedByHandKeeps, SettlesKeeps, TruncatesKeeps, SaveConfigKeeps
    <2>4. CASE \E w \in Window \cup {Logon} : ApplyAutomount(w) \/ CommandEnds(w) \/ CutShort(w)
        BY <2>4, ApplyAutomountKeeps, CommandEndsKeeps, CutShortKeeps DEF Seat
    <2>5. CASE (InstallTask \/ UninstallTask) /\ UNCHANGED <<toml, extraDiskVars, window, runs, told, crossed>>
        BY <2>5, AutomountStays
    <2> QED
        BY <1>1, <2>1, <2>2, <2>3, <2>4, <2>5, SurroundingsKeep, LogsOnKeeps DEF AutomountNext, AnyDisk
<1>2. CASE UNCHANGED automountVars
    BY <1>2, AutomountStays DEF automountVars, extraDiskVars
<1> QED
    BY <1>1, <1>2 DEF ChangesNext, changesVars

\* What the user has set is kept.  Two distributions have one name only after an
\* undo, or when a command wrote a name it had looked up in a registry that was
\* another by then, and undo puts back what was written over, bit for bit
\* (PlanRename, ApplyFlags, journalRegistry).  The settings file has the table
\* and the setting it comes to, as long as no two are at it at once (SaveConfig),
\* and no distribution's disk is attached as an extra one but where it became one
\* after it was listed, or was listed by hand (ValidateAutomount).
THEOREM SettingsStay == ChangesSpec => []SettingsAreKept
<1>1. ChangesInit => SettingsInv /\ AutomountInv
    BY SettingsInitInv, AutomountInitInv DEF ChangesInit
<1>2. AutomountInv => NothingDropsOut
    BY Seats DEF AutomountInv, FileIsWhole, NoneCuts, NothingDropsOut
<1>3. SettingsInv /\ AutomountInv => SettingsAreKept
    BY <1>2 DEF SettingsInv, AutomountInv, SettingsAreKept
<1> QED
    BY <1>1, <1>3, ChangesStepSettings, ChangesStepAutomount, PTL DEF ChangesSpec

-----------------------------------------------------------------------------
(* The limits of the virtual machine, for any number of terminals, limits, *)
(* commands and restarts.                                                  *)

Knob   == {"high", "max", "swap", "cpu"}
Amount == 0..Top - 1
Line   == [to : Knob, value : 1..Top]

\* The lines of a script for the limits l.
ScriptOf(l) == IF l = Unlimited THEN Clears ELSE Writes(l)

-----------------------------------------------------------------------------
(* The scripts.                                                              *)

LEMMA AskedLines ==
    ASSUME NEW l \in [high : Amount, max : Amount, swap : Amount, cpu : Amount],
           NEW n \in Knob
    PROVE  /\ Asked(n, l) \in Seq(Line)
           /\ Len(Asked(n, l)) = IF l[n] = 0 THEN 0 ELSE 1
           /\ \A i \in 1..Len(Asked(n, l)) : Asked(n, l)[i] = [to |-> n, value |-> l[n]]
<1>1. l[n] \in Amount
    BY DEF Knob
<1>2. l[n] # 0 => [to |-> n, value |-> l[n]] \in Line
    BY <1>1, LimitAssumption DEF Line, Amount
<1> QED
    BY <1>1, <1>2 DEF Asked

\* Each line writes what was asked for.
Faithful(s, l) == s \in Seq(Line) /\ \A i \in 1..Len(s) : s[i].value = l[s[i].to]

LEMMA Joined ==
    ASSUME NEW l, NEW s, NEW u, Faithful(s, l), Faithful(u, l)
    PROVE  /\ Faithful(s \o u, l) /\ Len(s \o u) = Len(s) + Len(u)
           /\ Len(s) \in Nat /\ Len(u) \in Nat
           /\ Len(s) > 0 => (s \o u)[1] = s[1]
<1>1. s \in Seq(Line) /\ u \in Seq(Line)
    BY DEF Faithful
<1>2. /\ s \o u \in Seq(Line) /\ Len(s \o u) = Len(s) + Len(u)
      /\ \A i \in 1..Len(s) + Len(u) :
             (s \o u)[i] = IF i <= Len(s) THEN s[i] ELSE u[i - Len(s)]
    BY <1>1, ConcatProperties
<1>3. Len(s) \in Nat /\ Len(u) \in Nat
    BY <1>1, LenProperties
<1>4. ASSUME NEW i \in 1..Len(s \o u)
      PROVE  (s \o u)[i].value = l[(s \o u)[i].to]
    <2>1. CASE i <= Len(s)
        BY <1>2, <1>3, <2>1 DEF Faithful
    <2>2. CASE ~(i <= Len(s))
        <3>1. i - Len(s) \in 1..Len(u) /\ (s \o u)[i] = u[i - Len(s)]
            BY <1>2, <1>3, <2>2
        <3> QED
            BY <3>1 DEF Faithful
    <2> QED
        BY <2>1, <2>2
<1> QED
    BY <1>2, <1>3, <1>4 DEF Faithful

\* A script is not empty, each of its lines writes what was asked for, and a
\* throttle that was asked for is its first line.
LEMMA WritesLines ==
    ASSUME NEW l \in Limits
    PROVE  /\ Faithful(Writes(l), l) /\ Len(Writes(l)) \in Nat \ {0}
           /\ l.high # 0 => Writes(l)[1].to = "high"
<1> DEFINE H == Asked("high", l)
           M == Asked("max", l)
           S == Asked("swap", l)
           C == Asked("cpu", l)
<1>1. l \in [high : Amount, max : Amount, swap : Amount, cpu : Amount]
    BY LimitAssumption DEF Amount
<1>2. ASSUME NEW n \in Knob
      PROVE  /\ Faithful(Asked(n, l), l)
             /\ Len(Asked(n, l)) = IF l[n] = 0 THEN 0 ELSE 1
             /\ l[n] # 0 => Asked(n, l)[1].to = n
    <2>1. \A i \in 1..Len(Asked(n, l)) : Asked(n, l)[i] = [to |-> n, value |-> l[n]]
        BY <1>1, AskedLines
    <2> QED
        BY <1>1, <2>1, AskedLines DEF Faithful
<1>3. /\ Faithful(H, l) /\ Faithful(M, l) /\ Faithful(S, l) /\ Faithful(C, l)
      /\ Len(H) = IF l.high = 0 THEN 0 ELSE 1
      /\ l.high # 0 => H[1].to = "high"
    BY <1>2 DEF Knob
<1>4. /\ Len(M) = IF l.max = 0 THEN 0 ELSE 1
      /\ Len(S) = IF l.swap = 0 THEN 0 ELSE 1
      /\ Len(C) = IF l.cpu = 0 THEN 0 ELSE 1
    BY <1>2 DEF Knob
<1>5. l.high # 0 \/ l.max # 0 \/ l.swap # 0 \/ l.cpu # 0
    BY <1>1, LimitAssumption
<1> HIDE DEF H, M, S, C
<1>6. /\ Faithful(H \o M, l) /\ Len(H \o M) = Len(H) + Len(M)
      /\ Len(H) > 0 => (H \o M)[1] = H[1]
    BY ZenonT(40), <1>3, Joined
<1>7. /\ Faithful((H \o M) \o S, l) /\ Len((H \o M) \o S) = Len(H \o M) + Len(S)
      /\ Len(H \o M) > 0 => ((H \o M) \o S)[1] = (H \o M)[1]
    BY <1>3, <1>6, Joined
<1>8. /\ Faithful(((H \o M) \o S) \o C, l)
      /\ Len(((H \o M) \o S) \o C) = Len((H \o M) \o S) + Len(C)
      /\ Len((H \o M) \o S) > 0 => (((H \o M) \o S) \o C)[1] = ((H \o M) \o S)[1]
    BY <1>3, <1>7, Joined
<1>9. Writes(l) = ((H \o M) \o S) \o C
    BY DEF Writes, H, M, S, C
<1>10. Len(Writes(l)) \in Nat \ {0}
    BY <1>3, <1>4, <1>5, <1>6, <1>7, <1>8, <1>9
<1>11. l.high # 0 => Writes(l)[1] = H[1]
    BY <1>3, <1>4, <1>6, <1>7, <1>8, <1>9
<1> QED
    BY <1>3, <1>8, <1>9, <1>10, <1>11

LEMMA ClearsLines ==
    /\ Clears \in Seq(Line) /\ Len(Clears) = 4
    /\ \A i \in 1..Len(Clears) : Clears[i].value = Top
<1>1. /\ [to |-> "max", value |-> Top] \in Line /\ [to |-> "high", value |-> Top] \in Line
      /\ [to |-> "swap", value |-> Top] \in Line /\ [to |-> "cpu", value |-> Top] \in Line
    BY LimitAssumption DEF Line, Knob
<1> QED
    BY <1>1 DEF Clears

-----------------------------------------------------------------------------
(* The invariant.                                                            *)

\* The distribution and its cgroup, which is a new one at every start.
CgroupOK ==
    /\ starts \in Nat /\ node \in 0..starts
    /\ usage \in Amount /\ (usage = 0 <=> node = 0)
    /\ cgroup \in [high : 1..Top, max : 1..Top, swap : 1..Top, cpu : 1..Top]
    /\ node # 0 => usage <= cgroup.max

\* A command that has passed the check, and its script, after n starts.
CallOK(c, n) ==
    /\ c.limits \in Limits \cup {Unlimited}
    /\ c.writes = ScriptOf(c.limits)
    /\ c.next \in 1..Len(c.writes)
    /\ c.current \in Amount
    /\ c.limits # Unlimited => CheckAgainstUsage(c.limits, c.current)
    /\ c.state \in {"writes", "left"} => c.node \in 1..n

\* Behind the first line of its script a throttle that was asked for is set,
\* unless somebody else has set another one since.
ThrottleSet(t) ==
    LET c == call[t] IN
    c.state \in {"writes", "left"} /\ c.node = node /\ c.next > 1
        /\ c.limits.high # 0 /\ c.limits # Unlimited =>
            cgroup.high = c.limits.high \/ wrote # {t}

States == {"free", "read", "writes", "left"}
Calls  == [state : States, limits : Limits \cup {Unlimited, NoLimits},
           writes : Seq(Line), next : Nat, node : Nat, current : Amount]

LimitInv ==
    /\ CgroupOK
    /\ call \in [User -> Calls]
    /\ \A t \in User :
           /\ call[t].state # "free" => CallOK(call[t], starts)
           /\ ThrottleSet(t)

\* The script of a command that has passed.
LEMMA ScriptLines ==
    ASSUME NEW l \in Limits \cup {Unlimited}
    PROVE  /\ ScriptOf(l) \in Seq(Line) /\ Len(ScriptOf(l)) \in Nat \ {0}
           /\ \A i \in 1..Len(ScriptOf(l)) :
                  ScriptOf(l)[i].value = IF l = Unlimited THEN Top ELSE l[ScriptOf(l)[i].to]
           /\ l # Unlimited /\ l.high # 0 => ScriptOf(l)[1].to = "high"
<1>1. CASE l = Unlimited
    <2>1. ScriptOf(l) = Clears
        BY <1>1 DEF ScriptOf
    <2>2. Clears \in Seq(Line) /\ Len(Clears) \in Nat \ {0}
        BY ClearsLines
    <2>3. \A i \in 1..Len(Clears) : Clears[i].value = Top
        BY ClearsLines
    <2> QED
        BY <1>1, <2>1, <2>2, <2>3
<1>2. CASE l # Unlimited
    <2>1. /\ ScriptOf(l) = Writes(l) /\ Faithful(Writes(l), l)
          /\ Len(Writes(l)) \in Nat \ {0} /\ (l.high # 0 => Writes(l)[1].to = "high")
        BY <1>2, WritesLines DEF ScriptOf
    <2> QED
        BY <1>2, <2>1 DEF Faithful
<1> QED
    BY <1>1, <1>2

LEMMA RestingCall == Resting \in Calls /\ Resting.state = "free"
<1>1. << >> \in Seq(Line) /\ 0 \in Amount
    BY LimitAssumption DEF Amount
<1> QED
    BY <1>1 DEF Resting, Calls, States

LEMMA LimitInitInv == LimitInit => LimitInv
<1> SUFFICES ASSUME LimitInit
             PROVE  LimitInv
    OBVIOUS
<1>1. CgroupOK
    BY LimitAssumption DEF LimitInit, CgroupOK, Unlimited, Amount
<1>2. \A t \in User : call[t] = Resting
    BY DEF LimitInit
<1> QED
    BY <1>1, <1>2, RestingCall DEF LimitInit, LimitInv, ThrottleSet

\* What starts the distribution makes a cgroup that no script is writing to.
LEMMA NewCall ==
    ASSUME CgroupOK, EnsureStarted
    PROVE  /\ CgroupOK' /\ node' \in 1..starts' /\ usage' \in Amount
           /\ starts <= starts'
           /\ \/ node' = node /\ cgroup' = cgroup /\ starts' = starts
              \/ node' = starts + 1
<1>1. CASE node # 0
    BY <1>1 DEF CgroupOK, EnsureStarted
<1>2. CASE node = 0
    BY <1>2, LimitAssumption DEF CgroupOK, EnsureStarted, Unlimited, Amount
<1> QED
    BY <1>1, <1>2

\* A command that does nothing stays what it was, whatever starts or stops.
LEMMA StaysOK ==
    ASSUME NEW n \in Nat, NEW m \in Nat, n <= m, NEW c, CallOK(c, n)
    PROVE  CallOK(c, m)
BY DEF CallOK

\* Of a terminal that another step does not touch, the throttle stays what it
\* was unless that step writes one, and stops counting with the cgroup.
LEMMA StaysSet ==
    ASSUME CgroupOK, NEW t \in User, NEW u, ThrottleSet(t), CallOK(call[t], starts) \/ call[t].state = "free",
           call'[t] = call[t],
           \/ node' = node /\ cgroup'.high = cgroup.high /\ wrote' = wrote
           \/ node' = node /\ wrote' = {u} /\ u # t
           \/ node' \notin 1..starts
    PROVE  ThrottleSet(t)'
BY DEF ThrottleSet, CallOK, CgroupOK

LEMMA StepRead ==
    ASSUME LimitInv, NEW t \in User, NEW l \in Limits \cup {Unlimited}, ReadCgroup(t, l)
    PROVE  LimitInv'
<1>1. /\ CgroupOK' /\ node' \in 1..starts' /\ usage' \in Amount /\ starts <= starts'
      /\ \/ node' = node /\ cgroup' = cgroup /\ starts' = starts
         \/ node' = starts + 1
    BY NewCall DEF LimitInv, ReadCgroup
<1>2. starts \in Nat /\ starts' \in Nat /\ 0 \in Amount /\ Len(ScriptOf(l)) \in Nat \ {0}
    BY <1>1, ScriptLines, LimitAssumption DEF LimitInv, CgroupOK, Amount
<1>3. PICK current \in {usage', 0} :
          call' = [call EXCEPT ![t] =
            IF layout \in {"none", "nowhere"} THEN Resting
            ELSE IF l = Unlimited THEN Passed(l, Clears, current, node')
            ELSE IF CheckAgainstUsage(l, current) THEN Passed(l, Writes(l), current, node')
            ELSE Resting]
    BY DEF ReadCgroup
<1> DEFINE New == Passed(l, ScriptOf(l), current, node')
<1>4. \/ call' = [call EXCEPT ![t] = Resting]
      \/ /\ call' = [call EXCEPT ![t] = New]
         /\ l # Unlimited => CheckAgainstUsage(l, current)
    BY <1>3 DEF ScriptOf
<1>5. /\ New \in Calls /\ New.state = "read" /\ New.limits = l /\ New.writes = ScriptOf(l)
      /\ New.next = 1 /\ New.current = current
    <2>1. ScriptOf(l) \in Seq(Line) /\ node' \in Nat /\ current \in Amount
        BY <1>1, <1>2, <1>3, ScriptLines
    <2> QED
        BY <2>1 DEF Passed, Calls, States
<1> HIDE DEF New
<1>7. call' \in [User -> Calls]
    BY <1>4, <1>5, RestingCall DEF LimitInv
<1>8. ASSUME NEW u \in User, u # t
      PROVE  (call[u].state # "free" => CallOK(call[u], starts))' /\ ThrottleSet(u)'
    <2>1. call'[u] = call[u]
        BY <1>4, <1>8 DEF LimitInv
    <2>2. (call[u].state # "free" => CallOK(call[u], starts))'
        BY <1>1, <1>2, <2>1, StaysOK DEF LimitInv
    <2>3. node' = node \/ node' \notin 1..starts
        BY <1>1, <1>2
    <2>4. wrote' = wrote
        BY DEF ReadCgroup
    <2>5. node' = node => cgroup' = cgroup
        BY <1>1, <1>2 DEF LimitInv, CgroupOK
    <2> QED
        BY <1>8, <2>1, <2>2, <2>3, <2>4, <2>5, StaysSet DEF LimitInv
<1>9. (call[t].state # "free" => CallOK(call[t], starts))' /\ ThrottleSet(t)'
    <2>1. CASE call' = [call EXCEPT ![t] = Resting]
        BY <2>1, RestingCall DEF LimitInv, ThrottleSet
    <2>2. CASE /\ call' = [call EXCEPT ![t] = New]
               /\ l # Unlimited => CheckAgainstUsage(l, current)
        <3>1. call'[t] = New
            BY <2>2 DEF LimitInv
        <3> QED
            BY <1>1, <1>2, <1>5, <2>2, <3>1 DEF CallOK, ThrottleSet, CheckAgainstUsage
    <2> QED
        BY <1>4, <2>1, <2>2
<1> QED
    BY <1>1, <1>7, <1>8, <1>9 DEF LimitInv

LEMMA StepApply ==
    ASSUME LimitInv, NEW t \in User, Apply(t)
    PROVE  LimitInv'
<1>1. /\ CgroupOK' /\ node' \in 1..starts' /\ starts <= starts'
      /\ \/ node' = node /\ cgroup' = cgroup /\ starts' = starts
         \/ node' = starts + 1
    BY NewCall DEF LimitInv, Apply
<1>2. starts \in Nat /\ starts' \in Nat /\ 0 \in Amount
    BY <1>1, LimitAssumption DEF LimitInv, CgroupOK, Amount
<1>3. CallOK(call[t], starts) /\ call[t] \in Calls /\ call[t].state = "read"
    BY DEF LimitInv, Apply
<1> DEFINE kept == IF node' = call[t].node THEN call[t].current ELSE 0
           New  == [call[t] EXCEPT !.state = "writes", !.next = 1, !.current = kept,
                                   !.node = node']
<1>4. call' = [call EXCEPT ![t] = New] /\ wrote' = wrote
    BY DEF Apply
<1>5. kept \in Amount /\ node' \in Nat
    BY <1>1, <1>2, <1>3 DEF CallOK
<1>6. /\ New \in Calls /\ New.state = "writes" /\ New.limits = call[t].limits
      /\ New.writes = call[t].writes /\ New.next = 1 /\ New.current = kept
      /\ New.node = node'
    <2> HIDE DEF kept
    <2> QED
        BY <1>3, <1>5 DEF Calls, States
<1> HIDE DEF New
<1>7. ASSUME NEW u \in User, u # t
      PROVE  (call[u].state # "free" => CallOK(call[u], starts))' /\ ThrottleSet(u)'
    <2>1. call'[u] = call[u]
        BY <1>4, <1>7 DEF LimitInv
    <2>2. (call[u].state # "free" => CallOK(call[u], starts))'
        BY <1>1, <1>2, <2>1, StaysOK DEF LimitInv
    <2>3. (node' = node /\ cgroup' = cgroup) \/ node' \notin 1..starts
        BY <1>1, <1>2
    <2> QED
        BY <1>4, <1>7, <2>1, <2>2, <2>3, StaysSet DEF LimitInv
<1>8. (call[t].state # "free" => CallOK(call[t], starts))' /\ ThrottleSet(t)'
    <2>1. call'[t] = New
        BY <1>4 DEF LimitInv
    <2>2. 1 \in 1..Len(call[t].writes)
        BY <1>3, ScriptLines DEF CallOK
    <2>3. /\ New.limits \in Limits \cup {Unlimited} /\ New.writes = ScriptOf(New.limits)
          /\ New.next \in 1..Len(New.writes) /\ New.current \in Amount
          /\ New.node \in 1..starts'
        BY <1>1, <1>3, <1>5, <1>6, <2>2 DEF CallOK
    <2>4. New.limits # Unlimited => CheckAgainstUsage(New.limits, New.current)
        BY <1>3, <1>6 DEF CallOK, CheckAgainstUsage
    <2>5. CallOK(New, starts')
        BY <2>3, <2>4 DEF CallOK
    <2>6. ThrottleSet(t)'
        BY <1>6, <2>1 DEF ThrottleSet
    <2> QED
        BY <2>1, <2>5, <2>6
<1>9. call' \in [User -> Calls]
    BY <1>4, <1>6 DEF LimitInv
<1> QED
    BY <1>1, <1>7, <1>8, <1>9 DEF LimitInv

\* A knob is turned.
LEMMA Turned ==
    ASSUME NEW c \in [high : 1..Top, max : 1..Top, swap : 1..Top, cpu : 1..Top],
           NEW n \in Knob, NEW v \in 1..Top
    PROVE  /\ [c EXCEPT ![n] = v] \in [high : 1..Top, max : 1..Top, swap : 1..Top, cpu : 1..Top]
           /\ [c EXCEPT ![n] = v].high = IF n = "high" THEN v ELSE c.high
           /\ [c EXCEPT ![n] = v].max = IF n = "max" THEN v ELSE c.max
BY DEF Knob

LEMMA StepWrite ==
    ASSUME LimitInv, NEW t \in User, WriteNext(t)
    PROVE  LimitInv'
<1> DEFINE c == call[t]
           w == c.writes[c.next]
<1>1. /\ CallOK(c, starts) /\ c \in Calls /\ c.state \in {"writes", "left"}
      /\ c.node = node /\ node \in 1..starts /\ starts' = starts /\ node' = node
    BY DEF LimitInv, WriteNext, CallOK
<1>2. w \in Line /\ (w.value = IF c.limits = Unlimited THEN Top ELSE c.limits[w.to])
    BY <1>1, ScriptLines DEF CallOK
<1>3. c.next = 1 /\ c.limits # Unlimited /\ c.limits.high # 0 => w.to = "high"
    BY <1>1, ScriptLines DEF CallOK
<1>4. \/ call' = [call EXCEPT ![t] = Resting] /\ UNCHANGED <<cgroup, usage, wrote>>
      \/ /\ cgroup' = [cgroup EXCEPT ![w.to] = w.value]
         /\ usage' \in CASE w.to = "max"  -> {IF usage > w.value THEN w.value ELSE usage}
                         [] w.to = "high" -> {u \in 1..usage : u = usage \/ u = w.value}
                         [] OTHER         -> {usage}
         /\ wrote' = IF w.to = "high" THEN {t} ELSE wrote
         /\ call' = [call EXCEPT ![t] = IF c.next = Len(c.writes) THEN Resting
                                         ELSE [c EXCEPT !.next = @ + 1]]
    BY DEF WriteNext
<1>5. CASE call' = [call EXCEPT ![t] = Resting] /\ UNCHANGED <<cgroup, usage, wrote>>
    <2>1. CgroupOK' /\ call' \in [User -> Calls]
        BY <1>1, <1>5, RestingCall DEF LimitInv, CgroupOK
    <2>2. call'[t] = Resting /\ \A u \in User : u # t => call'[u] = call[u]
        BY <1>5 DEF LimitInv
    <2>3. ASSUME NEW u \in User
          PROVE  (call[u].state # "free" => CallOK(call[u], starts))' /\ ThrottleSet(u)'
        BY <1>1, <1>5, <2>2, RestingCall DEF LimitInv, ThrottleSet
    <2> QED
        BY <2>1, <2>3 DEF LimitInv
<1>6. CASE /\ cgroup' = [cgroup EXCEPT ![w.to] = w.value]
           /\ usage' \in CASE w.to = "max"  -> {IF usage > w.value THEN w.value ELSE usage}
                           [] w.to = "high" -> {u \in 1..usage : u = usage \/ u = w.value}
                           [] OTHER         -> {usage}
           /\ wrote' = IF w.to = "high" THEN {t} ELSE wrote
           /\ call' = [call EXCEPT ![t] = IF c.next = Len(c.writes) THEN Resting
                                           ELSE [c EXCEPT !.next = @ + 1]]
    <2> DEFINE Onward == [c EXCEPT !.next = @ + 1]
    <2>1. /\ cgroup' \in [high : 1..Top, max : 1..Top, swap : 1..Top, cpu : 1..Top]
          /\ cgroup'.high = IF w.to = "high" THEN w.value ELSE cgroup.high
          /\ cgroup'.max = IF w.to = "max" THEN w.value ELSE cgroup.max
        BY <1>2, <1>6, Turned DEF LimitInv, CgroupOK, Line
    <2>2. /\ usage \in 1..Top - 1 /\ usage <= cgroup.max /\ cgroup.max \in 1..Top
          /\ w.value \in 1..Top /\ Top \in Nat
        BY <1>1, <1>2, LimitAssumption DEF LimitInv, CgroupOK, Amount, Line
    <2>3. usage' \in 1..Top - 1 /\ usage' <= cgroup'.max
        <3>1. CASE w.to = "max"
            BY SMTT(30), <1>6, <2>1, <2>2, <3>1
        <3>2. CASE w.to = "high"
            <4>1. usage' \in 1..usage
                BY <1>6, <3>2
            <4> QED
                BY <2>1, <2>2, <3>2, <4>1
        <3>3. CASE w.to # "max" /\ w.to # "high"
            BY <1>6, <2>1, <2>2, <3>3
        <3> QED
            BY <3>1, <3>2, <3>3
    <2>4. CgroupOK'
        BY <1>1, <2>1, <2>2, <2>3 DEF LimitInv, CgroupOK, Amount
    <2>5. /\ Onward \in Calls /\ Onward.state = c.state /\ Onward.limits = c.limits
          /\ Onward.writes = c.writes /\ Onward.next = c.next + 1
          /\ Onward.current = c.current /\ Onward.node = c.node
        BY <1>1 DEF Calls
    <2> HIDE DEF Onward
    <2>6. call'[t] = (IF c.next = Len(c.writes) THEN Resting ELSE Onward)
        BY <1>6 DEF LimitInv, Onward
    <2>7. \A u \in User : u # t => call'[u] = call[u]
        BY <1>6 DEF LimitInv
    <2>8. call' \in [User -> Calls]
        BY <1>6, <2>5, RestingCall DEF LimitInv, Onward
    <2>9. ASSUME NEW u \in User, u # t
          PROVE  (call[u].state # "free" => CallOK(call[u], starts))' /\ ThrottleSet(u)'
        <3>1. call'[u] = call[u] /\ ThrottleSet(u)
            BY SMTT(30), <2>7, <2>9 DEF LimitInv
        <3>2. ThrottleSet(u)'
            BY <1>1, <1>6, <2>1, <2>9, <3>1 DEF ThrottleSet
        <3> QED
            BY <1>1, <3>1, <3>2 DEF LimitInv
    <2>10. (call[t].state # "free" => CallOK(call[t], starts))' /\ ThrottleSet(t)'
        <3>1. CASE c.next = Len(c.writes)
            BY <2>6, <3>1, RestingCall DEF ThrottleSet
        <3>2. CASE c.next # Len(c.writes)
            <4>1. call'[t] = Onward
                BY <2>6, <3>2
            <4>2. c.next + 1 \in 1..Len(c.writes)
                BY <1>1, <3>2, ScriptLines DEF CallOK
            <4>3. CallOK(Onward, starts')
                BY <1>1, <2>5, <4>2 DEF CallOK
            <4>4. /\ c.limits.high # 0 /\ c.limits # Unlimited =>
                          cgroup'.high = c.limits.high \/ wrote' # {t}
                <5>1. ThrottleSet(t) /\ c.next \in Nat /\ c.next >= 1
                    BY <1>1, ScriptLines DEF LimitInv, CallOK
                <5>2. CASE w.to = "high"
                    BY SMTT(30), <1>2, <2>1, <5>2
                <5>3. CASE w.to # "high"
                    BY <1>1, <1>3, <1>6, <2>1, <5>1, <5>3 DEF ThrottleSet
                <5> QED
                    BY <5>2, <5>3
            <4>5. ThrottleSet(t)'
                BY <2>5, <4>1, <4>4 DEF ThrottleSet
            <4> QED
                BY <4>1, <4>3, <4>5
        <3> QED
            BY <3>1, <3>2
    <2> QED
        BY SMTT(30), <2>4, <2>8, <2>9, <2>10 DEF LimitInv
<1> QED
    BY <1>4, <1>5, <1>6

\* What a terminal does besides, and what happens around it.
LEMMA StepElse ==
    ASSUME LimitInv,
           UNCHANGED limitVars \/ Stop \/ Uses
               \/ \E t \in User : ScriptGone(t) \/ GivesUp(t)
    PROVE  LimitInv'
<1>1. CASE UNCHANGED limitVars
    BY <1>1 DEF limitVars, LimitInv, CgroupOK, ThrottleSet
<1>2. CASE Stop
    <2>1. CgroupOK'
        BY <1>2, LimitAssumption DEF Stop, LimitInv, CgroupOK, Amount
    <2>2. ASSUME NEW t \in User
          PROVE  ThrottleSet(t)'
        BY <1>2, <2>2 DEF Stop, LimitInv, ThrottleSet, CallOK
    <2> QED
        BY <1>2, <2>1, <2>2 DEF Stop, LimitInv
<1>3. CASE Uses
    <2>1. CgroupOK'
        BY <1>3, LimitAssumption DEF Uses, LimitInv, CgroupOK, Amount
    <2> QED
        BY <1>3, <2>1 DEF Uses, LimitInv, ThrottleSet
<1>4. ASSUME NEW t \in User, ScriptGone(t)
      PROVE  LimitInv'
    <2>1. CgroupOK' /\ call' \in [User -> Calls]
        BY <1>4, RestingCall DEF ScriptGone, LimitInv, CgroupOK
    <2>2. call'[t] = Resting /\ \A u \in User : u # t => call'[u] = call[u]
        BY <1>4 DEF ScriptGone, LimitInv
    <2>3. ASSUME NEW u \in User
          PROVE  (call[u].state # "free" => CallOK(call[u], starts))' /\ ThrottleSet(u)'
        BY <1>4, <2>2, RestingCall DEF ScriptGone, LimitInv, ThrottleSet
    <2> QED
        BY <2>1, <2>3 DEF LimitInv
<1>5. ASSUME NEW t \in User, GivesUp(t)
      PROVE  LimitInv'
    <2> DEFINE New == [call[t] EXCEPT !.state = "left"]
    <2>1. call[t] \in Calls /\ call[t].state = "writes" /\ call' = [call EXCEPT ![t] = New]
        BY <1>5 DEF GivesUp, LimitInv
    <2>2. /\ New \in Calls /\ New.state = "left" /\ New.limits = call[t].limits
          /\ New.writes = call[t].writes /\ New.next = call[t].next
          /\ New.current = call[t].current /\ New.node = call[t].node
        BY <2>1 DEF Calls, States
    <2> HIDE DEF New
    <2>3. CgroupOK' /\ call' \in [User -> Calls]
        BY <1>5, <2>1, <2>2 DEF GivesUp, LimitInv, CgroupOK
    <2>4. call'[t] = New /\ \A u \in User : u # t => call'[u] = call[u]
        BY <2>1 DEF LimitInv
    <2>5. CallOK(New, starts') /\ ThrottleSet(t)'
        BY <1>5, <2>1, <2>2, <2>4 DEF GivesUp, LimitInv, CallOK, ThrottleSet
    <2>6. ASSUME NEW u \in User
          PROVE  (call[u].state # "free" => CallOK(call[u], starts))' /\ ThrottleSet(u)'
        BY <1>5, <2>4, <2>5, <2>6 DEF GivesUp, LimitInv, ThrottleSet
    <2> QED
        BY <2>3, <2>6 DEF LimitInv
<1> QED
    BY <1>1, <1>2, <1>3, <1>4, <1>5

LEMMA LimitStepInv == LimitInv /\ [LimitNext]_limitVars => LimitInv'
BY StepRead, StepApply, StepWrite, StepElse DEF LimitNext

\* Of a ceiling that is written: what the invariant says of its script.
LEMMA SafeWrite ==
    ASSUME LimitInv, NEW t \in User, WriteNext(t),
           call[t].writes[call[t].next].to = "max"
    PROVE  LET c == call[t] w == c.writes[c.next] IN
           /\ usage > w.value => usage > c.current
           /\ c.limits.high # 0 /\ c.limits # Unlimited =>
                  cgroup.high = c.limits.high \/ wrote # {t}
<1> DEFINE c == call[t]
           w == c.writes[c.next]
<1>1. /\ CallOK(c, starts) /\ c.state \in {"writes", "left"} /\ c.node = node
      /\ ThrottleSet(t) /\ usage \in Amount
    BY DEF LimitInv, WriteNext, CgroupOK
<1>2. w.value = IF c.limits = Unlimited THEN Top ELSE c.limits.max
    BY <1>1, ScriptLines DEF CallOK
<1>3. usage > w.value => usage > c.current
    <2>1. CASE c.limits = Unlimited
        BY <1>1, <1>2, <2>1, LimitAssumption DEF Amount
    <2>2. CASE c.limits # Unlimited
        <3>1. c.limits.max \in Amount /\ c.current \in Amount
            BY <1>1, <2>2, LimitAssumption DEF CallOK, Amount
        <3>2. w.value # 0
            <4>1. c.writes \in Seq(Line) /\ c.next \in 1..Len(c.writes)
                BY <1>1, ScriptLines DEF CallOK
            <4>2. w \in Line
                BY <4>1, ElementOfSeq
            <4> QED
                BY <4>2, LimitAssumption DEF Line
        <3> QED
            BY <1>1, <1>2, <2>2, <3>1, <3>2, LimitAssumption
               DEF CallOK, CheckAgainstUsage, Amount
    <2> QED
        BY <2>1, <2>2
<1>4. c.limits.high # 0 /\ c.limits # Unlimited => cgroup.high = c.limits.high \/ wrote # {t}
    <2> SUFFICES ASSUME c.limits.high # 0, c.limits # Unlimited
                 PROVE  c.next > 1
        BY <1>1 DEF ThrottleSet
    <2>1. c.next # 1
        BY <1>1, ScriptLines DEF CallOK
    <2> QED
        BY <1>1, <2>1, ScriptLines DEF CallOK
<1> QED
    BY <1>3, <1>4

\* A ceiling that is written kills only what came since the figure was read, or
\* when it could not be, and a throttle that was asked for as well is there
\* before it (Plan, CheckAgainstUsage, WriteScript).
THEOREM SafeCeilings == ChangesSpec => CeilingsAreSafe
<1>1. LimitInv =>
        \A t \in User :
            LET c == call[t] w == c.writes[c.next] IN
            WriteNext(t) /\ cgroup'.max # cgroup.max /\ w.to = "max" =>
                /\ usage > w.value => usage > c.current
                /\ c.limits.high # 0 /\ c.limits # Unlimited =>
                       cgroup.high = c.limits.high \/ wrote # {t}
    BY SafeWrite
<1>2. ChangesInit => LimitInv
    BY LimitInitInv DEF ChangesInit
<1>3. LimitInv /\ [ChangesNext]_changesVars => LimitInv'
    BY LimitStepInv DEF ChangesNext, changesVars
<1> QED
    BY <1>1, <1>2, <1>3, PTL DEF ChangesSpec, CeilingsAreSafe

-----------------------------------------------------------------------------
(* The forward proxy.                                                      *)

End     == [sent : Seq(Int), read : Nat, came : Seq(Int), closed : BOOLEAN,
            broken : BOOLEAN, told : BOOLEAN]
Route   == DOMAIN Routes
Request == [step : {"idle", "asks", "dials", "awaits", "forwards", "hijacks", "drains",
                    "tunnels", "refused", "ended"},
            plain : BOOLEAN, of : Route \cup {0}, way : Seq(Upstreams),
            left : Seq(Upstreams), tried : Nat, open : BOOLEAN, client : End, far : End]
Answer  == [at : Nat, way : Seq(Upstreams), of : Route \cup {0}]

\* How much of what comes from the far end is the proxy's, and not for the client.
Preface(r) == IF Direct(r) THEN 0 ELSE 2

\* Nothing of an end has gone to the other, or all that was read of it, behind
\* the first n.
Untouched(e) == e.came = << >> /\ ~e.told
HandedOn(e, n) ==
    /\ e.read = Len(e.came) + n /\ e.read <= Len(e.sent)
    /\ \A i \in 1..Len(e.came) : e.came[i] = e.sent[n + i]

\* The other end knows that this one has closed, and all of it was read.
ToldAll(e) == e.told => e.closed /\ e.read = Len(e.sent)

\* The proxies that are left are those that were not tried.
TriesOK(r) ==
    /\ r.step \in {"dials", "awaits"} => Len(r.left) + r.tried = Len(r.way)
    /\ r.step = "asks" => r.tried = 0
    /\ r.step = "refused" /\ ~r.plain /\ r.tried > 0 /\ ~Direct(r) => r.tried = Len(r.way)

\* No byte of the tunnel is read before the tunnel is there: of the answer of a
\* proxy, its header alone.
AnswerOK(r) ==
    /\ r.step \in {"asks", "dials", "forwards"} => r.far = End0
    /\ r.step = "awaits" =>
           /\ ~Direct(r) /\ r.far.read \in 0..1 /\ r.far.read <= Len(r.far.sent)
           /\ \A i \in 1..Len(r.far.sent) : r.far.sent[i] = Blank <=> i = 2
    /\ r.step \in {"hijacks", "drains"} =>
           r.far.read = Preface(r) /\ r.far.read <= Len(r.far.sent)

TunnelOK(r) ==
    /\ Unbroken(r) => ToldAll(r.client) /\ ToldAll(r.far)
    /\ r.step \in {"asks", "dials", "awaits", "forwards"} => r.client.read = 0
    /\ r.step \in {"hijacks", "drains"} => r.client.read <= Len(r.client.sent)
    /\ r.step \notin {"tunnels", "ended"} => Untouched(r.client) /\ Untouched(r.far)
    /\ r.step = "tunnels" => HandedOn(r.client, 0) /\ HandedOn(r.far, Preface(r))
    /\ r.step = "ended" => /\ Untouched(r.client) \/ HandedOn(r.client, 0)
                           /\ Untouched(r.far) \/ HandedOn(r.far, Preface(r))

RequestOK(r) ==
    /\ r \in Request /\ (r.step = "asks" => r.of \in Route)
    /\ TriesOK(r) /\ AnswerOK(r) /\ TunnelOK(r)

\* An answer that is kept is of a network, and of this one, or it was there
\* before the machine moved or came in after that.  A script answers with the
\* way of the network.
CacheOK ==
    /\ config \in {"script", "settings"}
    /\ clock \in Nat /\ movedAt \in Nat /\ lateAt \in Nat /\ network \in Route /\ entry \in Answer
    /\ entry.at <= clock
    /\ entry.of # 0 => entry.way = WayOf(entry.of)
    /\ entry.of # 0 /\ entry.of # network => entry.at <= movedAt \/ entry.at <= lateAt

\* The inductive invariant of the forward proxy.
ServeInv ==
    /\ CacheOK /\ request \in [Client -> Request]
    /\ \A c \in Client : RequestOK(request[c])

LEMMA RouteFacts ==
    /\ 1 \in Route /\ Route \subseteq Nat \ {0} /\ Route = 1..Len(Routes) /\ Len(Routes) \in Nat
    /\ \A n \in Route : Routes[n] \in Seq(Upstreams) /\ WayOf(n) \in Seq(Upstreams)
<1> DEFINE W == Seq(Upstreams)
<1>1. Routes \in Seq(W) /\ Routes # << >>
    BY ServeAssumption
<1> HIDE DEF W
<1>2. /\ 1 \in Route /\ Route \subseteq Nat \ {0} /\ Route = 1..Len(Routes) /\ Len(Routes) \in Nat
      /\ \A n \in Route : Routes[n] \in W
    BY <1>1 DEF Route
<1>3. \A n \in Route : WayOf(n) \in W
    <2>1. Routes[1] \in Seq(Upstreams)
        BY <1>2 DEF W
    <2>2. Routes[1] # << >> => <<Head(Routes[1])>> \in Seq(Upstreams)
        BY <2>1
    <2>3. << >> \in Seq(Upstreams)
        OBVIOUS
    <2> QED
        BY <1>2, <2>2, <2>3 DEF WayOf, W
<1> QED
    BY <1>2, <1>3 DEF W

LEMMA IdleOK == RequestOK(Idle) /\ Idle.step = "idle" /\ End0 \in End
<1>1. End0 \in End /\ Untouched(End0)
    BY DEF End0, End, Untouched
<1>2. << >> \in Seq(Upstreams)
    OBVIOUS
<1>3. Idle \in Request /\ Idle.step = "idle" /\ Idle.client = End0 /\ Idle.far = End0
    BY <1>1, <1>2 DEF Idle, Request
<1> QED
    BY <1>1, <1>3
    DEF RequestOK, TriesOK, AnswerOK, TunnelOK, Unbroken, ToldAll, Untouched

LEMMA ServeInitInv == ServeInit => ServeInv
<1> SUFFICES ASSUME ServeInit
             PROVE  ServeInv
    OBVIOUS
<1>1. entry \in Answer /\ entry.of = 0 /\ entry.at = 0
    BY DEF ServeInit, NoEntry, Answer
<1>2. CacheOK
    BY <1>1, RouteFacts DEF ServeInit, CacheOK, WayOf
<1>3. Idle \in Request /\ RequestOK(Idle)
    BY IdleOK DEF RequestOK
<1> QED
    BY <1>2, <1>3 DEF ServeInit, ServeInv

\* What is there of a request has gone on as it should, whatever it has come to.
LEMMA CompleteWhenOK ==
    ASSUME NEW r, RequestOK(r)
    PROVE  Complete(r)
<1>1. r \in Request /\ r.client \in End /\ r.far \in End
    BY DEF RequestOK, Request
<1>2. /\ r.client.sent \in Seq(Int) /\ r.client.came \in Seq(Int)
      /\ r.far.sent \in Seq(Int) /\ r.far.came \in Seq(Int)
    BY <1>1 DEF End
<1>3. r.step = "refused" /\ ~r.plain /\ r.tried > 0 /\ ~Direct(r) => r.tried = Len(r.way)
    BY DEF RequestOK, TriesOK
<1>4. ASSUME NEW s \in Seq(Int), NEW came \in Seq(Int), came = << >>
      PROVE  IsPrefix(came, s)
    BY <1>4 DEF IsPrefix
<1>5. ASSUME NEW e \in End, NEW n \in 0..2, HandedOn(e, n)
      PROVE  LET s == SubSeq(e.sent, n + 1, Len(e.sent)) IN
             IsPrefix(e.came, s) /\ (e.told /\ ToldAll(e) => e.came = s)
    <2> DEFINE s == SubSeq(e.sent, n + 1, Len(e.sent))
    <2>1. e.sent \in Seq(Int) /\ e.came \in Seq(Int) /\ e.read \in Nat
        BY DEF End
    <2>2. /\ Len(e.came) + n <= Len(e.sent)
          /\ \A i \in 1..Len(e.came) : e.came[i] = e.sent[n + i]
        BY <1>5, <2>1 DEF HandedOn
    <2>3. s \in Seq(Int) /\ Len(s) = Len(e.sent) - n /\ \A i \in 1..Len(s) : s[i] = e.sent[n + i]
        BY <2>1, <2>2
    <2>4. Len(e.came) <= Len(s) /\ \A i \in 1..Len(e.came) : e.came[i] = s[i]
        BY <2>1, <2>2, <2>3
    <2> HIDE DEF s
    <2>5. SubSeq(e.came, 1, Len(e.came)) = SubSeq(s, 1, Len(e.came))
        BY <2>1, <2>3, <2>4
    <2>6. IsPrefix(e.came, s)
        BY <2>4, <2>5 DEF IsPrefix
    <2>7. e.told /\ ToldAll(e) => Len(e.came) = Len(s)
        BY <1>5, <2>1, <2>3 DEF HandedOn, ToldAll
    <2>8. e.told /\ ToldAll(e) => e.came = s
        BY <2>1, <2>3, <2>4, <2>7, SeqEqual
    <2> QED
        BY <2>6, <2>8 DEF s
<1>0. Unbroken(r) => ToldAll(r.client) /\ ToldAll(r.far)
    BY DEF RequestOK, TunnelOK, Unbroken, ToldAll, Untouched
<1>6. /\ IsPrefix(r.client.came, r.client.sent)
      /\ r.client.told /\ ToldAll(r.client) => r.client.came = r.client.sent
    <2>1. CASE Untouched(r.client)
        BY <1>2, <1>4, <2>1 DEF Untouched
    <2>2. CASE HandedOn(r.client, 0)
        <3>1. SubSeq(r.client.sent, 0 + 1, Len(r.client.sent)) = r.client.sent
            BY <1>2, SubSeqFull
        <3> DEFINE s == SubSeq(r.client.sent, 0 + 1, Len(r.client.sent))
        <3>2. IsPrefix(r.client.came, s) /\ (r.client.told /\ ToldAll(r.client) => r.client.came = s)
            BY <1>1, <1>5, <2>2
        <3> QED
            BY <3>1, <3>2
    <2> QED
        BY <2>1, <2>2 DEF RequestOK, TunnelOK, Unbroken, ToldAll, Untouched
<1>7. /\ IsPrefix(r.far.came, Payload(r))
      /\ r.far.told /\ ToldAll(r.far) => r.far.came = Payload(r)
    <2>1. Payload(r) \in Seq(Int)
        BY <1>2 DEF Payload, Header, Blank
    <2>2. CASE Untouched(r.far)
        BY <1>2, <1>4, <2>1, <2>2 DEF Untouched
    <2>3. CASE ~Untouched(r.far)
        <3>1. r.step \in {"tunnels", "ended"} /\ HandedOn(r.far, Preface(r))
            BY <2>3 DEF RequestOK, TunnelOK, Unbroken, ToldAll, Untouched
        <3>2. Len(Header) = 2
            BY DEF Header
        <3>3. Payload(r) = SubSeq(r.far.sent, Preface(r) + 1, Len(r.far.sent))
            BY <3>1, <3>2 DEF Payload, Preface
        <3>4. Preface(r) \in 0..2
            BY DEF Preface
        <3> QED
            BY <1>1, <1>5, <3>1, <3>3, <3>4
    <2> QED
        BY <2>2, <2>3
<1> QED
    BY <1>0, <1>3, <1>6, <1>7 DEF Complete

\* One part of an end changes.
WithSent(e, s)       == [e EXCEPT !.sent = s]
WithRead(e, n)       == [e EXCEPT !.read = n]
WithCame(e, s)       == [e EXCEPT !.came = s]
WithReadCame(e, n, s) == [e EXCEPT !.read = n, !.came = s]

LEMMA SentUpdates ==
    ASSUME NEW e \in End, NEW s \in Seq(Int)
    PROVE  /\ WithSent(e, s) \in End /\ WithSent(e, s).sent = s
           /\ WithSent(e, s).came = e.came /\ WithSent(e, s).read = e.read
           /\ WithSent(e, s).told = e.told
           /\ WithSent(e, s).closed = e.closed /\ WithSent(e, s).broken = e.broken
BY DEF End, WithSent

LEMMA ReadUpdates ==
    ASSUME NEW e \in End, NEW n \in Nat
    PROVE  /\ WithRead(e, n) \in End /\ WithRead(e, n).sent = e.sent
           /\ WithRead(e, n).came = e.came /\ WithRead(e, n).read = n
           /\ WithRead(e, n).told = e.told
           /\ WithRead(e, n).closed = e.closed /\ WithRead(e, n).broken = e.broken
BY DEF End, WithRead

LEMMA CameUpdates ==
    ASSUME NEW e \in End, NEW s \in Seq(Int)
    PROVE  /\ WithCame(e, s) \in End /\ WithCame(e, s).sent = e.sent
           /\ WithCame(e, s).came = s /\ WithCame(e, s).read = e.read
           /\ WithCame(e, s).told = e.told
           /\ WithCame(e, s).closed = e.closed /\ WithCame(e, s).broken = e.broken
BY DEF End, WithCame

LEMMA ReadCameUpdates ==
    ASSUME NEW e \in End, NEW s \in Seq(Int), NEW n \in Nat
    PROVE  /\ WithReadCame(e, n, s) \in End /\ WithReadCame(e, n, s).sent = e.sent
           /\ WithReadCame(e, n, s).came = s /\ WithReadCame(e, n, s).read = n
           /\ WithReadCame(e, n, s).told = e.told
           /\ WithReadCame(e, n, s).closed = e.closed /\ WithReadCame(e, n, s).broken = e.broken
BY DEF End, WithReadCame

\* A request that goes on as it should leaves all else as it was.
LEMMA RequestMoves ==
    ASSUME ServeInv, NEW c \in Client, NEW r, RequestOK(r), Becomes(c, r), CacheOK'
    PROVE  ServeInv'
<1>1. r \in Request /\ request \in [Client -> Request]
    BY DEF RequestOK, ServeInv
<1>2. /\ request' \in [Client -> Request] /\ request'[c] = r
      /\ \A d \in Client \ {c} : request'[d] = request[d]
    BY <1>1 DEF Becomes
<1>3. \A d \in Client : RequestOK(request'[d])
    BY <1>2 DEF ServeInv
<1> QED
    BY <1>2, <1>3 DEF ServeInv

\* Nothing is tried for a request that goes by an answer, and nothing has come.
LEMMA GoesByOK ==
    ASSUME NEW r, RequestOK(r), r.step \in {"idle", "asks"}, r.tried = 0, r.far = End0,
           r.client.read = 0, NEW way \in Seq(Upstreams)
    PROVE  RequestOK(GoesBy(r, way))
<1> DEFINE z == GoesBy(r, way)
<1>1. r \in Request /\ Len(way) \in Nat
    BY DEF RequestOK
<1>2. /\ z \in Request /\ z.step = "dials" /\ z.left = way /\ z.way = way /\ z.tried = 0
      /\ z.far = End0 /\ z.client = r.client
    BY <1>1 DEF GoesBy, Request
<1> HIDE DEF z
<1>3. Untouched(z.client) /\ Untouched(z.far)
    BY <1>2 DEF RequestOK, TunnelOK, Unbroken, ToldAll, Untouched
<1> QED
    BY <1>1, <1>2, <1>3
    DEF RequestOK, TriesOK, AnswerOK, TunnelOK, z, Unbroken, ToldAll, Untouched

LEMMA ArrivesKeeps ==
    ASSUME ServeInv, NEW c \in Client, Arrives(c)
    PROVE  ServeInv'
<1> DEFINE b == c \in Plain
           r == [Idle EXCEPT !.plain = b]
           q == [r EXCEPT !.step = "asks", !.of = network]
<1>1. /\ UNCHANGED <<clock, config, network, movedAt, entry, lateAt>>
      /\ Becomes(c, IF Valid(entry) THEN GoesBy(r, entry.way) ELSE q)
    BY DEF Arrives, Same
<1>2. CacheOK /\ CacheOK'
    BY <1>1 DEF ServeInv, CacheOK, WayOf
<1>3. /\ Idle \in Request /\ Idle.step = "idle" /\ Idle.tried = 0 /\ Idle.far = End0
      /\ Idle.client = End0 /\ End0.read = 0 /\ Untouched(End0)
    BY IdleOK DEF RequestOK, Idle, End0, Untouched
<1>0. b \in BOOLEAN
    OBVIOUS
<1> HIDE DEF b
<1>4. /\ r \in Request /\ r.step = "idle" /\ r.tried = 0 /\ r.far = End0 /\ r.client = End0
    BY <1>0, <1>3 DEF Request
<1>5. RequestOK(r)
    BY <1>3, <1>4
    DEF RequestOK, TriesOK, AnswerOK, TunnelOK, Unbroken, ToldAll, Untouched
<1>6. /\ q \in Request /\ q.step = "asks" /\ q.of = network /\ q.tried = 0 /\ q.far = End0
      /\ q.client = End0
    BY <1>2, <1>4 DEF CacheOK, Request, WayOf
<1>7. RequestOK(q)
    BY <1>2, <1>3, <1>6
    DEF RequestOK, TriesOK, AnswerOK, TunnelOK, CacheOK, Unbroken, ToldAll, Untouched, WayOf
<1>8. entry.way \in Seq(Upstreams)
    BY <1>2 DEF CacheOK, Answer, WayOf
<1> HIDE DEF r, q
<1>9. Valid(entry) => RequestOK(GoesBy(r, entry.way))
    BY <1>3, <1>4, <1>5, <1>8, GoesByOK
<1> QED
    BY <1>1, <1>2, <1>7, <1>9, RequestMoves

\* A request that is turned away has tried all it can, or nothing.
LEMMA TurnedAwayOK ==
    ASSUME NEW r \in Request, Untouched(r.client), Untouched(r.far),
           ~r.plain /\ r.tried > 0 /\ ~Direct(r) => r.tried = Len(r.way)
    PROVE  RequestOK(TurnedAway(r))
<1> DEFINE z == TurnedAway(r)
<1>1. /\ z \in Request /\ z.step = "refused" /\ z.way = r.way /\ z.client = r.client
      /\ z.far = r.far /\ z.tried = r.tried /\ z.plain = r.plain
    BY DEF TurnedAway, Request
<1> HIDE DEF z
<1>2. Direct(z) <=> Direct(r)
    BY <1>1 DEF Direct
<1> QED
    BY <1>1, <1>2
    DEF RequestOK, TriesOK, AnswerOK, TunnelOK, z, Unbroken, ToldAll, Untouched

LEMMA AnsweredKeeps ==
    ASSUME ServeInv, NEW c \in Client, Answered(c)
    PROVE  ServeInv'
<1> DEFINE r == request[c]
<1> DEFINE a == [at |-> clock, way |-> WayOf(r.of), of |-> r.of]
<1>1. RequestOK(r) /\ r \in Request /\ r.step = "asks" /\ r.of \in Route /\ CacheOK
    BY DEF Answered, ServeInv, RequestOK
<1>2. /\ r.tried = 0 /\ r.far = End0 /\ r.client.read = 0
      /\ Untouched(r.client) /\ Untouched(r.far)
    BY <1>1 DEF RequestOK, TriesOK, AnswerOK, TunnelOK, Unbroken, ToldAll, Untouched
<1>3. CASE /\ entry' = a /\ Becomes(c, GoesBy(r, WayOf(r.of)))
           /\ lateAt' = IF r.of = network THEN lateAt ELSE clock
           /\ Same
    <2>1. a \in Answer /\ a.at = clock /\ a.of = r.of /\ a.way = WayOf(r.of)
        BY <1>1, RouteFacts DEF CacheOK, Answer, WayOf
    <2> HIDE DEF a
    <2>2. CacheOK'
        BY <1>1, <1>3, <2>1 DEF CacheOK, Same, WayOf
    <2>3. RequestOK(GoesBy(r, WayOf(r.of)))
        BY <1>1, <1>2, RouteFacts, GoesByOK
    <2> QED
        BY <1>3, <2>2, <2>3, RequestMoves
<1>4. CASE Becomes(c, TurnedAway(r)) /\ UNCHANGED <<entry, lateAt>> /\ Same
    <2>1. CacheOK'
        BY <1>1, <1>4 DEF CacheOK, Same, WayOf
    <2>2. RequestOK(TurnedAway(r))
        BY <1>1, <1>2, TurnedAwayOK
    <2> QED
        BY <1>4, <2>1, <2>2, RequestMoves
<1> QED
    BY <1>3, <1>4 DEF Answered

\* What is left is one less, and what was tried one more.
LEMMA TriesKeeps ==
    ASSUME ServeInv, NEW c \in Client, Tries(c)
    PROVE  ServeInv'
<1> DEFINE r == request[c]
           more == r.left # << >>
           others == IF more THEN Tail(r.left) ELSE r.left
           tries == [r EXCEPT !.tried = @ + 1, !.left = others]
           step == IF r.plain THEN "forwards" ELSE IF Direct(r) THEN "hijacks" ELSE "awaits"
           open == [tries EXCEPT !.open = TRUE, !.step = step]
<1>1. RequestOK(r) /\ r \in Request /\ r.step = "dials" /\ CacheOK'
    BY DEF Tries, Same, ServeInv, RequestOK, CacheOK, WayOf
<1>2. /\ Len(r.left) + r.tried = Len(r.way) /\ r.far = End0 /\ r.client.read = 0
      /\ Untouched(r.client) /\ Untouched(r.far) /\ r.left \in Seq(Upstreams) /\ r.tried \in Nat
      /\ r.way \in Seq(Upstreams) /\ Len(r.way) \in Nat
    BY <1>1
    DEF RequestOK, TriesOK, AnswerOK, TunnelOK, Request, Unbroken, ToldAll, Untouched
<1>3. /\ others \in Seq(Upstreams) /\ (more => Len(others) + 1 = Len(r.left)) /\ Len(others) \in Nat
      /\ more => Len(others) + (r.tried + 1) = Len(r.way)
    <2>1. /\ others \in Seq(Upstreams) /\ (more => Len(others) + 1 = Len(r.left)) /\ Len(others) \in Nat
          /\ Len(r.left) \in Nat /\ Len(r.way) \in Nat
        BY <1>2
    <2> DEFINE a == Len(others)
               b == Len(r.left)
               t == r.tried
               l == Len(r.way)
    <2>2. a \in Nat /\ b \in Nat /\ t \in Nat /\ l \in Nat /\ b + t = l /\ (more => a + 1 = b)
        BY <1>2, <2>1
    <2> HIDE DEF a, b, t, l, more
    <2>3. more => a + (t + 1) = l
        BY <2>2
    <2>4. more => Len(others) + (r.tried + 1) = Len(r.way)
        BY <2>3 DEF a, t, l
    <2> HIDE DEF others
    <2> QED
        BY <2>1, <2>4
<1>4. Direct(r) => ~more
    BY <1>2 DEF Direct
<1> HIDE DEF others, more
<1>5. /\ tries \in Request /\ tries.step = "dials" /\ tries.way = r.way /\ tries.left = others
      /\ tries.tried = r.tried + 1 /\ tries.far = End0 /\ tries.client = r.client
      /\ tries.plain = r.plain
    <2> DEFINE k == r.tried + 1
    <2>1. k \in Nat
        BY <1>2
    <2> HIDE DEF k
    <2>2. [r EXCEPT !.tried = k, !.left = others] \in Request
        BY <1>1, <1>3, <2>1 DEF Request
    <2> QED
        BY <1>1, <1>2, <2>2 DEF Request, k
<1> HIDE DEF tries
<1>6. Direct(tries) <=> Direct(r)
    BY <1>5 DEF Direct
<1>7. \/ (Direct(r) \/ more) /\ Becomes(c, open)
      \/ Direct(r) /\ Becomes(c, TurnedAway(tries))
      \/ more /\ Becomes(c, IF r.plain \/ Tail(r.left) = << >> THEN TurnedAway(tries) ELSE tries)
    BY DEF Tries, tries, others, more
<1>8. ASSUME Direct(r) \/ more
      PROVE  RequestOK(open)
    <2>1. step \in {"forwards", "hijacks", "awaits"}
        OBVIOUS
    <2>2. /\ open \in Request /\ open.step = step /\ open.way = r.way /\ open.left = others
          /\ open.tried = r.tried + 1 /\ open.far = End0 /\ open.client = r.client
        BY <1>5, <2>1 DEF Request
    <2>3. step = "awaits" => ~Direct(r) /\ more
        BY <1>8
    <2>4. step = "hijacks" => Direct(r)
        OBVIOUS
    <2> HIDE DEF open, step
    <2>5. Direct(open) <=> Direct(r)
        BY <2>2 DEF Direct
    <2>6. TriesOK(open)
        <3>1. step = "awaits" => Len(others) + (r.tried + 1) = Len(r.way)
            BY <1>3, <2>3
        <3> QED
            BY <2>1, <2>2, <3>1 DEF TriesOK
    <2>7. Untouched(open.client) /\ Untouched(open.far)
        BY <1>2, <2>2
    <2>8. End0.read = 0 /\ End0.sent = << >> /\ Len(End0.sent) = 0
        BY DEF End0
    <2>9. AnswerOK(open)
        BY <2>1, <2>2, <2>3, <2>4, <2>5, <2>8 DEF AnswerOK, Preface
    <2>10. 0 <= Len(r.client.sent)
        BY <1>1 DEF Request, End
    <2>11. TunnelOK(open)
        BY <1>2, <2>1, <2>2, <2>7, <2>10 DEF TunnelOK, Unbroken, ToldAll, Untouched
    <2> QED
        BY <2>1, <2>2, <2>6, <2>9, <2>11 DEF RequestOK
<1>9. ASSUME Direct(r) \/ (more /\ (r.plain \/ Tail(r.left) = << >>))
      PROVE  RequestOK(TurnedAway(tries))
    <2>1. ~r.plain /\ ~Direct(r) => tries.tried = Len(r.way)
        <3>1. ~r.plain /\ ~Direct(r) => more /\ others = << >>
            BY <1>9 DEF others
        <3>2. ~r.plain /\ ~Direct(r) => Len(others) = 0
            BY <3>1
        <3> QED
            BY <1>2, <1>3, <1>5, <3>1, <3>2
    <2> QED
        BY <1>1, <1>2, <1>5, <1>6, <2>1, TurnedAwayOK
<1>10. more => RequestOK(tries)
    <2>1. more => Len(others) + (r.tried + 1) = Len(r.way)
        BY <1>3
    <2>2. more => TriesOK(tries)
        BY <1>5, <2>1 DEF TriesOK
    <2>3. AnswerOK(tries) /\ TunnelOK(tries)
        BY <1>2, <1>5 DEF AnswerOK, TunnelOK, Unbroken, ToldAll, Untouched
    <2> QED
        BY <1>1, <1>5, <2>2, <2>3 DEF RequestOK
<1> HIDE DEF open, r
<1>11. PICK z : Becomes(c, z) /\ RequestOK(z)
    <2>1. CASE (Direct(r) \/ more) /\ Becomes(c, open)
        BY <1>8, <2>1
    <2>2. CASE Direct(r) /\ Becomes(c, TurnedAway(tries))
        BY <1>9, <2>2
    <2>3. CASE more /\ Becomes(c, IF r.plain \/ Tail(r.left) = << >> THEN TurnedAway(tries) ELSE tries)
        <3>1. CASE r.plain \/ Tail(r.left) = << >>
            BY <1>9, <2>3, <3>1
        <3>2. CASE ~(r.plain \/ Tail(r.left) = << >>)
            BY <1>10, <2>3, <3>2
        <3> QED
            BY <3>1, <3>2
    <2> QED
        BY <1>7, <2>1, <2>2, <2>3
<1> QED
    BY <1>1, <1>11, RequestMoves

\* What either end sends, what it closes, and what is read of it: the other
\* one has had what it had.
LEMMA GrowthHandsOn ==
    ASSUME NEW e \in End, NEW n \in Nat, HandedOn(e, n), NEW x \in Int
    PROVE  HandedOn([e EXCEPT !.sent = Append(@, x)], n)
<1> DEFINE d == [e EXCEPT !.sent = Append(@, x)]
<1>1. /\ e.sent \in Seq(Int) /\ e.came \in Seq(Int) /\ e.read \in Nat
      /\ d.sent = Append(e.sent, x) /\ d.came = e.came /\ d.read = e.read
      /\ d.told = e.told /\ d.closed = e.closed
    BY DEF End
<1> HIDE DEF d
<1>2. /\ Len(d.sent) = Len(e.sent) + 1 /\ \A i \in 1..Len(e.sent) : d.sent[i] = e.sent[i]
    BY <1>1
<1>3. /\ e.read = Len(e.came) + n /\ e.read <= Len(e.sent)
      /\ \A i \in 1..Len(e.came) : e.came[i] = e.sent[n + i]
    BY DEF HandedOn
<1>4. \A i \in 1..Len(e.came) : n + i \in 1..Len(e.sent)
    BY <1>1, <1>3
<1> QED
    BY <1>1, <1>2, <1>3, <1>4 DEF HandedOn, d

LEMMA ClosingHandsOn ==
    ASSUME NEW e \in End, NEW d \in {Shuts(e), Breaks(e)}
    PROVE  /\ d \in End /\ d.sent = e.sent /\ d.came = e.came /\ d.read = e.read
           /\ d.told = e.told /\ d.closed
           /\ (e.broken => d.broken) /\ (ToldAll(e) => ToldAll(d))
           /\ \A n \in Nat : HandedOn(e, n) => HandedOn(d, n)
<1>1. /\ d \in End /\ d.sent = e.sent /\ d.came = e.came /\ d.read = e.read
      /\ d.told = e.told /\ d.closed /\ (e.broken => d.broken)
    BY DEF Shuts, Breaks, End
<1> QED
    BY <1>1 DEF HandedOn, ToldAll

LEMMA CarriedHandsOn ==
    ASSUME NEW e \in End, NEW n \in Nat, HandedOn(e, n), e.read < Len(e.sent)
    PROVE  /\ Carried(e) \in End /\ HandedOn(Carried(e), n)
           /\ Carried(e).told = e.told /\ Carried(e).broken = e.broken
<1> DEFINE x == e.sent[e.read + 1]
           d == Carried(e)
<1>1. e.sent \in Seq(Int) /\ e.came \in Seq(Int) /\ e.read \in Nat
    BY DEF End
<1>2. x \in Int
    BY <1>1
<1>3. /\ d \in End /\ d.sent = e.sent /\ d.came = Append(e.came, x) /\ d.read = e.read + 1
      /\ d.told = e.told /\ d.closed = e.closed /\ d.broken = e.broken
    <2> DEFINE s == Append(e.came, x)
               k == e.read + 1
    <2>1. s \in Seq(Int) /\ k \in Nat
        BY <1>1, <1>2
    <2>2. d = WithReadCame(e, k, s)
        BY DEF Carried, WithReadCame
    <2> HIDE DEF d, s, k
    <2>3. /\ d \in End /\ d.sent = e.sent /\ d.came = s /\ d.read = k
          /\ d.told = e.told /\ d.closed = e.closed /\ d.broken = e.broken
        BY <2>1, <2>2, ReadCameUpdates
    <2> QED
        BY <2>3 DEF s, k
<1> HIDE DEF d, x
<1>4. /\ e.read = Len(e.came) + n
      /\ \A i \in 1..Len(e.came) : e.came[i] = e.sent[n + i]
    BY <1>1 DEF HandedOn
<1>5. Len(d.came) = Len(e.came) + 1 /\ d.came[Len(e.came) + 1] = x
      /\ \A i \in 1..Len(e.came) : d.came[i] = e.came[i]
    BY <1>1, <1>2, <1>3
<1>6. \A i \in 1..Len(d.came) : d.came[i] = d.sent[n + i]
    <2> SUFFICES ASSUME NEW i \in 1..Len(d.came)
                 PROVE  d.came[i] = e.sent[n + i]
        BY <1>3
    <2>1. CASE i = Len(e.came) + 1
        BY <1>1, <1>4, <1>5, <2>1 DEF x
    <2>2. CASE i # Len(e.came) + 1
        <3>1. i \in 1..Len(e.came)
            BY <1>1, <1>5, <2>2
        <3> QED
            BY <1>4, <1>5, <3>1
    <2> QED
        BY <2>1, <2>2
<1>7. HandedOn(d, n)
    BY <1>1, <1>3, <1>4, <1>5, <1>6 DEF HandedOn
<1> QED
    BY <1>3, <1>7 DEF d

LEMMA FarSendsKeeps ==
    ASSUME ServeInv, NEW c \in Client, FarSends(c)
    PROVE  ServeInv'
<1> DEFINE r == request[c]
           x == IF r.step = "awaits" /\ Len(r.far.sent) < Len(Header)
                THEN Header[Len(r.far.sent) + 1]
                ELSE Len(r.far.sent) + 1 - (IF Direct(r) THEN 0 ELSE Len(Header))
           e == WithSent(r.far, Append(r.far.sent, x))
           z == [r EXCEPT !.far = e]
<1>1. /\ RequestOK(r) /\ r \in Request /\ ~r.far.closed /\ CacheOK'
      /\ r.step \in {"awaits", "hijacks", "drains", "tunnels"}
    BY DEF FarSends, Same, ServeInv, RequestOK, CacheOK, WayOf
<1>2. Becomes(c, z)
    BY <1>1 DEF FarSends, Request, End, WithSent
<1>3. r.far \in End /\ r.far.sent \in Seq(Int) /\ Len(r.far.sent) \in Nat /\ r.far.read \in Nat
    BY <1>1 DEF Request, End
<1>4. Len(Header) = 2 /\ Header[1] = -1 /\ Header[2] = 0 /\ Blank = 0
    BY DEF Header, Blank
<1>5. x \in Int /\ (r.step = "awaits" => (x = Blank <=> Len(r.far.sent) + 1 = 2))
    <2>1. r.step = "awaits" => ~Direct(r)
        BY <1>1 DEF RequestOK, AnswerOK
    <2>2. CASE Len(r.far.sent) = 0
        BY <1>4, <2>1, <2>2
    <2>3. CASE Len(r.far.sent) = 1
        BY <1>4, <2>1, <2>3
    <2>4. CASE Len(r.far.sent) > 1
        BY <1>3, <1>4, <2>1, <2>4
    <2> HIDE DEF x
    <2> DEFINE k == Len(r.far.sent)
    <2>5. k \in Nat
        BY <1>3
    <2> HIDE DEF k
    <2>6. k = 0 \/ k = 1 \/ k > 1
        BY <2>5
    <2> QED
        BY <2>2, <2>3, <2>4, <2>6 DEF k
<1> HIDE DEF x
<1>6. /\ e \in End /\ e.sent = Append(r.far.sent, x) /\ e.came = r.far.came
      /\ e.read = r.far.read /\ e.told = r.far.told /\ e.broken = r.far.broken
    <2>1. Append(r.far.sent, x) \in Seq(Int)
        BY <1>3, <1>5
    <2> QED
        BY <1>3, <2>1, SentUpdates
<1>7. HandedOn(r.far, Preface(r)) => HandedOn(e, Preface(r))
    BY <1>1, <1>3, <1>5, GrowthHandsOn DEF Preface, WithSent
<1> HIDE DEF e
<1>8. /\ z \in Request /\ z.far = e /\ z.client = r.client /\ z.step = r.step /\ z.way = r.way
      /\ z.left = r.left /\ z.tried = r.tried /\ z.plain = r.plain
    BY <1>1, <1>6 DEF Request
<1> HIDE DEF z
<1>9. (Direct(z) <=> Direct(r)) /\ Preface(z) = Preface(r)
    BY <1>8 DEF Direct, Preface
<1>10. /\ Len(e.sent) = Len(r.far.sent) + 1 /\ e.sent[Len(r.far.sent) + 1] = x
       /\ \A i \in 1..Len(r.far.sent) : e.sent[i] = r.far.sent[i]
    BY <1>3, <1>5, <1>6
<1>11. AnswerOK(z)
    <2>1. CASE r.step = "awaits"
        <3>1. /\ ~Direct(r) /\ r.far.read \in 0..1 /\ r.far.read <= Len(r.far.sent)
              /\ \A i \in 1..Len(r.far.sent) : r.far.sent[i] = Blank <=> i = 2
            BY <1>1, <2>1 DEF RequestOK, AnswerOK
        <3>2. \A i \in 1..Len(e.sent) : e.sent[i] = Blank <=> i = 2
            <4> SUFFICES ASSUME NEW i \in 1..Len(e.sent)
                         PROVE  e.sent[i] = Blank <=> i = 2
                OBVIOUS
            <4>1. CASE i = Len(r.far.sent) + 1
                BY <1>5, <1>10, <2>1, <4>1
            <4>2. CASE i # Len(r.far.sent) + 1
                <5>1. i \in 1..Len(r.far.sent)
                    BY <1>3, <1>10, <4>2
                <5> QED
                    BY <1>10, <3>1, <5>1
            <4> QED
                BY <4>1, <4>2
        <3>3. e.read \in 0..1 /\ e.read <= Len(e.sent)
            BY <1>3, <1>6, <1>10, <3>1
        <3> QED
            BY <1>8, <1>9, <2>1, <3>1, <3>2, <3>3 DEF AnswerOK
    <2>2. CASE r.step \in {"hijacks", "drains"}
        <3>1. r.far.read = Preface(r) /\ r.far.read <= Len(r.far.sent)
            BY <1>1, <2>2 DEF RequestOK, AnswerOK
        <3>2. e.read = Preface(r) /\ e.read <= Len(e.sent)
            BY <1>3, <1>6, <1>10, <3>1
        <3> QED
            BY <1>8, <1>9, <2>2, <3>2 DEF AnswerOK
    <2>3. CASE r.step = "tunnels"
        BY <1>8, <2>3 DEF AnswerOK
    <2> QED
        BY <1>1, <2>1, <2>2, <2>3
<1>12. Unbroken(z) => ToldAll(z.client) /\ ToldAll(z.far)
    BY <1>1, <1>6, <1>8 DEF RequestOK, TunnelOK, Unbroken, ToldAll
<1>13. TunnelOK(z) /\ TriesOK(z)
    BY <1>1, <1>6, <1>7, <1>8, <1>9, <1>12 DEF RequestOK, TunnelOK, TriesOK, Untouched
<1>14. RequestOK(z)
    BY <1>1, <1>8, <1>11, <1>13 DEF RequestOK
<1> QED
    BY <1>1, <1>2, <1>14, RequestMoves

\* The header is read up to its blank line, and no further.
LEMMA NegotiatesKeeps ==
    ASSUME ServeInv, NEW c \in Client, Negotiates(c)
    PROVE  ServeInv'
<1> DEFINE r == request[c]
           e == ReadsOne(r.far)
           step == IF r.far.sent[r.far.read + 1] = Blank THEN "hijacks" ELSE r.step
           z == [r EXCEPT !.far = e, !.step = step]
           again == [r EXCEPT !.step = "dials", !.open = FALSE, !.far = End0]
<1>1. /\ RequestOK(r) /\ r \in Request /\ r.step = "awaits" /\ CacheOK'
    BY DEF Negotiates, Same, ServeInv, RequestOK, CacheOK, WayOf
<1>2. /\ r.far \in End /\ r.far.sent \in Seq(Int) /\ r.client \in End /\ r.tried \in Nat
      /\ r.left \in Seq(Upstreams) /\ Len(r.client.sent) \in Nat
    BY <1>1 DEF Request, End
<1>3. /\ ~Direct(r) /\ r.far.read \in 0..1
      /\ \A i \in 1..Len(r.far.sent) : r.far.sent[i] = Blank <=> i = 2
      /\ Len(r.left) + r.tried = Len(r.way) /\ r.client.read = 0
      /\ Untouched(r.client) /\ Untouched(r.far)
    BY <1>1 DEF RequestOK, AnswerOK, TriesOK, TunnelOK, Unbroken, ToldAll, Untouched
<1>4. CASE r.far.read < Len(r.far.sent) /\ Becomes(c, z)
    <2>1. r.far.sent[r.far.read + 1] = Blank <=> r.far.read + 1 = 2
        <3>1. r.far.read + 1 \in 1..Len(r.far.sent)
            BY <1>2, <1>3, <1>4
        <3> QED
            BY <1>3, <3>1
    <2>2. step \in {"hijacks", "awaits"} /\ (step = "hijacks" <=> r.far.read = 1)
        BY <1>1, <1>3, <2>1
    <2>3. /\ e \in End /\ e.sent = r.far.sent /\ e.came = r.far.came /\ e.read = r.far.read + 1
          /\ e.told = r.far.told
        <3> DEFINE k == r.far.read + 1
        <3>1. k \in Nat
            BY <1>3
        <3>2. e = WithRead(r.far, k)
            BY DEF ReadsOne, WithRead
        <3> HIDE DEF e, k
        <3>3. /\ e \in End /\ e.sent = r.far.sent /\ e.came = r.far.came /\ e.read = k
              /\ e.told = r.far.told
            BY <1>2, <3>1, <3>2, ReadUpdates
        <3> QED
            BY <3>3 DEF k
    <2> HIDE DEF e, step
    <2>4. /\ z \in Request /\ z.far = e /\ z.client = r.client /\ z.step = step /\ z.way = r.way
          /\ z.left = r.left /\ z.tried = r.tried /\ z.plain = r.plain
        BY <1>1, <2>2, <2>3 DEF Request
    <2> HIDE DEF z
    <2>5. ~Direct(z) /\ Preface(z) = 2
        BY <1>3, <2>4 DEF Direct, Preface
    <2>6. AnswerOK(z)
        BY <1>2, <1>3, <1>4, <2>2, <2>3, <2>4, <2>5 DEF AnswerOK
    <2>7. ToldAll(z.client) /\ ToldAll(z.far)
        BY <1>3, <2>3, <2>4 DEF ToldAll, Untouched
    <2>8. TriesOK(z) /\ TunnelOK(z)
        BY <1>2, <1>3, <2>2, <2>3, <2>4, <2>7 DEF TriesOK, TunnelOK, Untouched
    <2>9. RequestOK(z)
        BY <2>2, <2>4, <2>6, <2>8 DEF RequestOK
    <2> QED
        BY <1>1, <1>4, <2>9, RequestMoves
<1>5. CASE Becomes(c, IF r.left = << >> THEN TurnedAway(r) ELSE again)
    <2>1. r.left = << >> => RequestOK(TurnedAway(r))
        <3>1. r.left = << >> => r.tried = Len(r.way)
            BY <1>2, <1>3
        <3> QED
            BY <1>1, <1>3, <3>1, TurnedAwayOK
    <2>2. /\ again \in Request /\ again.far = End0 /\ again.client = r.client
          /\ again.step = "dials" /\ again.way = r.way /\ again.left = r.left /\ again.tried = r.tried
        BY <1>1, IdleOK DEF Request
    <2>3. Untouched(End0)
        BY DEF Untouched, End0
    <2> HIDE DEF again
    <2>4. RequestOK(again)
        BY <1>1, <1>3, <2>2, <2>3
        DEF RequestOK, TriesOK, AnswerOK, TunnelOK, Unbroken, ToldAll, Untouched
    <2> QED
        BY <1>1, <1>5, <2>1, <2>4, RequestMoves
<1> QED
    BY <1>4, <1>5 DEF Negotiates

LEMMA EndedOK ==
    ASSUME NEW r, RequestOK(r), r.step \in {"forwards", "hijacks", "drains", "tunnels"}
    PROVE  RequestOK(Ended(r))
<1> DEFINE z == Ended(r)
<1>1. /\ z \in Request /\ z.step = "ended" /\ z.far = r.far /\ z.client = r.client
      /\ z.way = r.way
    BY DEF Ended, Request, RequestOK
<1> HIDE DEF z
<1>2. Preface(z) = Preface(r) /\ (Unbroken(z) <=> Unbroken(r))
    BY <1>1 DEF Preface, Direct, Unbroken
<1>3. /\ Untouched(r.client) \/ HandedOn(r.client, 0)
      /\ Untouched(r.far) \/ HandedOn(r.far, Preface(r))
      /\ Unbroken(r) => ToldAll(r.client) /\ ToldAll(r.far)
    BY DEF RequestOK, TunnelOK, Unbroken, ToldAll, Untouched
<1>4. TunnelOK(z)
    BY <1>1, <1>2, <1>3 DEF TunnelOK, Unbroken, ToldAll, Untouched
<1>5. TriesOK(z) /\ AnswerOK(z)
    BY <1>1 DEF TriesOK, AnswerOK
<1> QED
    BY <1>1, <1>4, <1>5 DEF RequestOK, z

LEMMA ForwardsKeeps ==
    ASSUME ServeInv, NEW c \in Client, Forwards(c)
    PROVE  ServeInv'
<1>1. RequestOK(request[c]) /\ request[c].step = "forwards" /\ CacheOK'
    BY DEF Forwards, Same, ServeInv, CacheOK, WayOf
<1> QED
    BY <1>1, EndedOK, RequestMoves DEF Forwards

LEMMA ClientSendsKeeps ==
    ASSUME ServeInv, NEW c \in Client, ClientSends(c)
    PROVE  ServeInv'
<1> DEFINE r == request[c]
           x == Len(r.client.sent) + 1
           e == WithSent(r.client, Append(r.client.sent, x))
           z == [r EXCEPT !.client = e]
<1>1. /\ RequestOK(r) /\ r \in Request /\ ~r.client.closed /\ CacheOK'
      /\ r.step \in {"asks", "dials", "awaits", "hijacks", "drains", "tunnels"}
    BY DEF ClientSends, Same, ServeInv, RequestOK, CacheOK, WayOf
<1>2. r.client \in End /\ r.client.sent \in Seq(Int) /\ x \in Int /\ r.client.read \in Nat
    BY <1>1 DEF Request, End
<1>3. Becomes(c, z)
    BY <1>1 DEF ClientSends, Request, End, WithSent
<1>4. /\ e \in End /\ e.sent = Append(r.client.sent, x) /\ e.came = r.client.came
      /\ e.read = r.client.read /\ e.told = r.client.told /\ e.broken = r.client.broken
      /\ Len(e.sent) = Len(r.client.sent) + 1
    <2>1. Append(r.client.sent, x) \in Seq(Int) /\ Len(Append(r.client.sent, x)) = Len(r.client.sent) + 1
        BY <1>2
    <2> QED
        BY <1>2, <2>1, SentUpdates
<1>5. HandedOn(r.client, 0) => HandedOn(e, 0)
    BY <1>1, <1>2, GrowthHandsOn DEF WithSent
<1> HIDE DEF e, x
<1>6. /\ z \in Request /\ z.far = r.far /\ z.client = e /\ z.step = r.step /\ z.way = r.way
      /\ z.left = r.left /\ z.tried = r.tried /\ z.plain = r.plain /\ z.of = r.of
    BY <1>1, <1>4 DEF Request
<1> HIDE DEF z
<1>7. (Direct(z) <=> Direct(r)) /\ Preface(z) = Preface(r)
    BY <1>6 DEF Direct, Preface
<1>8. AnswerOK(z) /\ TriesOK(z)
    BY <1>1, <1>6, <1>7 DEF RequestOK, AnswerOK, TriesOK
<1>9. r.client.read <= Len(r.client.sent) => e.read <= Len(e.sent)
    BY <1>2, <1>4
<1>10. Unbroken(z) => ToldAll(z.client) /\ ToldAll(z.far)
    BY <1>1, <1>4, <1>6 DEF RequestOK, TunnelOK, Unbroken, ToldAll
<1>11. TunnelOK(z)
    BY <1>1, <1>4, <1>5, <1>6, <1>7, <1>9, <1>10 DEF RequestOK, TunnelOK, Untouched
<1>12. RequestOK(z)
    BY <1>1, <1>6, <1>8, <1>11 DEF RequestOK
<1> QED
    BY <1>1, <1>3, <1>12, RequestMoves

LEMMA ClosesKeeps ==
    ASSUME ServeInv, NEW c \in Client, Closes(c)
    PROVE  ServeInv'
<1> DEFINE r == request[c]
           client(e) == [r EXCEPT !.client = e]
           far(e) == [r EXCEPT !.far = e]
<1>1. /\ RequestOK(r) /\ r \in Request /\ CacheOK'
      /\ r.step \in {"hijacks", "drains", "tunnels"}
    BY DEF Closes, Same, ServeInv, RequestOK, CacheOK, WayOf
<1>2. r.client \in End /\ r.far \in End /\ Preface(r) \in Nat
    BY <1>1 DEF Request, Preface
<1>3. \/ \E e \in {Shuts(r.client), Breaks(r.client)} : Becomes(c, client(e))
      \/ \E e \in {Shuts(r.far), Breaks(r.far)} : Becomes(c, far(e))
    BY <1>1, <1>2 DEF Closes, Request
<1>4. ASSUME NEW e \in {Shuts(r.client), Breaks(r.client)}
      PROVE  RequestOK(client(e))
    <2> DEFINE z == client(e)
    <2>1. /\ e \in End /\ e.sent = r.client.sent /\ e.came = r.client.came
          /\ e.read = r.client.read /\ e.told = r.client.told
          /\ r.client.broken => e.broken
          /\ ToldAll(r.client) => ToldAll(e)
          /\ HandedOn(r.client, 0) => HandedOn(e, 0)
        BY <1>2, ClosingHandsOn
    <2>2. /\ z \in Request /\ z.far = r.far /\ z.client = e /\ z.step = r.step
          /\ z.way = r.way
        BY <1>1, <2>1 DEF Request
    <2> HIDE DEF z
    <2>3. Preface(z) = Preface(r) /\ (Unbroken(z) => Unbroken(r))
        BY <2>1, <2>2 DEF Preface, Direct, Unbroken
    <2>4. RequestOK(z)
        BY <1>1, <2>1, <2>2, <2>3
        DEF RequestOK, TriesOK, AnswerOK, TunnelOK, Untouched, Unbroken, ToldAll
    <2> QED
        BY <2>4 DEF z
<1>5. ASSUME NEW e \in {Shuts(r.far), Breaks(r.far)}
      PROVE  RequestOK(far(e))
    <2> DEFINE z == far(e)
    <2>1. /\ e \in End /\ e.sent = r.far.sent /\ e.came = r.far.came
          /\ e.read = r.far.read /\ e.told = r.far.told
          /\ r.far.broken => e.broken
          /\ ToldAll(r.far) => ToldAll(e)
          /\ HandedOn(r.far, Preface(r)) => HandedOn(e, Preface(r))
        BY <1>2, ClosingHandsOn
    <2>2. /\ z \in Request /\ z.far = e /\ z.client = r.client /\ z.step = r.step
          /\ z.way = r.way
        BY <1>1, <2>1 DEF Request
    <2> HIDE DEF z
    <2>3. Preface(z) = Preface(r) /\ (Unbroken(z) => Unbroken(r))
        BY <2>1, <2>2 DEF Preface, Direct, Unbroken
    <2>4. RequestOK(z)
        BY <1>1, <2>1, <2>2, <2>3
        DEF RequestOK, TriesOK, AnswerOK, TunnelOK, Untouched, Unbroken, ToldAll
    <2> QED
        BY <2>4 DEF z
<1> HIDE DEF client, far
<1> QED
    BY <1>1, <1>3, <1>4, <1>5, RequestMoves

LEMMA HijacksKeeps ==
    ASSUME ServeInv, NEW c \in Client, Hijacks(c)
    PROVE  ServeInv'
<1> DEFINE r == request[c]
<1>0. /\ r.step = "hijacks" /\ UNCHANGED <<clock, config, network, movedAt, entry, lateAt>>
      /\ \/ \E n \in r.client.read..Len(r.client.sent) :
                Becomes(c, [r EXCEPT !.step = "drains", !.client.read = n])
         \/ Becomes(c, Ended(r))
    BY DEF Hijacks, Same
<1>1. /\ RequestOK(r) /\ r \in Request /\ r.step = "hijacks" /\ CacheOK'
    BY <1>0 DEF ServeInv, RequestOK, CacheOK, WayOf
<1>2. r.client \in End /\ r.client.read \in Nat /\ Len(r.client.sent) \in Nat
    BY <1>1 DEF Request, End
<1>3. ASSUME NEW n \in r.client.read..Len(r.client.sent),
             Becomes(c, [r EXCEPT !.step = "drains", !.client.read = n])
      PROVE  ServeInv'
    <2> DEFINE e == WithRead(r.client, n)
               z == [r EXCEPT !.step = "drains", !.client = e]
    <2>1. Becomes(c, z)
        BY <1>1, <1>3 DEF Request, End, WithRead
    <2>2. /\ e \in End /\ e.read <= Len(e.sent) /\ e.came = r.client.came
          /\ e.told = r.client.told
        <3>1. n \in Nat /\ n <= Len(r.client.sent)
            BY <1>2
        <3> QED
            BY <1>2, <3>1, ReadUpdates
    <2> HIDE DEF e
    <2>3. /\ z \in Request /\ z.far = r.far /\ z.client = e /\ z.step = "drains"
          /\ z.way = r.way
        BY <1>1, <2>2 DEF Request
    <2> HIDE DEF z
    <2>4. Preface(z) = Preface(r)
        BY <2>3 DEF Preface, Direct
    <2>5. RequestOK(z)
        BY <1>1, <2>2, <2>3, <2>4
        DEF RequestOK, TriesOK, AnswerOK, TunnelOK, Untouched, ToldAll, Unbroken
    <2> QED
        BY <1>1, <2>1, <2>5, RequestMoves
<1>4. CASE Becomes(c, Ended(r))
    BY <1>1, <1>4, EndedOK, RequestMoves
<1> QED
    BY <1>0, <1>3, <1>4

\* What was in the buffer comes first, and what the far end sent behind the
\* header is all still to be read.
LEMMA DrainsKeeps ==
    ASSUME ServeInv, NEW c \in Client, Drains(c)
    PROVE  ServeInv'
<1> DEFINE r == request[c]
           e == WithCame(r.client, SubSeq(r.client.sent, 1, r.client.read))
           z == [r EXCEPT !.step = "tunnels", !.client = e]
<1>1. /\ RequestOK(r) /\ r \in Request /\ r.step = "drains" /\ CacheOK'
    BY DEF Drains, Same, ServeInv, RequestOK, CacheOK, WayOf
<1>2. /\ r.client \in End /\ r.client.read \in Nat /\ r.client.sent \in Seq(Int)
      /\ r.client.read <= Len(r.client.sent) /\ Untouched(r.client) /\ Untouched(r.far)
    BY <1>1 DEF RequestOK, TunnelOK, Request, End, Unbroken, ToldAll, Untouched
<1>3. Becomes(c, z) \/ Becomes(c, Ended(r))
    BY <1>1 DEF Drains, Request, End, WithCame
<1>4. /\ e \in End /\ e.read = r.client.read /\ e.sent = r.client.sent /\ ~e.told
      /\ e.came = SubSeq(r.client.sent, 1, r.client.read)
    <2> DEFINE s == SubSeq(r.client.sent, 1, r.client.read)
    <2>1. s \in Seq(Int)
        BY <1>2
    <2>2. e = WithCame(r.client, s)
        OBVIOUS
    <2> HIDE DEF e, s
    <2>3. /\ e \in End /\ e.read = r.client.read /\ e.sent = r.client.sent /\ e.came = s
          /\ e.told = r.client.told
        BY <1>2, <2>1, <2>2, CameUpdates
    <2> QED
        BY <1>2, <2>3 DEF Untouched, s
<1> HIDE DEF e
<1>5. Len(e.came) = e.read /\ \A i \in 1..Len(e.came) : e.came[i] = e.sent[0 + i]
    BY <1>2, <1>4
<1>6. HandedOn(e, 0)
    BY <1>2, <1>4, <1>5 DEF HandedOn
<1>7. z \in Request /\ z.far = r.far /\ z.client = e /\ z.step = "tunnels" /\ z.way = r.way
    BY <1>1, <1>4 DEF Request
<1> HIDE DEF z
<1>8. Preface(z) = Preface(r) /\ Preface(r) \in Nat
    BY <1>7 DEF Preface, Direct
<1>9. HandedOn(r.far, Preface(r))
    <2>1. /\ r.far.came = << >> /\ r.far.read = Preface(r)
          /\ r.far.read <= Len(r.far.sent)
        BY <1>1, <1>2 DEF RequestOK, AnswerOK, Untouched
    <2> QED
        BY <1>8, <2>1 DEF HandedOn
<1>10. ToldAll(e) /\ ToldAll(r.far)
    BY <1>2, <1>4 DEF ToldAll, Untouched
<1>11. RequestOK(z)
    BY <1>1, <1>6, <1>7, <1>8, <1>9, <1>10
    DEF RequestOK, TriesOK, AnswerOK, TunnelOK, Unbroken, ToldAll, Untouched
<1>12. RequestOK(Ended(r))
    BY <1>1, EndedOK
<1> QED
    BY <1>1, <1>3, <1>11, <1>12, RequestMoves

LEMMA CopiesKeeps ==
    ASSUME ServeInv, NEW c \in Client, Copies(c)
    PROVE  ServeInv'
<1> DEFINE r == request[c]
           onward(n) == IF n.client.told /\ n.far.told THEN Ended(n) ELSE n
           client(e) == [r EXCEPT !.client = e]
           far(e) == [r EXCEPT !.far = e]
           tells(e) == [e EXCEPT !.told = TRUE]
<1>1. /\ RequestOK(r) /\ r \in Request /\ r.step = "tunnels" /\ CacheOK'
    BY DEF Copies, Same, ServeInv, RequestOK, CacheOK, WayOf
<1>2. /\ r.client \in End /\ r.far \in End /\ HandedOn(r.client, 0) /\ HandedOn(r.far, Preface(r))
      /\ Preface(r) \in Nat /\ (Unbroken(r) => ToldAll(r.client) /\ ToldAll(r.far))
    BY <1>1 DEF RequestOK, TunnelOK, Request, Preface, Unbroken, ToldAll, Untouched
<1>3. ASSUME NEW e \in End, HandedOn(e, 0), e.broken = r.client.broken,
             Unbroken(r) => ToldAll(e)
      PROVE  RequestOK(client(e)) /\ client(e).step = "tunnels"
    <2> DEFINE z == client(e)
    <2>1. z \in Request /\ z.far = r.far /\ z.client = e /\ z.step = "tunnels" /\ z.way = r.way
        BY <1>1 DEF Request
    <2> HIDE DEF z
    <2>2. Preface(z) = Preface(r) /\ (Unbroken(z) <=> Unbroken(r))
        BY <1>3, <2>1 DEF Preface, Direct, Unbroken
    <2>3. RequestOK(z)
        BY <1>1, <1>2, <1>3, <2>1, <2>2
        DEF RequestOK, TriesOK, AnswerOK, TunnelOK, Unbroken, ToldAll, Untouched
    <2> QED
        BY <2>1, <2>3 DEF z
<1>4. ASSUME NEW e \in End, HandedOn(e, Preface(r)), e.broken = r.far.broken,
             Unbroken(r) => ToldAll(e)
      PROVE  RequestOK(far(e)) /\ far(e).step = "tunnels"
    <2> DEFINE z == far(e)
    <2>1. z \in Request /\ z.far = e /\ z.client = r.client /\ z.step = "tunnels" /\ z.way = r.way
        BY <1>1 DEF Request
    <2> HIDE DEF z
    <2>2. Preface(z) = Preface(r) /\ (Unbroken(z) <=> Unbroken(r))
        BY <1>4, <2>1 DEF Preface, Direct, Unbroken
    <2>3. RequestOK(z)
        BY <1>1, <1>2, <1>4, <2>1, <2>2
        DEF RequestOK, TriesOK, AnswerOK, TunnelOK, Unbroken, ToldAll, Untouched
    <2> QED
        BY <2>1, <2>3 DEF z
<1>5. ASSUME NEW e \in End, NEW o \in End, NEW n \in Nat, HandedOn(e, n), Tells(e, o)
      PROVE  /\ tells(e) \in End /\ HandedOn(tells(e), n) /\ tells(e).broken = e.broken
             /\ ~e.broken /\ ~o.broken => ToldAll(tells(e))
    BY <1>5 DEF Tells, HandedOn, ToldAll, End
<1>6. ASSUME NEW n, RequestOK(n), n.step = "tunnels"
      PROVE  RequestOK(onward(n))
    BY <1>6, EndedOK
<1>7. \/ Carries(r.client, r.far) /\ Becomes(c, client(Carried(r.client)))
      \/ Carries(r.far, r.client) /\ Becomes(c, far(Carried(r.far)))
      \/ Tells(r.client, r.far) /\ Becomes(c, onward(client(tells(r.client))))
      \/ Tells(r.far, r.client) /\ Becomes(c, onward(far(tells(r.far))))
    BY <1>1, <1>2 DEF Copies, Request, End
<1>8. Unbroken(r) => ~r.client.broken /\ ~r.far.broken
    BY DEF Unbroken
<1> HIDE DEF r, onward, client, far, tells
<1>9. ASSUME Carries(r.client, r.far)
      PROVE  RequestOK(client(Carried(r.client)))
    <2>1. r.client.read < Len(r.client.sent) /\ ~r.client.told
        BY <1>9 DEF Carries
    <2> DEFINE e == Carried(r.client)
    <2>2. /\ e \in End /\ HandedOn(e, 0) /\ e.told = r.client.told
          /\ e.broken = r.client.broken
        BY <1>2, <2>1, CarriedHandsOn
    <2> HIDE DEF e
    <2>3. ToldAll(e)
        BY <2>1, <2>2 DEF ToldAll
    <2>4. RequestOK(client(e))
        BY <1>3, <2>2, <2>3
    <2> QED
        BY <2>4 DEF e
<1>10. ASSUME Carries(r.far, r.client)
      PROVE  RequestOK(far(Carried(r.far)))
    <2>1. r.far.read < Len(r.far.sent) /\ ~r.far.told
        BY <1>10 DEF Carries
    <2> DEFINE e == Carried(r.far)
    <2>2. /\ e \in End /\ HandedOn(e, Preface(r)) /\ e.told = r.far.told
          /\ e.broken = r.far.broken
        BY <1>2, <2>1, CarriedHandsOn
    <2> HIDE DEF e
    <2>3. ToldAll(e)
        BY <2>1, <2>2 DEF ToldAll
    <2>4. RequestOK(far(e))
        BY <1>4, <2>2, <2>3
    <2> QED
        BY <2>4 DEF e
<1>11. ASSUME Tells(r.client, r.far)
       PROVE  RequestOK(onward(client(tells(r.client))))
    <2>1. /\ tells(r.client) \in End /\ HandedOn(tells(r.client), 0)
          /\ tells(r.client).broken = r.client.broken
          /\ Unbroken(r) => ToldAll(tells(r.client))
        BY <1>2, <1>5, <1>11, <1>8
    <2>2. RequestOK(client(tells(r.client))) /\ client(tells(r.client)).step = "tunnels"
        BY <1>3, <2>1
    <2> QED
        BY <1>6, <2>2
<1>12. ASSUME Tells(r.far, r.client)
       PROVE  RequestOK(onward(far(tells(r.far))))
    <2>1. /\ tells(r.far) \in End /\ HandedOn(tells(r.far), Preface(r))
          /\ tells(r.far).broken = r.far.broken
          /\ Unbroken(r) => ToldAll(tells(r.far))
        BY <1>2, <1>5, <1>12, <1>8
    <2>2. RequestOK(far(tells(r.far))) /\ far(tells(r.far)).step = "tunnels"
        BY <1>4, <2>1
    <2> QED
        BY <1>6, <2>2
<1> QED
    BY <1>1, <1>7, <1>9, <1>10, <1>11, <1>12, RequestMoves

\* The clock goes on, and the machine to another network.
LEMMA CacheKeeps ==
    ASSUME ServeInv, TimePasses \/ Moves
    PROVE  ServeInv'
<1>1. CacheOK /\ UNCHANGED request
    BY DEF ServeInv, TimePasses, Moves
<1>2. CASE TimePasses
    <2>1. CacheOK'
        BY <1>1, <1>2 DEF TimePasses, CacheOK, Answer, WayOf
    <2> QED
        BY <1>1, <2>1 DEF ServeInv
<1>3. CASE Moves
    <2>1. network' \in Route /\ network' = network + 1
        BY <1>1, <1>3, RouteFacts DEF Moves, CacheOK, WayOf
    <2>2. CacheOK'
        BY <1>1, <1>3, <2>1 DEF Moves, CacheOK, Answer, WayOf
    <2> QED
        BY <1>1, <2>2 DEF ServeInv
<1> QED
    BY <1>2, <1>3

LEMMA ChangesStepServe == ServeInv /\ [ChangesNext]_changesVars => ServeInv'
<1> SUFFICES ASSUME ServeInv, [ChangesNext]_changesVars
             PROVE  ServeInv'
    OBVIOUS
<1>1. CASE ServeNext
    BY <1>1, CacheKeeps, ArrivesKeeps, AnsweredKeeps, TriesKeeps, NegotiatesKeeps, ForwardsKeeps,
       FarSendsKeeps, ClientSendsKeeps, ClosesKeeps, HijacksKeeps, DrainsKeeps, CopiesKeeps
    DEF ServeNext
<1>2. CASE UNCHANGED serveVars
    BY <1>2 DEF serveVars, ServeInv, CacheOK, WayOf
<1> QED
    BY <1>1, <1>2 DEF ChangesNext, changesVars

\* A request that goes by the cache, where a script answers, goes the way of the
\* network there is, or of one that the machine left, or heard of, less than a
\* TTL ago.
LEMMA CachedIsRecent ==
    ASSUME ServeInv, [ChangesNext]_changesVars, NEW c \in Client,
           config = "script", request[c].step = "idle",
           request'[c].step = "dials", request'[c].way # Routes[network]
    PROVE  clock - movedAt < TTL \/ clock - lateAt < TTL
<1>1. request \in [Client -> Request]
    BY DEF ServeInv
<1>2. ASSUME NEW d \in Client, NEW r, Becomes(d, r), request[d].step # "idle"
      PROVE  FALSE
    BY <1>1, <1>2 DEF Becomes
<1>3. ServeNext
    <2>1. request' # request
        OBVIOUS
    <2> QED
        BY <2>1 DEF ChangesNext, changesVars, serveVars
<1>4. Arrives(c)
    <2>1. ~TimePasses /\ ~Moves
        BY DEF TimePasses, Moves
    <2>2. \A d \in Client : ~Answered(d) /\ ~Tries(d) /\ ~Negotiates(d) /\ ~Forwards(d)
        BY <1>2 DEF Answered, Tries, Negotiates, Forwards
    <2>3. \A d \in Client : ~FarSends(d) /\ ~ClientSends(d) /\ ~Closes(d)
        BY <1>2 DEF FarSends, ClientSends, Closes
    <2>4. \A d \in Client : ~Hijacks(d) /\ ~Drains(d) /\ ~Copies(d)
        BY <1>2 DEF Hijacks, Drains, Copies
    <2>5. ASSUME NEW d \in Client, Arrives(d), d # c
          PROVE  FALSE
        BY <1>1, <2>5 DEF Arrives, Becomes
    <2> QED
        BY <1>3, <2>1, <2>2, <2>3, <2>4, <2>5 DEF ServeNext
<1> DEFINE r == [Idle EXCEPT !.plain = c \in Plain]
<1>5. Idle \in Request
    BY IdleOK DEF RequestOK
<1>6. request'[c] = IF Valid(entry) THEN GoesBy(r, entry.way)
                    ELSE [r EXCEPT !.step = "asks", !.of = network]
    BY <1>1, <1>4 DEF Arrives, Becomes
<1>7. Valid(entry)
    BY <1>5, <1>6 DEF Request
<1>8. request'[c].way = entry.way /\ entry.of # 0
    BY <1>5, <1>6, <1>7 DEF GoesBy, Request, Valid
<1>9. entry.of # network
    BY <1>8 DEF ServeInv, CacheOK, WayOf
<1>10. /\ entry.at <= movedAt \/ entry.at <= lateAt
      /\ entry.at \in Nat /\ clock \in Nat /\ movedAt \in Nat /\ lateAt \in Nat
    BY <1>9, <1>8 DEF ServeInv, CacheOK, Answer, WayOf
<1> QED
    BY <1>7, <1>10, ServeAssumption DEF Valid

\* Where a script is asked, a request goes the new way a TTL after the machine has
\* moved and the last answer of before is in; a tunnel is refused only after every
\* proxy was tried; and a tunnel carries what either end sent, in its order and
\* without a hole, all of it before the close is passed on unless a connection
\* broke (Upstream, dialFor, negotiateConnect, handleConnect, tunnel).
THEOREM TunnelsCarryAll == ChangesSpec => TunnelsAreFaithful
<1>1. ChangesInit => ServeInv
    BY ServeInitInv DEF ChangesInit
<1>2. ServeInv => \A c \in Client : Complete(request[c])
    BY CompleteWhenOK DEF ServeInv
<1>3. ServeInv /\ [ChangesNext]_changesVars =>
          \A c \in Client :
              /\ config = "script" /\ request[c].step = "idle" /\ request'[c].step = "dials"
              /\ request'[c].way # Routes[network]
              => clock - movedAt < TTL \/ clock - lateAt < TTL
    BY CachedIsRecent
<1> QED
    BY <1>1, <1>2, <1>3, ChangesStepServe, PTL DEF ChangesSpec, TunnelsAreFaithful
-----------------------------------------------------------------------------
(* The fixes and their undo, for any terminals, items, seconds, edits and     *)
(* commands.                                                                  *)

Seconds == 0..MaxSeconds
Places  == {DotConfig} \cup Seconds

\* What a fix plans in second id[1] of id: a change that needs no undo, a copy
\* and an edit of .wslconfig, or exclusions; and the steps that undo it.
NeedsNoUndo(p) ==
    /\ Len(p.steps) = 1 /\ p.steps[1].kind \in {"note", "file_delete", "exec"}
    /\ p.rollback \in {<< >>, <<Note>>}
EditsConfig(id, p) ==
    /\ id[2] = "wslconfig" /\ Len(p.steps) = 3 /\ p.steps[1] = FileCopy(DotConfig, id[1])
    /\ p.steps[2].kind = "file_write" /\ p.steps[3].kind = "note"
    /\ p.rollback = <<FileCopy(id[1], DotConfig)>>
Excludes(id, p, items) ==
    /\ id[2] = "defender" /\ p.steps = <<Exclusions("Add", items), Note>>
    /\ p.rollback = <<Exclusions("Remove", items)>>
Shape(id, p) ==
    NeedsNoUndo(p) \/ EditsConfig(id, p) \/ \E items \in SUBSET Item : Excludes(id, p, items)

\* An undo writes nothing but .wslconfig and the exclusions.
UndoStep(s) ==
    \/ s.kind \in {"note", "wmi_method"}
    \/ s.kind = "file_copy" /\ s.args[1] \in Seconds /\ s.args[2] = DotConfig

IsJob(j) ==
    /\ j = [state |-> j.state, id |-> j.id, plan |-> j.plan, next |-> j.next,
            snap |-> j.snap, copied |-> j.copied]
    /\ j.state \in {"free", "seen", "planned", "applies", "undoes"} /\ j.next \in Nat

Live(j) == j.state \in {"planned", "applies"}

\* A plan that is followed is in the journal, as it is followed, and what its
\* fix writes over is in the backup.
JobOK(j) ==
    /\ j.state = "seen" => j.id[2] \in Fixes
    /\ j.state \in {"free", "seen", "planned"} => j.next = 1
    /\ Live(j) => j.id \in planned.ids /\ Shape(j.id, j.plan)
    /\ j.state \in {"applies", "undoes"} =>
           Len(j.plan.steps) \in Nat /\ j.next \in 1..Len(j.plan.steps)
    /\ j.state = "applies" =>
           /\ j.id \in DOMAIN journal
           /\ j.id \notin planned.twice =>
                  /\ journal[j.id] = j.plan
                  /\ j.id[2] = "wslconfig" /\ j.next = 2 => texts[j.id[1]] = j.copied
    /\ j.state = "undoes" => \A i \in 1..Len(j.plan.steps) : UndoStep(j.plan.steps[i])

JournalOK ==
    /\ DOMAIN journal \subseteq planned.ids
    /\ \A id \in DOMAIN journal : Shape(id, journal[id])

\* An id that was given out once is that of one command.
OneEach ==
    \A t, u \in Terminal :
        t # u /\ Live(job[t]) /\ Live(job[u]) /\ job[t].id = job[u].id => job[t].id \in planned.twice

\* The command that made a change is past the step that makes the backup.
Past(c) ==
    \A t \in Terminal : Live(job[t]) /\ job[t].id = c.id => job[t].state = "applies" /\ job[t].next > 1

GivesBack(c, p) ==
    \A i \in DOMAIN p.rollback :
        LET s == p.rollback[i] IN
        /\ s.kind = "file_copy" => texts[s.args[1]] = c.config
        /\ s.kind = "wmi_method" => c.added = s.args[2]

ChangeOK(c) ==
    /\ c.id \in planned.ids
    /\ c.id \notin planned.twice =>
           c.id \in DOMAIN journal /\ Past(c) /\ (~c.stale => GivesBack(c, journal[c.id]))

FixTyped ==
    /\ now \in Seconds /\ planned.ids \subseteq Seconds \X Fixes
    /\ planned = [ids |-> planned.ids, twice |-> planned.twice]
    /\ texts = [n \in Places |-> texts[n]]
    /\ job = [t \in Terminal |-> job[t]] /\ \A t \in Terminal : IsJob(job[t])

\* The inductive invariant of the fixes.
FixInv ==
    /\ FixTyped /\ JournalOK /\ OneEach
    /\ \A t \in Terminal : JobOK(job[t])
    /\ \A c \in changes : ChangeOK(c)

\* One field of a command changes.
LEMMA PutState ==
    ASSUME NEW j, IsJob(j), NEW x \in {"free", "seen", "planned", "applies", "undoes"}
    PROVE  LET k == [j EXCEPT !.state = x] IN
           IsJob(k) /\ k.state = x /\ k.id = j.id /\ k.plan = j.plan /\ k.next = j.next /\ k.snap = j.snap
BY DEF IsJob

LEMMA PutId ==
    ASSUME NEW j, IsJob(j), NEW x
    PROVE  LET k == [j EXCEPT !.id = x] IN
           IsJob(k) /\ k.id = x /\ k.state = j.state /\ k.plan = j.plan /\ k.next = j.next /\ k.snap = j.snap
BY DEF IsJob

LEMMA PutPlan ==
    ASSUME NEW j, IsJob(j), NEW x
    PROVE  LET k == [j EXCEPT !.plan = x] IN
           IsJob(k) /\ k.plan = x /\ k.state = j.state /\ k.id = j.id /\ k.next = j.next /\ k.snap = j.snap
BY DEF IsJob

LEMMA PutNext ==
    ASSUME NEW j, IsJob(j), NEW x \in Nat
    PROVE  LET k == [j EXCEPT !.next = x] IN
           IsJob(k) /\ k.next = x /\ k.state = j.state /\ k.id = j.id /\ k.plan = j.plan /\ k.snap = j.snap /\ k.copied = j.copied
BY DEF IsJob

LEMMA PutSnap ==
    ASSUME NEW j, IsJob(j), NEW x
    PROVE  LET k == [j EXCEPT !.snap = x] IN
           IsJob(k) /\ k.snap = x /\ k.state = j.state /\ k.id = j.id /\ k.plan = j.plan /\ k.next = j.next
BY DEF IsJob

LEMMA PutCopied ==
    ASSUME NEW j, IsJob(j), NEW x
    PROVE  LET k == [j EXCEPT !.copied = x] IN
           IsJob(k) /\ k.copied = x /\ k.state = j.state /\ k.id = j.id /\ k.plan = j.plan /\ k.next = j.next /\ k.snap = j.snap
BY DEF IsJob

\* What a fix plans is one of these.
LEMMA PlanShape ==
    ASSUME NEW fix \in Fixes, NEW s, NEW snap
    PROVE  Shape(<<s, fix>>, PlanOf(fix, s, snap))
<1> DEFINE id == <<s, fix>>
           p == PlanOf(fix, s, snap)
<1>1. CASE fix = "wslconfig"
    <2>1. p = WslConfigPlan(s, snap)
        BY <1>1 DEF PlanOf
    <2>2. NeedsNoUndo(p) \/ EditsConfig(id, p)
        BY <1>1, <2>1 DEF WslConfigPlan, NeedsNoUndo, EditsConfig, Note, FileWrite, FileCopy, Step
    <2> QED
        BY <2>2 DEF Shape
<1>2. CASE fix = "defender"
    <2> DEFINE items == IF snap.readable THEN Item \ snap.excluded ELSE Item
    <2>1. p = DefenderPlan(snap) /\ items \in SUBSET Item
        BY <1>2 DEF PlanOf
    <2>2. p = IF items = {} THEN [steps |-> <<Note>>, rollback |-> << >>]
              ELSE [steps |-> <<Exclusions("Add", items), Note>>,
                    rollback |-> <<Exclusions("Remove", items)>>]
        BY <2>1 DEF DefenderPlan
    <2>3. Note.kind = "note"
        BY DEF Note, Step
    <2> HIDE DEF p, items
    <2>4. NeedsNoUndo(p) \/ Excludes(id, p, items)
        BY <1>2, <2>2, <2>3 DEF NeedsNoUndo, Excludes
    <2> QED
        BY <2>1, <2>4 DEF Shape, p, items
<1>3. CASE fix \in {"zone", "shutdown"}
    <2>1. p = ZonePlan(snap) \/ p = ExecPlan
        BY <1>3 DEF PlanOf
    <2>2. NeedsNoUndo(p)
        BY <2>1 DEF ZonePlan, ExecPlan, NeedsNoUndo, Note, Execute, FileDelete, Step
    <2> QED
        BY <2>2 DEF Shape
<1> QED
    BY <1>1, <1>2, <1>3 DEF Fixes

\* A terminal without a command.
LEMMA RestingJob == IsJob(AtRest) /\ AtRest.state = "free" /\ AtRest.next = 1
BY DEF AtRest, IsJob

\* At the start there are no commands, plans and changes.
LEMMA FixInitInv == FixInit => FixInv
<1> SUFFICES ASSUME FixInit
             PROVE  FixInv
    OBVIOUS
<1>1. \A t \in Terminal : job[t] = AtRest
    BY DEF FixInit
<1>2. FixTyped
    <2>1. now \in Seconds
        BY FixAssumption DEF FixInit, Seconds
    <2>2. texts = [n \in Places |-> texts[n]]
        BY DEF FixInit, Places, Seconds
    <2>3. job = [t \in Terminal |-> job[t]] /\ \A t \in Terminal : IsJob(job[t])
        BY <1>1, RestingJob DEF FixInit
    <2>4. planned.ids \subseteq Seconds \X Fixes /\ planned = [ids |-> planned.ids, twice |-> planned.twice]
        BY DEF FixInit
    <2> QED
        BY <2>1, <2>2, <2>3, <2>4 DEF FixTyped
<1>3. JournalOK /\ OneEach
    BY <1>1, RestingJob DEF FixInit, JournalOK, OneEach, Live
<1>4. \A t \in Terminal : JobOK(job[t])
    BY <1>1, RestingJob DEF JobOK, Live
<1> QED
    BY <1>2, <1>3, <1>4 DEF FixInv, FixInit

\* A file is written: with c, unless it fails.
Puts(w, n, ok, c) == \E x : w.texts = [texts EXCEPT ![n] = x] /\ (ok => x = c)

\* What a step of a plan may come to.
LEMMA OutcomeFacts ==
    ASSUME FixTyped, NEW s, NEW ok \in BOOLEAN, NEW w \in Outcomes(s, ok),
           s.kind \in {"note", "file_delete", "exec", "file_copy", "file_write", "wmi_method"}
    PROVE  /\ s.kind \notin {"file_copy", "file_write"} => w.texts = texts
           /\ s.kind # "wmi_method" => w.excluded = excluded
           /\ s.kind = "file_copy" =>
                  \/ w.texts = texts /\ ~ok
                  \/ Puts(w, s.args[2], ok, texts[s.args[1]])
           /\ s.kind = "file_write" => Puts(w, DotConfig, ok, s.args[1])
           /\ s.kind = "wmi_method" /\ s.args[1] = "Add" =>
                  w.excluded \in {excluded, excluded \cup s.args[2]}
<1> DEFINE u == [texts |-> texts, excluded |-> excluded, marks |-> marks]
<1>1. CASE s.kind \in {"note", "exec"}
    BY <1>1 DEF Outcomes
<1>2. CASE s.kind = "file_delete"
    BY <1>2 DEF Outcomes
<1>3. CASE s.kind = "wmi_method"
    BY <1>3 DEF Outcomes
<1>4. CASE s.kind = "file_copy"
    <2>1. \/ w = u /\ ~ok
          \/ \E x \in IF ok THEN {texts[s.args[1]]} ELSE {texts[s.args[2]], Torn} :
                 w = [u EXCEPT !.texts[s.args[2]] = x]
        BY <1>4 DEF Outcomes
    <2>2. \A x : /\ [u EXCEPT !.texts[s.args[2]] = x].texts = [texts EXCEPT ![s.args[2]] = x]
                 /\ [u EXCEPT !.texts[s.args[2]] = x].excluded = excluded
        OBVIOUS
    <2>3. CASE w = u /\ ~ok
        BY <1>4, <2>3
    <2>4. ASSUME NEW x \in IF ok THEN {texts[s.args[1]]} ELSE {texts[s.args[2]], Torn},
                 w = [u EXCEPT !.texts[s.args[2]] = x]
          PROVE  /\ w.excluded = excluded
                 /\ Puts(w, s.args[2], ok, texts[s.args[1]])
        <3>1. /\ w.texts = [texts EXCEPT ![s.args[2]] = x] /\ w.excluded = excluded
              /\ ok => x = texts[s.args[1]]
            BY <2>2, <2>4
        <3> QED
            BY <3>1 DEF Puts
    <2> HIDE DEF u
    <2> QED
        BY <1>4, <2>1, <2>3, <2>4
<1>5. CASE s.kind = "file_write"
    <2>1. \E x \in IF ok THEN {s.args[1]} ELSE {texts[DotConfig], Torn} :
                 w = [u EXCEPT !.texts[DotConfig] = x]
        BY <1>5 DEF Outcomes
    <2>2. \A x : /\ [u EXCEPT !.texts[DotConfig] = x].texts = [texts EXCEPT ![DotConfig] = x]
                 /\ [u EXCEPT !.texts[DotConfig] = x].excluded = excluded
        OBVIOUS
    <2>3. ASSUME NEW x \in IF ok THEN {s.args[1]} ELSE {texts[DotConfig], Torn},
                 w = [u EXCEPT !.texts[DotConfig] = x]
          PROVE  w.excluded = excluded /\ Puts(w, DotConfig, ok, s.args[1])
        <3>1. /\ w.texts = [texts EXCEPT ![DotConfig] = x] /\ w.excluded = excluded
              /\ ok => x = s.args[1]
            BY <2>2, <2>3
        <3> QED
            BY <3>1 DEF Puts
    <2> HIDE DEF u
    <2> QED
        BY <1>5, <2>1, <2>3
<1> QED
    BY <1>1, <1>2, <1>3, <1>4, <1>5

\* What the undo of a plan does.
LEMMA RollbackOf ==
    ASSUME NEW id, NEW p, Shape(id, p), NEW i \in DOMAIN p.rollback
    PROVE  LET s == p.rollback[i] IN
           /\ i = 1 /\ s.kind \in {"note", "file_copy", "wmi_method"}
           /\ s.kind = "file_copy" =>
                  EditsConfig(id, p) /\ s.args[1] = id[1] /\ s.args[2] = DotConfig
           /\ s.kind = "wmi_method" =>
                  \E items \in SUBSET Item : Excludes(id, p, items) /\ s.args[2] = items
<1>1. CASE NeedsNoUndo(p)
    BY <1>1 DEF NeedsNoUndo, Note, Step
<1>2. CASE EditsConfig(id, p)
    <2>1. i = 1 /\ p.rollback[i] = FileCopy(id[1], DotConfig)
        BY <1>2 DEF EditsConfig
    <2>2. /\ FileCopy(id[1], DotConfig).kind = "file_copy"
          /\ FileCopy(id[1], DotConfig).args = <<id[1], DotConfig>>
        BY DEF FileCopy, Step
    <2> QED
        BY <1>2, <2>1, <2>2
<1>3. ASSUME NEW items \in SUBSET Item, Excludes(id, p, items)
      PROVE  /\ i = 1 /\ p.rollback[i].kind = "wmi_method"
             /\ p.rollback[i].args[2] = items
    <2>1. i = 1 /\ p.rollback[i] = Exclusions("Remove", items)
        BY <1>3 DEF Excludes
    <2>2. /\ Exclusions("Remove", items).kind = "wmi_method"
          /\ Exclusions("Remove", items).args = <<"Remove", items>>
        BY DEF Exclusions, Step
    <2> QED
        BY <2>1, <2>2
<1> QED
    BY <1>1, <1>2, <1>3 DEF Shape

\* An id is its second and its fix.
LEMMA SameId ==
    ASSUME NEW a \in Seconds \X Fixes, NEW b \in Seconds \X Fixes, a[1] = b[1], a[2] = b[2]
    PROVE  a = b
OBVIOUS

\* A command goes on: no backup is written but that of its own copy.
BackupOf(t, n) ==
    /\ job[t].state = "applies" /\ job[t].next = 1
    /\ job[t].id[1] = n /\ job[t].id[2] = "wslconfig"

\* A command that moves on, or ends, keeps the invariant.
LEMMA JobMoves ==
    ASSUME FixInv, NEW t \in Terminal,
           job' = [job EXCEPT ![t] = job'[t]], IsJob(job'[t]), JobOK(job[t])',
           Live(job'[t]) => /\ Live(job[t]) /\ job'[t].id = job[t].id
                            /\ job[t].state = "applies" =>
                                   job'[t].state = "applies" /\ job'[t].next >= job[t].next,
           UNCHANGED <<now, journal, planned>>, texts' = [n \in Places |-> texts'[n]],
           \A n \in Seconds : texts'[n] = texts[n] \/ BackupOf(t, n),
           \A c \in changes' : c \in changes \/ ChangeOK(c)'
    PROVE  FixInv'
<1>1. FixTyped /\ JournalOK /\ OneEach
    BY DEF FixInv
<1>2. \A u \in Terminal : (u # t => job'[u] = job[u]) /\ IsJob(job[u])
    <2>1. job = [u \in Terminal |-> job[u]] /\ \A u \in Terminal : IsJob(job[u])
        BY <1>1 DEF FixTyped
    <2>2. DOMAIN job = Terminal
        BY <2>1
    <2>3. ASSUME NEW u \in Terminal, u # t
          PROVE  job'[u] = job[u]
        <3>1. [job EXCEPT ![t] = job'[t]][u] = job[u]
            BY <2>2, <2>3
        <3> QED
            BY <3>1
    <2> QED
        BY <2>1, <2>3
<1>3. ASSUME NEW u \in Terminal, Live(job'[u])
      PROVE  /\ Live(job[u]) /\ job'[u].id = job[u].id
             /\ job[u].state = "applies" => job'[u].state = "applies" /\ job'[u].next >= job[u].next
    <2>1. CASE u = t
        BY <1>3, <2>1
    <2>2. CASE u # t
        <3>1. job'[u] = job[u] /\ job[u].next \in Nat
            BY <1>2, <2>2 DEF IsJob
        <3> DEFINE k == job[u].next
        <3>2. k >= k
            BY <3>1
        <3> QED
            BY <1>3, <3>1, <3>2
    <2> QED
        BY <2>1, <2>2
<1>4. FixTyped'
    <2>1. job' = [u \in Terminal |-> job'[u]]
        BY <1>1 DEF FixTyped
    <2>2. \A u \in Terminal : IsJob(job'[u])
        BY <1>2
    <2> QED
        BY <1>1, <2>1, <2>2 DEF FixTyped
<1>5. JournalOK'
    BY <1>1 DEF JournalOK
<1>6. OneEach'
    BY <1>1, <1>3 DEF OneEach
<1>7. ASSUME NEW u \in Terminal, u # t
      PROVE  JobOK(job[u])'
    <2> DEFINE j == job[u]
    <2>1. JobOK(j) /\ job'[u] = job[u]
        BY <1>2, <1>7 DEF FixInv
    <2>2. ASSUME j.state = "applies", j.id \notin planned.twice, j.id[2] = "wslconfig", j.next = 2
          PROVE  texts'[j.id[1]] = j.copied
        <3>1. j.id \in planned.ids /\ Live(j) /\ texts[j.id[1]] = j.copied
            BY <2>1, <2>2 DEF JobOK, Live
        <3>2. j.id \in Seconds \X Fixes /\ j.id[1] \in Seconds
            BY <1>1, <3>1 DEF FixTyped
        <3>3. CASE BackupOf(t, j.id[1])
            <4>1. Live(job[t]) /\ JobOK(job[t])
                BY <3>3 DEF BackupOf, Live, FixInv
            <4>2. job[t].id \in Seconds \X Fixes
                BY <1>1, <4>1 DEF JobOK, FixTyped
            <4>3. job[t].id = j.id
                BY <2>2, <3>2, <3>3, <4>2, SameId DEF BackupOf
            <4> QED
                BY <1>1, <1>7, <2>2, <3>1, <4>1, <4>3 DEF OneEach
        <3> QED
            BY <3>1, <3>2, <3>3
    <2> QED
        BY <2>1, <2>2 DEF JobOK
<1>8. ASSUME NEW c \in changes
      PROVE  ChangeOK(c)'
    <2>1. ChangeOK(c)
        BY DEF FixInv
    <2>2. Past(c) => Past(c)'
        <3> SUFFICES ASSUME Past(c), NEW u \in Terminal, Live(job'[u]), job'[u].id = c.id
                     PROVE  job'[u].state = "applies" /\ job'[u].next > 1
            BY DEF Past
        <3>1. Live(job[u]) /\ job[u].id = c.id
            BY <1>3
        <3>2. job[u].state = "applies" /\ job[u].next > 1
            BY <3>1 DEF Past
        <3>3. job'[u].state = "applies" /\ job'[u].next >= job[u].next
            BY <1>3, <3>2
        <3>4. job[u].next \in Nat /\ job'[u].next \in Nat
            BY <1>2 DEF IsJob
        <3> QED
            BY <3>2, <3>3, <3>4
    <2>3. ASSUME c.id \notin planned.twice, c.id \in DOMAIN journal, Past(c), GivesBack(c, journal[c.id])
          PROVE  GivesBack(c, journal[c.id])'
        <3> DEFINE p == journal[c.id]
        <3>1. Shape(c.id, p) /\ c.id \in Seconds \X Fixes
            BY <1>1, <2>3 DEF JournalOK, FixTyped
        <3>2. ASSUME NEW i \in DOMAIN p.rollback
              PROVE  /\ p.rollback[i].kind = "file_copy" => texts'[p.rollback[i].args[1]] = c.config
                     /\ p.rollback[i].kind = "wmi_method" => c.added = p.rollback[i].args[2]
            <4>1. /\ p.rollback[i].kind = "file_copy" => texts[p.rollback[i].args[1]] = c.config
                  /\ p.rollback[i].kind = "wmi_method" => c.added = p.rollback[i].args[2]
                BY <2>3 DEF GivesBack
            <4>2. CASE p.rollback[i].kind = "file_copy"
                <5>1. p.rollback[i].args[1] = c.id[1] /\ c.id[2] = "wslconfig"
                    BY <3>1, <4>2, RollbackOf DEF EditsConfig
                <5>2. CASE BackupOf(t, c.id[1])
                    <6>1. Live(job[t]) /\ JobOK(job[t])
                        BY <5>2 DEF BackupOf, Live, FixInv
                    <6>2. job[t].id \in Seconds \X Fixes
                        BY <1>1, <6>1 DEF JobOK, FixTyped
                    <6>3. job[t].id = c.id
                        BY <3>1, <5>1, <5>2, <6>2, SameId DEF BackupOf
                    <6> QED
                        BY <2>3, <5>2, <6>1, <6>3 DEF Past, BackupOf
                <5> QED
                    BY <3>1, <4>1, <4>2, <5>1, <5>2
            <4> QED
                BY <4>1, <4>2
        <3> QED
            BY <3>2 DEF GivesBack
    <2> QED
        BY <2>1, <2>2, <2>3 DEF ChangeOK
<1> QED
    BY <1>4, <1>5, <1>6, <1>7, <1>8 DEF FixInv

\* What becomes of a command that did not follow a plan, or no longer does.
LEMMA JobIs ==
    ASSUME FixInv, NEW t \in Terminal, NEW k, job' = [job EXCEPT ![t] = k]
    PROVE  job'[t] = k /\ job' = [job EXCEPT ![t] = job'[t]] /\ IsJob(job[t]) /\ JobOK(job[t])
           /\ \A u \in Terminal : u # t => job'[u] = job[u]
<1>1. job = [u \in Terminal |-> job[u]] /\ \A u \in Terminal : IsJob(job[u]) /\ JobOK(job[u])
    BY DEF FixInv, FixTyped
<1>2. DOMAIN job = Terminal
    BY <1>1
<1>3. job'[t] = k
    BY <1>2
<1>4. ASSUME NEW u \in Terminal, u # t
      PROVE  job'[u] = job[u]
    <2>1. [job EXCEPT ![t] = k][u] = job[u]
        BY <1>2, <1>4
    <2> QED
        BY <2>1
<1> QED
    BY <1>1, <1>3, <1>4

\* The places there are.
LEMMA TextsTyped == FixInv => texts = [n \in Places |-> texts[n]]
BY DEF FixInv, FixTyped

\* A command that ends owes nothing.
LEMMA RestingOK == ASSUME NEW t, job'[t] = AtRest PROVE IsJob(job'[t]) /\ ~Live(job'[t]) /\ JobOK(job[t])'
BY RestingJob DEF JobOK, Live

\* A snapshot is collected.
LEMMA SurveyKeeps ==
    ASSUME FixInv, NEW t \in Terminal, NEW fix \in Fixes, Survey(t, fix)
    PROVE  FixInv'
<1>1. PICK readable \in BOOLEAN :
        job' = [job EXCEPT ![t].state = "seen", ![t].id = <<now, fix>>,
                  ![t].snap = [config |-> texts[DotConfig], excluded |-> excluded,
                               readable |-> readable, marks |-> marks]]
    BY DEF Survey
<1> DEFINE seen == [config |-> texts[DotConfig], excluded |-> excluded,
                    readable |-> readable, marks |-> marks]
           k == [job[t] EXCEPT !.state = "seen", !.id = <<now, fix>>, !.snap = seen]
<1>2. job' = [job EXCEPT ![t] = k]
    <2>1. t \in DOMAIN job
        BY DEF FixInv, FixTyped
    <2> QED
        BY <1>1, <2>1
<1>3. IsJob(job[t]) /\ job[t].state = "free" /\ JobOK(job[t])
    BY <1>2, JobIs DEF Survey
<1>4. IsJob(k) /\ k.state = "seen" /\ k.id = <<now, fix>> /\ k.next = job[t].next
    <2> DEFINE id == <<now, fix>>
               a == [job[t] EXCEPT !.state = "seen"]
               b == [a EXCEPT !.id = id]
    <2> HIDE DEF seen, id
    <2>1. IsJob(a) /\ a.state = "seen" /\ a.next = job[t].next
        BY <1>3, PutState
    <2> HIDE DEF a
    <2>2. IsJob(b) /\ b.state = "seen" /\ b.next = job[t].next /\ b.id = id
        BY <2>1, PutId
    <2> HIDE DEF b
    <2>3. k = [b EXCEPT !.snap = seen]
        BY DEF a, b, id
    <2> HIDE DEF k
    <2>4. IsJob(k) /\ k.state = "seen" /\ k.next = job[t].next /\ k.id = id
        BY <2>2, <2>3, PutSnap
    <2> QED
        BY <2>4 DEF id
<1> HIDE DEF k
<1>5. job'[t] = k /\ job' = [job EXCEPT ![t] = job'[t]]
    BY <1>2, JobIs
<1>6. k.next = 1
    BY <1>3, <1>4 DEF JobOK
<1>7. JobOK(job[t])'
    BY <1>4, <1>5, <1>6 DEF JobOK, Live
<1>8. UNCHANGED <<now, journal, planned, texts, changes>>
    BY DEF Survey, World
<1> QED
    BY <1>4, <1>5, <1>7, <1>8, TextsTyped, JobMoves DEF Live

\* The terminal is closed.
LEMMA KilledKeeps ==
    ASSUME FixInv, NEW t \in Terminal, Killed(t)
    PROVE  FixInv'
<1>1. job' = [job EXCEPT ![t] = AtRest] /\ UNCHANGED <<now, journal, planned, texts, changes>>
    BY DEF Killed, World
<1>2. job'[t] = AtRest /\ job' = [job EXCEPT ![t] = job'[t]]
    BY <1>1, JobIs
<1> QED
    BY <1>1, <1>2, RestingOK, TextsTyped, JobMoves

\* The undo of a plan begins: it writes no backup.
LEMMA UndoKeeps ==
    ASSUME FixInv, NEW t \in Terminal, NEW id \in DOMAIN journal, UndoFix(t, id)
    PROVE  FixInv'
<1> DEFINE p == journal[id]
           q == [steps |-> p.rollback, rollback |-> << >>]
           k == [AtRest EXCEPT !.state = "undoes", !.id = id, !.plan = q]
<1>1. /\ job' = [job EXCEPT ![t] = k] /\ UNCHANGED <<now, journal, planned, texts, changes>>
      /\ p.rollback # << >>
    BY DEF UndoFix, World
<1>2. IsJob(k) /\ k.state = "undoes" /\ k.next = 1 /\ k.plan.steps = p.rollback
    <2> DEFINE a == [AtRest EXCEPT !.state = "undoes"]
               b == [a EXCEPT !.id = id]
    <2>1. IsJob(a) /\ a.state = "undoes" /\ a.next = 1
        BY RestingJob, PutState
    <2> HIDE DEF a
    <2>2. IsJob(b) /\ b.state = "undoes" /\ b.next = 1
        BY <2>1, PutId
    <2>3. q.steps = p.rollback
        OBVIOUS
    <2> HIDE DEF b, q
    <2>4. k = [b EXCEPT !.plan = q]
        BY DEF a, b
    <2> HIDE DEF k
    <2>5. IsJob(k) /\ k.state = "undoes" /\ k.next = 1 /\ k.plan = q
        BY <2>2, <2>4, PutPlan
    <2> QED
        BY <2>3, <2>5
<1>3. Shape(id, p) /\ id \in Seconds \X Fixes
    BY DEF FixInv, JournalOK, FixTyped
<1>4. /\ Len(p.rollback) = 1 /\ 1 \in DOMAIN p.rollback
    <2>1. p.rollback = << >> \/ \E s : p.rollback = <<s>>
        BY <1>3 DEF Shape, NeedsNoUndo, EditsConfig, Excludes
    <2>2. p.rollback # << >>
        BY <1>1
    <2>3. \A s : Len(<<s>>) = 1 /\ 1 \in DOMAIN <<s>>
        OBVIOUS
    <2> HIDE DEF p
    <2> QED
        BY <2>1, <2>2, <2>3
<1>5. UndoStep(p.rollback[1])
    BY <1>3, <1>4, RollbackOf DEF UndoStep
<1> HIDE DEF k, p
<1>6. job'[t] = k /\ job' = [job EXCEPT ![t] = job'[t]]
    BY <1>1, JobIs
<1>7. JobOK(job[t])'
    BY <1>2, <1>4, <1>5, <1>6 DEF JobOK, Live
<1> QED
    BY <1>1, <1>2, <1>6, <1>7, TextsTyped, JobMoves DEF Live

\* The world moves on: the user edits, and the clock ticks.
LEMMA WorldKeeps ==
    ASSUME FixInv, Tick \/ UserEdits
    PROVE  FixInv'
<1>1. UNCHANGED <<job, journal, planned, changes>>
    BY DEF Tick, UserEdits
<1>2. texts' = [n \in Places |-> texts'[n]] /\ \A n \in Seconds : texts'[n] = texts[n]
    <2>1. CASE UNCHANGED texts
        BY <2>1, TextsTyped
    <2>2. ASSUME NEW x, texts' = [texts EXCEPT ![DotConfig] = x]
          PROVE  texts' = [n \in Places |-> texts'[n]] /\ \A n \in Seconds : texts'[n] = texts[n]
        <3>1. DOMAIN texts = Places
            BY TextsTyped
        <3>2. DotConfig \notin Seconds /\ Seconds \subseteq Places
            BY FixAssumption DEF DotConfig, Seconds, Places
        <3> QED
            BY <2>2, <3>1, <3>2
    <2> QED
        BY <2>1, <2>2 DEF Tick, UserEdits, World
<1>3. now' \in Seconds
    <2>1. now \in Seconds
        BY DEF FixInv, FixTyped
    <2>2. now' = now \/ (now < MaxSeconds /\ now' = now + 1)
        BY DEF Tick, UserEdits
    <2> QED
        BY <2>1, <2>2, FixAssumption DEF Seconds
<1>4. FixTyped' /\ JournalOK' /\ OneEach'
    BY <1>1, <1>2, <1>3 DEF FixInv, FixTyped, JournalOK, OneEach
<1>5. ASSUME NEW t \in Terminal
      PROVE  JobOK(job[t])'
    <2>1. JobOK(job[t])
        BY DEF FixInv
    <2>2. Live(job[t]) => job[t].id[1] \in Seconds
        BY <2>1 DEF JobOK, FixInv, FixTyped
    <2> QED
        BY <1>1, <1>2, <2>1, <2>2 DEF JobOK, Live
<1>6. ASSUME NEW c \in changes
      PROVE  ChangeOK(c)'
    <2>1. ChangeOK(c)
        BY DEF FixInv
    <2>2. ASSUME c.id \in DOMAIN journal, GivesBack(c, journal[c.id])
          PROVE  GivesBack(c, journal[c.id])'
        <3>1. Shape(c.id, journal[c.id]) /\ c.id[1] \in Seconds
            BY <2>1, <2>2 DEF FixInv, JournalOK, FixTyped
        <3>2. \A i \in DOMAIN journal[c.id].rollback :
                  journal[c.id].rollback[i].kind = "file_copy" =>
                      journal[c.id].rollback[i].args[1] = c.id[1]
            BY <3>1, RollbackOf
        <3> QED
            BY <1>1, <1>2, <2>2, <3>1, <3>2 DEF GivesBack
    <2> QED
        BY <1>1, <2>1, <2>2 DEF ChangeOK, Past
<1> QED
    BY <1>1, <1>4, <1>5, <1>6 DEF FixInv

\* The plan is in the journal before its first step runs.
LEMMA SaveKeeps ==
    ASSUME FixInv, NEW t \in Terminal, Save(t)
    PROVE  FixInv'
<1> DEFINE j == job[t]
           k == [j EXCEPT !.state = "applies"]
<1>1. /\ j.state = "planned" /\ UNCHANGED <<now, planned, texts, changes>>
      /\ \/ Written(j.id, j.plan) /\ job' = [job EXCEPT ![t].state = "applies"]
         \/ job' = [job EXCEPT ![t] = AtRest] /\ UNCHANGED journal
    BY DEF Save, World
<1>2. CASE job' = [job EXCEPT ![t] = AtRest] /\ UNCHANGED journal
    <2>1. job'[t] = AtRest /\ job' = [job EXCEPT ![t] = job'[t]]
        BY <1>2, JobIs
    <2> QED
        BY <1>1, <1>2, <2>1, RestingOK, TextsTyped, JobMoves
<1>3. CASE Written(j.id, j.plan) /\ job' = [job EXCEPT ![t].state = "applies"]
    <2>1. job' = [job EXCEPT ![t] = k]
        <3>1. t \in DOMAIN job
            BY DEF FixInv, FixTyped
        <3> QED
            BY <1>3, <3>1
    <2>2. /\ job'[t] = k /\ IsJob(j) /\ JobOK(j) /\ \A u \in Terminal : u # t => job'[u] = job[u]
        BY <2>1, JobIs
    <2>3. /\ IsJob(k) /\ k.state = "applies" /\ k.id = j.id /\ k.plan = j.plan /\ k.next = j.next
        BY <2>2, PutState
    <2> HIDE DEF k
    <2>4. /\ j.next = 1 /\ j.id \in planned.ids /\ Shape(j.id, j.plan) /\ Live(j)
        BY <1>1, <2>2 DEF JobOK, Live
    <2>5. /\ DOMAIN journal' = DOMAIN journal \cup {j.id} /\ journal'[j.id] = j.plan
          /\ \A id \in DOMAIN journal \ {j.id} : journal'[id] = journal[id]
        BY <1>3 DEF Written
    <2>6. \A u \in Terminal : Live(job'[u]) => Live(job[u]) /\ job'[u].id = job[u].id
        BY <2>2, <2>3, <2>4
    <2>7. FixTyped'
        <3>1. job' = [u \in Terminal |-> job'[u]]
            BY <2>1 DEF FixInv, FixTyped
        <3>2. \A u \in Terminal : IsJob(job'[u])
            BY <2>2, <2>3 DEF FixInv, FixTyped
        <3> QED
            BY <1>1, <3>1, <3>2 DEF FixInv, FixTyped
    <2>8. JournalOK'
        BY <1>1, <2>4, <2>5 DEF FixInv, JournalOK
    <2>9. OneEach'
        BY <1>1, <2>6 DEF FixInv, OneEach
    <2>10. ASSUME NEW u \in Terminal
           PROVE  JobOK(job[u])'
        <3>1. CASE u = t
            <4>1. Len(j.plan.steps) \in Nat /\ 1 \in 1..Len(j.plan.steps)
                BY <2>4 DEF Shape, NeedsNoUndo, EditsConfig, Excludes
            <4> QED
                BY <1>1, <2>2, <2>3, <2>4, <2>5, <3>1, <4>1 DEF JobOK, Live
        <3>2. CASE u # t
            <4>1. job'[u] = job[u] /\ JobOK(job[u])
                BY <2>2, <3>2 DEF FixInv
            <4>2. job[u].state = "applies" /\ job[u].id \notin planned.twice => job[u].id # j.id
                BY <2>4, <3>2 DEF FixInv, OneEach, Live
            <4> QED
                BY <1>1, <2>5, <4>1, <4>2 DEF JobOK
        <3> QED
            BY <3>1, <3>2
    <2>11. ASSUME NEW c \in changes
           PROVE  ChangeOK(c)'
        <3>1. ChangeOK(c)
            BY DEF FixInv
        <3>2. CASE c.id \notin planned.twice
            <4>1. c.id \in DOMAIN journal /\ Past(c)
                BY <3>1, <3>2 DEF ChangeOK
            <4>2. c.id # j.id
                BY <1>1, <2>4, <4>1 DEF Past
            <4>3. journal'[c.id] = journal[c.id] /\ c.id \in DOMAIN journal'
                BY <2>5, <4>1, <4>2
            <4>4. Past(c)'
                BY <2>2, <2>3, <4>1, <4>2 DEF Past
            <4> QED
                BY <1>1, <3>1, <3>2, <4>3, <4>4 DEF ChangeOK, GivesBack
        <3> QED
            BY <1>1, <3>1, <3>2 DEF ChangeOK
    <2> QED
        BY <1>1, <2>7, <2>8, <2>9, <2>10, <2>11 DEF FixInv
<1> QED
    BY <1>1, <1>2, <1>3

\* A new id is that of no change, or one that was given out twice.
LEMMA PlansKeeps ==
    ASSUME FixInv, NEW t \in Terminal, Plans(t)
    PROVE  FixInv'
<1> DEFINE j == job[t]
           id == <<now, j.id[2]>>
           p == PlanOf(id[2], now, j.snap)
           a == [j EXCEPT !.state = "planned"]
           b == [a EXCEPT !.id = id]
           d == [b EXCEPT !.plan = p]
           k == [d EXCEPT !.snap = Unseen]
<1>1. /\ j.state = "seen" /\ UNCHANGED <<now, journal, texts, changes>>
      /\ planned' = [ids |-> planned.ids \cup {id}, twice |-> planned.twice \cup (planned.ids \cap {id})]
    BY DEF Plans, World
<1>2. job' = [job EXCEPT ![t] = k]
    <2>1. t \in DOMAIN job
        BY DEF FixInv, FixTyped
    <2> QED
        BY <2>1 DEF Plans
<1>3. /\ job'[t] = k /\ IsJob(j) /\ JobOK(j) /\ \A u \in Terminal : u # t => job'[u] = job[u]
    BY <1>2, JobIs
<1>4. j.next = 1 /\ j.id[2] \in Fixes
    BY <1>1, <1>3 DEF JobOK
<1>5. Shape(id, p) /\ id \in Seconds \X Fixes
    <2>1. now \in Seconds
        BY DEF FixInv, FixTyped
    <2>2. id[2] = j.id[2]
        OBVIOUS
    <2> QED
        BY <1>4, <2>1, <2>2, PlanShape
<1> HIDE DEF id, p
<1>6. IsJob(k) /\ k.state = "planned" /\ k.id = id /\ k.plan = p /\ k.next = 1
    <2>1. IsJob(a) /\ a.state = "planned" /\ a.next = 1
        BY <1>3, <1>4, PutState
    <2> HIDE DEF a
    <2>2. IsJob(b) /\ b.state = "planned" /\ b.next = 1 /\ b.id = id
        BY <2>1, PutId
    <2> HIDE DEF b
    <2>3. IsJob(d) /\ d.state = "planned" /\ d.next = 1 /\ d.id = id /\ d.plan = p
        BY <2>2, PutPlan
    <2> HIDE DEF d
    <2> QED
        BY <2>3, PutSnap
<1> HIDE DEF k
<1>7. planned'.ids = planned.ids \cup {id} /\ planned'.twice = planned.twice \cup (planned.ids \cap {id})
    BY <1>1
<1>8. FixTyped'
    <2>1. job' = [u \in Terminal |-> job'[u]]
        BY <1>2 DEF FixInv, FixTyped
    <2>2. \A u \in Terminal : IsJob(job'[u])
        BY <1>3, <1>6 DEF FixInv, FixTyped
    <2>3. planned'.ids \subseteq Seconds \X Fixes
        BY <1>5, <1>7 DEF FixInv, FixTyped
    <2> QED
        BY <1>1, <1>7, <2>1, <2>2, <2>3 DEF FixInv, FixTyped
<1>9. JournalOK'
    BY <1>1, <1>7 DEF FixInv, JournalOK
<1>10. \A u \in Terminal : Live(job[u]) => job[u].id \in planned.ids
    BY DEF FixInv, JobOK
<1>11. OneEach'
    BY <1>3, <1>6, <1>7, <1>10 DEF FixInv, OneEach
<1>12. ASSUME NEW u \in Terminal
       PROVE  JobOK(job[u])'
    <2>1. CASE u = t
        BY <1>1, <1>3, <1>5, <1>6, <1>7, <2>1 DEF JobOK, Live
    <2>2. CASE u # t
        BY <1>1, <1>3, <1>7, <2>2 DEF FixInv, JobOK
    <2> QED
        BY <2>1, <2>2
<1>13. ASSUME NEW c \in changes
       PROVE  ChangeOK(c)'
    <2>1. ChangeOK(c)
        BY DEF FixInv
    <2>2. ASSUME c.id \notin planned'.twice
          PROVE  Past(c) => Past(c)'
        <3>1. c.id # id
            BY <1>7, <2>1, <2>2 DEF ChangeOK
        <3> QED
            BY <1>3, <1>6, <3>1 DEF Past
    <2> QED
        BY <1>1, <1>7, <2>1, <2>2 DEF ChangeOK, GivesBack
<1> QED
    BY <1>1, <1>8, <1>9, <1>11, <1>12, <1>13 DEF FixInv


\* A step of a plan that is applied: it needs no undo, or it is the copy or the
\* edit of .wslconfig, or it adds exclusions.
LEMMA StepOf ==
    ASSUME NEW id, NEW p, Shape(id, p), NEW n \in 1..Len(p.steps)
    PROVE  LET s == p.steps[n] IN
           \/ /\ s.kind \in {"note", "file_delete", "exec"}
              /\ id[2] = "wslconfig" /\ n = 1 => Len(p.steps) = 1
           \/ EditsConfig(id, p) /\ n = 1 /\ s = FileCopy(DotConfig, id[1])
           \/ EditsConfig(id, p) /\ n = 2 /\ s.kind = "file_write"
           \/ \E items \in SUBSET Item :
                  Excludes(id, p, items) /\ n = 1 /\ s = Exclusions("Add", items)
<1>1. CASE NeedsNoUndo(p)
    BY <1>1 DEF NeedsNoUndo
<1>2. CASE EditsConfig(id, p)
    <2>1. n = 1 \/ n = 2 \/ n = 3
        BY <1>2 DEF EditsConfig
    <2> QED
        BY <1>2, <2>1 DEF EditsConfig
<1>3. ASSUME NEW items \in SUBSET Item, Excludes(id, p, items)
      PROVE  \/ p.steps[n].kind = "note" /\ id[2] = "defender"
             \/ n = 1 /\ p.steps[n] = Exclusions("Add", items)
    <2>1. p.steps = <<Exclusions("Add", items), Note>> /\ id[2] = "defender"
        BY <1>3 DEF Excludes
    <2>2. (n = 1 /\ p.steps[n] = Exclusions("Add", items)) \/ (n = 2 /\ p.steps[n] = Note)
        BY <2>1
    <2>3. Note.kind = "note"
        BY DEF Note, Step
    <2> QED
        BY <2>1, <2>2, <2>3
<1> QED
    BY <1>1, <1>2, <1>3 DEF Shape

\* What a step is recorded as.
LEMMA RecordedAs ==
    ASSUME NEW t, NEW s, NEW w, NEW c \in Recorded(t, s, w)
    PROVE  /\ job[t].state = "applies" /\ c.id = job[t].id
           /\ c.config = texts[DotConfig] /\ c.added = w.excluded \ excluded
           /\ w.texts[DotConfig] # texts[DotConfig] \/ w.excluded # excluded
           /\ w.texts[DotConfig] # texts[DotConfig] /\ ~c.stale => texts[DotConfig] = job[t].copied
           /\ w.texts[DotConfig] = texts[DotConfig] /\ ~c.stale => s.args[2] \cap excluded = {}
<1> DEFINE R(stale) == [id |-> job[t].id, config |-> texts[DotConfig], excluded |-> excluded,
                        added |-> w.excluded \ excluded, stale |-> stale]
           old == texts[DotConfig] # job[t].copied
           had == s.args[2] \cap excluded # {}
<1>1. /\ job[t].state = "applies"
      /\ \/ w.texts[DotConfig] # texts[DotConfig] /\ c = R(old)
         \/ /\ w.texts[DotConfig] = texts[DotConfig] /\ w.excluded # excluded
            /\ c = R(had)
    BY DEF Recorded
<1>2. \A x : /\ R(x).id = job[t].id /\ R(x).config = texts[DotConfig]
             /\ R(x).added = w.excluded \ excluded /\ R(x).stale = x
    OBVIOUS
<1> HIDE DEF R
<1>3. (~old => texts[DotConfig] = job[t].copied) /\ (~had => s.args[2] \cap excluded = {})
    OBVIOUS
<1> HIDE DEF old, had
<1> QED
    BY <1>1, <1>2, <1>3

\* After a step the command rests, or is at the next one.
LEMMA StepMoves ==
    ASSUME FixInv, NEW t \in Terminal, RunStep(t)
    PROVE  LET j == job[t] s == j.plan.steps[j.next] k == job'[t] IN
           /\ job' = [job EXCEPT ![t] = k] /\ IsJob(k) /\ IsJob(j) /\ JobOK(j)
           /\ \A u \in Terminal : u # t => job'[u] = job[u]
           /\ UNCHANGED <<now, journal, planned>>
           /\ \E ok \in BOOLEAN : \E w \in Outcomes(s, ok) :
                  /\ texts' = w.texts /\ excluded' = w.excluded
                  /\ changes' = changes \cup Recorded(t, s, w)
                  /\ \/ k = AtRest
                     \/ /\ ok /\ k.next = j.next + 1 /\ k.next \in 1..Len(j.plan.steps)
                        /\ k.state = j.state /\ k.id = j.id /\ k.plan = j.plan
                        /\ s.kind = "file_copy" => k.copied = texts[DotConfig]
<1> DEFINE j == job[t]
           s == j.plan.steps[j.next]
           copied == IF s.kind = "file_copy" THEN texts[DotConfig] ELSE j.copied
           a == [j EXCEPT !.next = j.next + 1]
           b == [a EXCEPT !.copied = copied]
           len == Len(j.plan.steps)
<1>1. PICK ok \in BOOLEAN : \E w \in Outcomes(s, ok) :
          /\ texts' = w.texts /\ excluded' = w.excluded
          /\ changes' = changes \cup Recorded(t, s, w)
          /\ job' = [job EXCEPT ![t] =
                IF ~ok \/ j.next = len THEN AtRest
                ELSE [j EXCEPT !.next = @ + 1,
                               !.copied = IF s.kind = "file_copy" THEN texts[DotConfig] ELSE @]]
    BY DEF RunStep
<1>2. /\ j.state \in {"applies", "undoes"} /\ UNCHANGED <<now, journal, planned>>
    BY DEF RunStep
<1>3. job' = [job EXCEPT ![t] = IF ~ok \/ j.next = len THEN AtRest ELSE b]
    BY <1>1
<1>4. /\ IsJob(j) /\ JobOK(j) /\ \A u \in Terminal : u # t => job'[u] = job[u]
      /\ job'[t] = (IF ~ok \/ j.next = len THEN AtRest ELSE b)
      /\ job' = [job EXCEPT ![t] = job'[t]]
    <2> DEFINE k == IF ~ok \/ j.next = len THEN AtRest ELSE b
    <2>1. job' = [job EXCEPT ![t] = k]
        BY <1>3
    <2> HIDE DEF k
    <2>2. job'[t] = k /\ job' = [job EXCEPT ![t] = job'[t]] /\ IsJob(j) /\ JobOK(j)
          /\ \A u \in Terminal : u # t => job'[u] = job[u]
        BY <2>1, JobIs
    <2> QED
        BY <2>2 DEF k
<1>5. j.next \in 1..len
    BY <1>2, <1>4 DEF JobOK
<1>10. len \in Nat
    BY <1>2, <1>4 DEF JobOK
<1> HIDE DEF len
<1>6. j.next + 1 \in Nat /\ j.next \in Nat
    BY <1>4 DEF IsJob
<1>7. /\ IsJob(b) /\ b.next = j.next + 1 /\ b.state = j.state /\ b.id = j.id /\ b.plan = j.plan
      /\ b.copied = copied
    <2> DEFINE n == j.next + 1
    <2> HIDE DEF copied, n
    <2>1. /\ IsJob(a) /\ a.next = n /\ a.state = j.state /\ a.id = j.id /\ a.plan = j.plan
        BY <1>4, <1>6, PutNext DEF n
    <2> HIDE DEF a
    <2>2. /\ IsJob(b) /\ b.next = n /\ b.state = j.state /\ b.id = j.id /\ b.plan = j.plan
          /\ b.copied = copied
        BY <2>1, PutCopied
    <2> QED
        BY <2>2 DEF n
<1> HIDE DEF b
<1>8. CASE ~ok \/ j.next = len
    <2>1. job'[t] = AtRest
        BY <1>4, <1>8
    <2>2. IsJob(job'[t])
        BY <2>1, RestingJob
    <2> QED
        BY <1>1, <1>2, <1>4, <2>1, <2>2
<1>9. CASE ok /\ j.next # len
    <2>1. job'[t] = b
        BY <1>4, <1>9
    <2>2. j.next + 1 \in 1..len
        <3> DEFINE n == j.next
        <3>1. n \in 1..len /\ n \in Nat /\ n # len
            BY <1>5, <1>6, <1>9
        <3> HIDE DEF n
        <3>2. n + 1 \in 1..len
            BY <1>10, <3>1
        <3> QED
            BY <3>2 DEF n
    <2>3. s.kind = "file_copy" => b.copied = texts[DotConfig]
        BY <1>7
    <2> QED
        BY <1>1, <1>2, <1>4, <1>7, <1>9, <2>1, <2>2, <2>3 DEF len
<1> QED
    BY <1>8, <1>9

\* A step that writes no backup but that of its own copy, and records only what
\* can be undone, keeps the invariant.
LEMMA StepEnds ==
    ASSUME FixInv, NEW t \in Terminal, job[t].state \in {"applies", "undoes"},
           JobOK(job[t]), IsJob(job[t]),
           job' = [job EXCEPT ![t] = job'[t]], IsJob(job'[t]),
           \/ job'[t] = AtRest
           \/ /\ job'[t].next = job[t].next + 1 /\ job'[t].next \in 1..Len(job[t].plan.steps)
              /\ job'[t].state = job[t].state /\ job'[t].id = job[t].id
              /\ job'[t].plan = job[t].plan,
           job'[t].state = "applies" /\ job'[t].id[2] = "wslconfig" /\ job'[t].next = 2 =>
               texts'[job'[t].id[1]] = job'[t].copied,
           UNCHANGED <<now, journal, planned>>, texts' = [n \in Places |-> texts'[n]],
           \A n \in Seconds : texts'[n] = texts[n] \/ BackupOf(t, n),
           \A c \in changes' : c \in changes \/ ChangeOK(c)'
    PROVE  FixInv'
<1>1. CASE job'[t] = AtRest
    BY <1>1, RestingOK, JobMoves
<1>2. CASE /\ job'[t].next = job[t].next + 1 /\ job'[t].next \in 1..Len(job[t].plan.steps)
           /\ job'[t].state = job[t].state /\ job'[t].id = job[t].id
           /\ job'[t].plan = job[t].plan
    <2>1. JobOK(job[t])'
        BY <1>2 DEF JobOK, Live
    <2>2. job[t].next \in Nat
        BY DEF IsJob
    <2>3. job'[t].next >= job[t].next
        <3> DEFINE n == job[t].next
        <3>1. n \in Nat => n + 1 >= n
            OBVIOUS
        <3> QED
            BY <1>2, <2>2, <3>1
    <2>4. Live(job'[t]) => Live(job[t])
        BY <1>2 DEF Live
    <2> QED
        BY <1>2, <2>1, <2>3, <2>4, JobMoves
<1> QED
    BY <1>1, <1>2

\* Writing one place leaves the others.
LEMMA PutText ==
    ASSUME FixInv, NEW m \in Places, NEW x, texts' = [texts EXCEPT ![m] = x]
    PROVE  /\ texts' = [n \in Places |-> texts'[n]] /\ texts'[m] = x
           /\ \A n \in Places : n # m => texts'[n] = texts[n]
<1>1. DOMAIN texts = Places
    BY TextsTyped
<1> QED
    BY <1>1

\* .wslconfig is not one of its backups.
LEMMA PlacesApart == Seconds \subseteq Places /\ DotConfig \in Places /\ DotConfig \notin Seconds
BY FixAssumption DEF Seconds, Places, DotConfig

\* What a step has changed can be undone, when its command alone has the id.
LEMMA NewChangeIsPast ==
    ASSUME FixInv, NEW t \in Terminal, RunStep(t), job[t].state = "applies",
           NEW c, c.id = job[t].id, c.id \notin planned.twice
    PROVE  Past(c)'
<1>1. /\ \A u \in Terminal : u # t => job'[u] = job[u]
      /\ \/ job'[t] = AtRest
         \/ job'[t].next = job[t].next + 1 /\ job'[t].state = job[t].state
      /\ IsJob(job[t]) /\ JobOK(job[t])
    BY StepMoves
<1>2. ASSUME NEW u \in Terminal, Live(job'[u]), job'[u].id = c.id
      PROVE  job'[u].state = "applies" /\ job'[u].next > 1
    <2>1. CASE u = t
        <3>1. job'[t] # AtRest
            BY <1>2, <2>1, RestingJob DEF Live
        <3>2. job[t].next \in 1..Len(job[t].plan.steps)
            BY <1>1 DEF JobOK
        <3>3. job[t].next \in Nat
            BY <1>1 DEF IsJob
        <3>4. job[t].next >= 1
            <4> DEFINE n == job[t].next
                       len == Len(job[t].plan.steps)
            <4>1. n \in 1..len
                BY <3>2
            <4> HIDE DEF len, n
            <4>2. n >= 1
                BY <4>1
            <4> QED
                BY <4>2 DEF n
        <3>5. job[t].next + 1 > 1
            <4> DEFINE n == job[t].next
            <4>1. n \in Nat /\ n >= 1
                BY <3>3, <3>4
            <4> HIDE DEF n
            <4>2. n + 1 > 1
                BY <4>1
            <4> QED
                BY <4>2 DEF n
        <3> QED
            BY <1>1, <2>1, <3>1, <3>5
    <2>2. CASE u # t
        <3>1. Live(job[u]) /\ job[u].id = job[t].id /\ Live(job[t])
            BY <1>1, <1>2, <2>2 DEF Live
        <3> QED
            BY <2>2, <3>1 DEF FixInv, OneEach
    <2> QED
        BY <2>1, <2>2
<1> QED
    BY <1>2 DEF Past

\* A step of a fix or of an undo.
LEMMA RunStepKeeps ==
    ASSUME FixInv, NEW t \in Terminal, RunStep(t)
    PROVE  FixInv'
<1> DEFINE j == job[t]
           s == j.plan.steps[j.next]
           k == job'[t]
<1>1. PICK ok \in BOOLEAN : \E w \in Outcomes(s, ok) :
          /\ texts' = w.texts /\ excluded' = w.excluded
          /\ changes' = changes \cup Recorded(t, s, w)
          /\ \/ k = AtRest
             \/ /\ ok /\ k.next = j.next + 1 /\ k.next \in 1..Len(j.plan.steps)
                /\ k.state = j.state /\ k.id = j.id /\ k.plan = j.plan
                /\ s.kind = "file_copy" => k.copied = texts[DotConfig]
    BY StepMoves
<1>2. PICK w \in Outcomes(s, ok) :
          /\ texts' = w.texts /\ excluded' = w.excluded
          /\ changes' = changes \cup Recorded(t, s, w)
          /\ \/ k = AtRest
             \/ /\ ok /\ k.next = j.next + 1 /\ k.next \in 1..Len(j.plan.steps)
                /\ k.state = j.state /\ k.id = j.id /\ k.plan = j.plan
                /\ s.kind = "file_copy" => k.copied = texts[DotConfig]
    BY <1>1
<1>3. /\ job' = [job EXCEPT ![t] = k] /\ IsJob(k) /\ IsJob(j) /\ JobOK(j)
      /\ UNCHANGED <<now, journal, planned>> /\ j.state \in {"applies", "undoes"}
    BY StepMoves DEF RunStep
<1>4. /\ FixTyped /\ JournalOK
    BY DEF FixInv
<1> HIDE DEF s, k
<1>5. ASSUME \A c \in Recorded(t, s, w) : ChangeOK(c)',
             texts' = [n \in Places |-> texts'[n]],
             \A n \in Seconds : texts'[n] = texts[n] \/ BackupOf(t, n),
             k.state = "applies" /\ k.id[2] = "wslconfig" /\ k.next = 2 => texts'[k.id[1]] = k.copied
      PROVE  FixInv'
    <2>1. \A c \in changes' : c \in changes \/ ChangeOK(c)'
        BY <1>2, <1>5
    <2>2. \/ k = AtRest
          \/ /\ k.next = j.next + 1 /\ k.next \in 1..Len(j.plan.steps)
             /\ k.state = j.state /\ k.id = j.id /\ k.plan = j.plan
        BY <1>2
    <2>3. /\ job' = [job EXCEPT ![t] = job'[t]] /\ IsJob(job'[t])
          /\ \/ job'[t] = AtRest
             \/ /\ job'[t].next = job[t].next + 1 /\ job'[t].next \in 1..Len(job[t].plan.steps)
                /\ job'[t].state = job[t].state /\ job'[t].id = job[t].id
                /\ job'[t].plan = job[t].plan
          /\ job'[t].state = "applies" /\ job'[t].id[2] = "wslconfig" /\ job'[t].next = 2 =>
                 texts'[job'[t].id[1]] = job'[t].copied
        BY <1>3, <1>5, <2>2 DEF k
    <2>4. IsJob(job[t]) /\ JobOK(job[t]) /\ job[t].state \in {"applies", "undoes"}
        BY <1>3
    <2> HIDE DEF j
    <2> QED
        BY <1>3, <1>5, <2>1, <2>3, <2>4, StepEnds
<1>6. j.next \in 1..Len(j.plan.steps)
    BY <1>3 DEF JobOK
<1>7. CASE j.state = "undoes"
    <2>1. UndoStep(s)
        BY <1>3, <1>6, <1>7 DEF JobOK, s
    <2>2. Recorded(t, s, w) = {}
        BY <1>7 DEF Recorded
    <2>3. w.texts = texts \/ \E x : w.texts = [texts EXCEPT ![DotConfig] = x]
        <3>1. CASE s.kind \in {"note", "wmi_method"}
            BY <1>4, <3>1, OutcomeFacts
        <3>2. CASE s.kind = "file_copy" /\ s.args[2] = DotConfig
            <4>1. w.texts = texts \/ Puts(w, s.args[2], ok, texts[s.args[1]])
                BY <1>4, <3>2, OutcomeFacts
            <4> QED
                BY <3>2, <4>1 DEF Puts
        <3> QED
            BY <2>1, <3>1, <3>2 DEF UndoStep
    <2>4. /\ texts' = [n \in Places |-> texts'[n]]
          /\ \A n \in Seconds : texts'[n] = texts[n]
        <3>1. CASE texts' = texts
            BY <3>1, TextsTyped
        <3>2. ASSUME NEW x, texts' = [texts EXCEPT ![DotConfig] = x]
              PROVE  /\ texts' = [n \in Places |-> texts'[n]]
                     /\ \A n \in Seconds : texts'[n] = texts[n]
            <4>1. /\ texts' = [n \in Places |-> texts'[n]]
                  /\ \A n \in Places : n # DotConfig => texts'[n] = texts[n]
                BY <3>2, PutText, PlacesApart
            <4> QED
                BY <4>1, PlacesApart
        <3> QED
            BY <1>2, <2>3, <3>1, <3>2
    <2>5. k.state # "applies"
        BY <1>2, <1>7, RestingJob
    <2> QED
        BY <1>5, <2>2, <2>4, <2>5
<1>8. CASE j.state = "applies"
    <2>1. /\ j.id \in planned.ids /\ Shape(j.id, j.plan) /\ j.id \in DOMAIN journal
          /\ j.id \notin planned.twice =>
                 /\ journal[j.id] = j.plan
                 /\ j.id[2] = "wslconfig" /\ j.next = 2 => texts[j.id[1]] = j.copied
        BY <1>3, <1>8 DEF JobOK, Live
    <2>2. j.id \in Seconds \X Fixes /\ j.id[1] \in Seconds
        BY <1>4, <2>1 DEF FixTyped
    <2>3. CASE /\ s.kind \in {"note", "file_delete", "exec"}
               /\ j.id[2] = "wslconfig" /\ j.next = 1 => Len(j.plan.steps) = 1
        <3>1. w.texts = texts /\ w.excluded = excluded
            BY <1>4, <2>3, OutcomeFacts
        <3>2. Recorded(t, s, w) = {}
            BY <3>1, RecordedAs
        <3>3. k.state = "applies" /\ k.id[2] = "wslconfig" /\ k.next = 2 => FALSE
            <4> SUFFICES ASSUME k.state = "applies", k.id[2] = "wslconfig", k.next = 2
                         PROVE  FALSE
                OBVIOUS
            <4>1. k # AtRest
                BY RestingJob
            <4>2. j.next + 1 = 2 /\ 2 \in 1..Len(j.plan.steps) /\ j.id[2] = "wslconfig"
                BY <1>2, <4>1
            <4>3. j.next = 1
                <5> DEFINE n == j.next
                <5>1. n \in Nat /\ n + 1 = 2
                    BY <1>3, <4>2 DEF IsJob
                <5> HIDE DEF n
                <5>2. n = 1
                    BY <5>1
                <5> QED
                    BY <5>2 DEF n
            <4>4. Len(j.plan.steps) = 1
                BY <2>3, <4>2, <4>3
            <4> QED
                BY <4>2, <4>4
        <3>4. texts' = [n \in Places |-> texts'[n]] /\ \A n \in Seconds : texts'[n] = texts[n]
            BY <1>2, <3>1, TextsTyped
        <3> QED
            BY <1>5, <3>2, <3>3, <3>4
    <2>4. CASE EditsConfig(j.id, j.plan) /\ j.next = 1 /\ s = FileCopy(DotConfig, j.id[1])
        <3>1. s.kind = "file_copy" /\ s.args[1] = DotConfig /\ s.args[2] = j.id[1]
            BY <2>4 DEF FileCopy, Step
        <3>2. w.excluded = excluded
            BY <1>4, <3>1, OutcomeFacts
        <3>3. \/ w.texts = texts /\ ~ok
              \/ \E x : w.texts = [texts EXCEPT ![j.id[1]] = x] /\ (ok => x = texts[DotConfig])
            <4>1. \/ w.texts = texts /\ ~ok
                  \/ Puts(w, s.args[2], ok, texts[s.args[1]])
                BY <1>4, <3>1, OutcomeFacts
            <4> QED
                BY <3>1, <4>1 DEF Puts
        <3>4. /\ texts' = [n \in Places |-> texts'[n]]
              /\ \A n \in Places : n # j.id[1] => texts'[n] = texts[n]
              /\ ok => texts'[j.id[1]] = texts[DotConfig]
            <4>1. CASE texts' = texts /\ ~ok
                BY <4>1, TextsTyped
            <4>2. ASSUME NEW x, texts' = [texts EXCEPT ![j.id[1]] = x], ok => x = texts[DotConfig]
                  PROVE  /\ texts' = [n \in Places |-> texts'[n]]
                         /\ \A n \in Places : n # j.id[1] => texts'[n] = texts[n]
                         /\ ok => texts'[j.id[1]] = texts[DotConfig]
                <5>1. j.id[1] \in Places
                    BY <2>2, PlacesApart
                <5> QED
                    BY <4>2, <5>1, PutText
            <4> QED
                BY <1>2, <3>3, <4>1, <4>2
        <3>5. texts'[DotConfig] = texts[DotConfig]
            BY <2>2, <3>4, PlacesApart
        <3>6. Recorded(t, s, w) = {}
            BY <1>2, <3>2, <3>5, RecordedAs
        <3>7. \A n \in Seconds : texts'[n] = texts[n] \/ BackupOf(t, n)
            BY <1>8, <2>4, <3>4, PlacesApart DEF BackupOf, EditsConfig
        <3>8. k.state = "applies" /\ k.next = 2 => texts'[k.id[1]] = k.copied
            <4> SUFFICES ASSUME k.state = "applies"
                         PROVE  texts'[k.id[1]] = k.copied
                OBVIOUS
            <4>1. k # AtRest
                BY RestingJob
            <4> QED
                BY <1>2, <3>1, <3>4, <4>1
        <3> QED
            BY <1>5, <3>4, <3>6, <3>7, <3>8
    <2>5. CASE EditsConfig(j.id, j.plan) /\ j.next = 2 /\ s.kind = "file_write"
        <3>1. \E x : w.texts = [texts EXCEPT ![DotConfig] = x]
            <4>1. Puts(w, DotConfig, ok, s.args[1])
                BY <1>4, <2>5, OutcomeFacts
            <4> QED
                BY <4>1 DEF Puts
        <3>2. w.excluded = excluded
            BY <1>4, <2>5, OutcomeFacts
        <3>3. /\ texts' = [n \in Places |-> texts'[n]]
              /\ \A n \in Seconds : texts'[n] = texts[n]
            <4>1. PICK x : texts' = [texts EXCEPT ![DotConfig] = x]
                BY <1>2, <3>1
            <4>2. /\ texts' = [n \in Places |-> texts'[n]]
                  /\ \A n \in Places : n # DotConfig => texts'[n] = texts[n]
                BY <4>1, PutText, PlacesApart
            <4> QED
                BY <4>2, PlacesApart
        <3>4. ASSUME NEW c \in Recorded(t, s, w)
              PROVE  ChangeOK(c)'
            <4>1. /\ c.id = j.id /\ c.config = texts[DotConfig]
                  /\ ~c.stale => texts[DotConfig] = j.copied
                BY <3>2, RecordedAs
            <4>2. c.id \notin planned.twice => Past(c)'
                BY <1>8, <4>1, NewChangeIsPast
            <4>3. ASSUME c.id \notin planned.twice, ~c.stale
                  PROVE  GivesBack(c, journal[c.id])'
                <5>1. journal'[c.id] = j.plan /\ texts'[j.id[1]] = c.config
                    BY <1>3, <2>1, <2>2, <2>5, <3>3, <4>1, <4>3 DEF EditsConfig
                <5>2. \A i \in DOMAIN j.plan.rollback :
                          /\ j.plan.rollback[i].kind = "file_copy"
                          /\ j.plan.rollback[i].args[1] = j.id[1]
                    BY <2>5 DEF EditsConfig, FileCopy, Step
                <5> QED
                    BY <5>1, <5>2 DEF GivesBack
            <4> QED
                BY <1>3, <2>1, <4>1, <4>2, <4>3 DEF ChangeOK
        <3>5. ~(k.state = "applies" /\ k.next = 2)
            <4>1. j.next + 1 # 2
                BY <2>5
            <4> QED
                BY <1>2, <4>1, RestingJob
        <3> QED
            BY <1>5, <3>3, <3>4, <3>5
    <2>6. ASSUME NEW items \in SUBSET Item, Excludes(j.id, j.plan, items),
                 s = Exclusions("Add", items)
          PROVE  FixInv'
        <3>1. s.kind = "wmi_method" /\ s.args[1] = "Add" /\ s.args[2] = items
            BY <2>6 DEF Exclusions, Step
        <3>2. w.texts = texts /\ w.excluded \in {excluded, excluded \cup items}
            BY <1>4, <3>1, OutcomeFacts
        <3>3. ASSUME NEW c \in Recorded(t, s, w)
              PROVE  ChangeOK(c)'
            <4>1. /\ c.id = j.id /\ c.added = w.excluded \ excluded /\ w.excluded # excluded
                  /\ ~c.stale => items \cap excluded = {}
                BY <3>1, <3>2, RecordedAs
            <4>2. c.id \notin planned.twice => Past(c)'
                BY <1>8, <4>1, NewChangeIsPast
            <4>3. ~c.stale => c.added = items
                BY <3>2, <4>1
            <4>4. ASSUME c.id \notin planned.twice, ~c.stale
                  PROVE  GivesBack(c, journal[c.id])'
                <5>1. journal'[c.id] = j.plan
                    BY <1>3, <2>1, <4>1, <4>4
                <5>2. \A i \in DOMAIN j.plan.rollback :
                          /\ j.plan.rollback[i].kind = "wmi_method"
                          /\ j.plan.rollback[i].args[2] = items
                    BY <2>6 DEF Excludes, Exclusions, Step
                <5> QED
                    BY <4>3, <4>4, <5>1, <5>2 DEF GivesBack
            <4> QED
                BY <1>3, <2>1, <4>1, <4>2, <4>4 DEF ChangeOK
        <3>4. k.id[2] # "wslconfig" \/ k.state # "applies"
            BY <1>2, <2>6, RestingJob DEF Excludes
        <3> QED
            BY <1>2, <1>5, <3>2, <3>3, <3>4, TextsTyped
    <2> QED
        <3>1. \/ /\ s.kind \in {"note", "file_delete", "exec"}
                 /\ j.id[2] = "wslconfig" /\ j.next = 1 => Len(j.plan.steps) = 1
              \/ EditsConfig(j.id, j.plan) /\ j.next = 1 /\ s = FileCopy(DotConfig, j.id[1])
              \/ EditsConfig(j.id, j.plan) /\ j.next = 2 /\ s.kind = "file_write"
              \/ \E items \in SUBSET Item :
                     Excludes(j.id, j.plan, items) /\ j.next = 1 /\ s = Exclusions("Add", items)
            BY <1>6, <2>1, StepOf DEF s
        <3> QED
            BY <2>3, <2>4, <2>5, <2>6, <3>1
<1> QED
    BY <1>3, <1>7, <1>8

\* Each step of the fixes keeps the invariant.
LEMMA FixStepInv == FixInv /\ FixNext => FixInv'
<1> SUFFICES ASSUME FixInv, FixNext
             PROVE  FixInv'
    OBVIOUS
<1>1. \/ Tick \/ UserEdits
      \/ \E t \in Terminal :
          \/ \E fix \in Fixes : Survey(t, fix)
          \/ Plans(t) \/ Save(t) \/ RunStep(t) \/ Killed(t)
          \/ \E id \in DOMAIN journal : UndoFix(t, id)
    BY DEF FixNext
<1> QED
    BY <1>1, WorldKeeps, SurveyKeeps, PlansKeeps, SaveKeeps, RunStepKeeps, KilledKeeps, UndoKeeps

\* What the other components do changes nothing of the fixes.
LEMMA ChangesStepFix == FixInv /\ [ChangesNext]_changesVars => FixInv'
<1> SUFFICES ASSUME FixInv, [ChangesNext]_changesVars
             PROVE  FixInv'
    OBVIOUS
<1>1. FixNext \/ UNCHANGED fixVars
    BY DEF ChangesNext, changesVars
<1>2. CASE UNCHANGED fixVars
    <2>1. UNCHANGED <<now, texts, excluded, marks, journal, job, changes, planned>>
        BY <1>2 DEF fixVars
    <2>2. FixTyped' /\ JournalOK' /\ OneEach'
        BY <2>1 DEF FixInv, FixTyped, JournalOK, OneEach
    <2>3. (\A t \in Terminal : JobOK(job[t]))'
        BY <2>1 DEF FixInv, JobOK
    <2>4. (\A c \in changes : ChangeOK(c))'
        BY <2>1 DEF FixInv, ChangeOK, Past, GivesBack
    <2> QED
        BY <2>2, <2>3, <2>4 DEF FixInv
<1> QED
    BY <1>1, <1>2, FixStepInv

\* What the invariant says of the changes is what undo needs.
LEMMA FixInvUndoes == FixInv => FixesCanBeUndone
BY DEF FixInv, ChangeOK, GivesBack, FixesCanBeUndone

\* Whatever a fix has changed, undo can give back: the plan is in the journal,
\* the backup has the file that was overwritten, and what is removed is what was
\* added (Journal.Save, Apply, undo), for any terminals, seconds and edits.
THEOREM FixesAreUndone == ChangesSpec => []FixesCanBeUndone
<1>1. ChangesInit => FixInv
    BY FixInitInv DEF ChangesInit
<1>2. FixInv /\ [ChangesNext]_changesVars => FixInv'
    BY ChangesStepFix
<1>3. FixInv => FixesCanBeUndone
    BY FixInvUndoes
<1> QED
    BY <1>1, <1>2, <1>3, PTL DEF ChangesSpec
=============================================================================
