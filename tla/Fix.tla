--------------------------------- MODULE Fix ---------------------------------
(***************************************************************************)
(* internal/fix: `wslkit doctor fix <id> --apply` collects a snapshot,     *)
(* plans the steps and their rollback from it, saves the plan in the       *)
(* journal, and runs the steps until one fails.  `doctor undo` runs the    *)
(* rollback of a saved plan.  Terminals do so at the same time, and the    *)
(* user edits .wslconfig and the exclusions of Defender meanwhile.         *)
(***************************************************************************)
EXTENDS Integers, Sequences, FiniteSets

CONSTANTS
    Terminal,
    Item,          \* what can be excluded: the disks and the processes of WSL
    MaxSeconds,    \* bound: seconds that pass
    MaxEdits,      \* bound: edits of the user, to either
    MaxCommands    \* bound: commands that are started

ASSUME FixAssumption == MaxSeconds \in Nat

VARIABLES
    now,           \* the second
    texts,         \* .wslconfig and the backups, which are named by a second
    excluded,      \* the exclusions of Defender
    marks,         \* the Zone.Identifier files inside the distributions
    journal,       \* the saved plans, by their id
    job,           \* the command of each terminal
    edits, given,  \* edits made, commands started
    changes,       \* history: what the steps of a fix have changed
    planned        \* history: the ids of the plans, and those given out twice

fixVars == <<now, texts, excluded, marks, journal, job, edits, given, changes, planned>>

\* A file has the text of an edit, with the lines WSL ignores still in it or
\* commented out.
Whole(n, mended) == [text |-> n, mended |-> mended]
Torn    == Whole(-1, FALSE)      \* a write was cut short
NoFile  == Whole(-2, FALSE)
Mended(c) == [c EXCEPT !.mended = TRUE]

\* The name of .wslconfig; a backup has that of a second.
DotConfig == -1

Mark == {"download"}

\* Step: what it does, to which files or items.
Step(kind, args)     == [kind |-> kind, args |-> args]
FileCopy(src, dst)   == Step("file_copy", <<src, dst>>)
FileWrite(content)   == Step("file_write", <<content>>)
FileDelete(mark)     == Step("file_delete", <<mark>>)
Exclusions(method, items) == Step("wmi_method", <<method, items>>)
Note                 == Step("note", << >>)
Execute              == Step("exec", << >>)

\* The plan of a fix, made in second s of a snapshot.  The exclusions in it are
\* those of an elevated terminal, which may fail to read them.
WslConfigPlan(s, snap) ==
    IF snap.config.mended THEN [steps |-> <<Note>>, rollback |-> << >>]
    ELSE [steps |-> <<FileCopy(DotConfig, s), FileWrite(Mended(snap.config)), Note>>,
          rollback |-> <<FileCopy(s, DotConfig)>>]

DefenderPlan(snap) ==
    LET items == IF snap.readable THEN Item \ snap.excluded ELSE Item IN
    IF items = {} THEN [steps |-> <<Note>>, rollback |-> << >>]
    ELSE [steps |-> <<Exclusions("Add", items), Note>>,
          rollback |-> <<Exclusions("Remove", items)>>]

ZonePlan(snap) ==
    IF snap.marks = {} THEN [steps |-> <<Note>>, rollback |-> << >>]
    ELSE [steps |-> <<FileDelete(CHOOSE m \in snap.marks : TRUE)>>, rollback |-> <<Note>>]

\* update and shutdown.
ExecPlan == [steps |-> <<Execute>>, rollback |-> <<Note>>]

Fixes == {"wslconfig", "defender", "zone", "shutdown"}

PlanOf(fix, s, snap) ==
    CASE fix = "wslconfig" -> WslConfigPlan(s, snap)
      [] fix = "defender"  -> DefenderPlan(snap)
      [] fix = "zone"      -> ZonePlan(snap)
      [] fix = "shutdown"  -> ExecPlan

\* A command: its state, the plan it follows with its id, the step that is
\* next, what it has seen, and what it has copied.
NoId   == <<-1, "none">>
NoPlan == [steps |-> << >>, rollback |-> << >>]
Unseen == [config |-> NoFile, excluded |-> {}, readable |-> FALSE, marks |-> {}]
AtRest   == [state |-> "free", id |-> NoId, plan |-> NoPlan, next |-> 1,
           snap |-> Unseen, copied |-> NoFile]

FixInit ==
    /\ now = 0 /\ journal = [id \in {} |-> NoPlan]
    /\ texts = [n \in {DotConfig} \cup 0..MaxSeconds |->
                  IF n = DotConfig THEN Whole(0, FALSE) ELSE NoFile]
    /\ excluded \in SUBSET Item /\ marks = Mark
    /\ job = [t \in Terminal |-> AtRest]
    /\ edits = 0 /\ given = 0 /\ changes = {}
    /\ planned = [ids |-> {}, twice |-> {}]

World == <<texts, excluded, marks>>

Tick ==
    /\ now < MaxSeconds /\ now' = now + 1
    /\ UNCHANGED <<World, journal, job, edits, given, changes, planned>>

UserEdits ==
    /\ edits < MaxEdits /\ edits' = edits + 1
    /\ \/ texts' = [texts EXCEPT ![DotConfig] = Whole(edits + 1, FALSE)] /\ UNCHANGED excluded
       \/ \E i \in Item : excluded' \in {excluded \cup {i}, excluded \ {i}} \ {excluded}
          /\ UNCHANGED texts
    /\ UNCHANGED <<now, marks, journal, job, given, changes, planned>>

\* collect.Run.  A .wslconfig that is not there or cannot be read has no plan.
Survey(t, fix) ==
    /\ job[t].state = "free" /\ given < MaxCommands /\ given' = given + 1
    /\ fix = "wslconfig" => texts[DotConfig] # NoFile
    /\ \E readable \in BOOLEAN :
        job' = [job EXCEPT ![t].state = "seen", ![t].id = <<now, fix>>,
                  ![t].snap = [config |-> texts[DotConfig], excluded |-> excluded,
                               readable |-> readable, marks |-> marks]]
    /\ UNCHANGED <<now, World, journal, edits, changes, planned>>

\* f.Plan: the second of the plan is not the one of the snapshot.
Plans(t) ==
    LET id == <<now, job[t].id[2]>> IN
    /\ job[t].state = "seen"
    /\ job' = [job EXCEPT ![t].state = "planned", ![t].id = id,
                          ![t].plan = PlanOf(id[2], now, job[t].snap),
                          ![t].snap = Unseen]
    /\ planned' = [ids |-> planned.ids \cup {id},
                   twice |-> planned.twice \cup (planned.ids \cap {id})]
    /\ UNCHANGED <<now, World, journal, edits, given, changes>>

Written(id, plan) ==
    journal' = [x \in DOMAIN journal \cup {id} |-> IF x = id THEN plan ELSE journal[x]]

\* Mutant: the plan is saved when all of it is done.
SaveAfterwards(t) ==
    /\ \/ job[t].state = "planned" /\ UNCHANGED journal
          /\ job' = [job EXCEPT ![t].state = "applies"]
       \/ job[t].state = "applies" /\ job[t].next = Len(job[t].plan.steps)
          /\ Written(job[t].id, job[t].plan) /\ UNCHANGED job
    /\ UNCHANGED <<now, World, edits, given, changes, planned>>

\* Journal.Save: without an entry nothing is applied.
Save(t) ==
    /\ job[t].state = "planned"
    /\ \/ /\ Written(job[t].id, job[t].plan)
          /\ job' = [job EXCEPT ![t].state = "applies"]
       \/ job' = [job EXCEPT ![t] = AtRest] /\ UNCHANGED journal
    /\ UNCHANGED <<now, World, edits, given, changes, planned>>

\* undo: Journal.Load, and the user says yes.
UndoFix(t, id) ==
    /\ job[t].state = "free" /\ given < MaxCommands /\ given' = given + 1
    /\ id \in DOMAIN journal /\ journal[id].rollback # << >>
    /\ job' = [job EXCEPT ![t] = [AtRest EXCEPT !.state = "undoes", !.id = id,
                            !.plan = [steps |-> journal[id].rollback, rollback |-> << >>]]]
    /\ UNCHANGED <<now, World, journal, edits, changes, planned>>

-----------------------------------------------------------------------------
(* Real.Run: one step.  A write that fails leaves the file as it was or torn  *)
(* and a call that fails may have been carried out all the same.             *)

Outcomes(s, ok) ==
    LET untouched == [texts |-> texts, excluded |-> excluded, marks |-> marks]
        into(n, c) == {[untouched EXCEPT !.texts[n] = x] :
                          x \in IF ok THEN {c} ELSE {texts[n], Torn}}
        after(w) == IF ok THEN {w} ELSE {w, untouched}
    IN
    CASE s.kind = "file_copy" ->
             IF texts[s.args[1]] = NoFile THEN (IF ok THEN {} ELSE {untouched})
             ELSE into(s.args[2], texts[s.args[1]])
      [] s.kind = "file_write" -> into(DotConfig, s.args[1])
      [] s.kind = "file_delete" ->
             IF ok THEN {[untouched EXCEPT !.marks = @ \ {s.args[1]}]} ELSE {untouched}
      [] s.kind = "wmi_method" ->
             after([untouched EXCEPT !.excluded =
                        IF s.args[1] = "Add" THEN @ \cup s.args[2] ELSE @ \ s.args[2]])
      [] s.kind = "exec" -> {untouched}
      [] s.kind = "note" -> IF ok THEN {untouched} ELSE {}

\* What a step of a fix has changed, what was there before, and whether it was
\* what the plan was made for.
Recorded(t, s, w) ==
    LET j == job[t]
        c(stale) == {[id |-> j.id, config |-> texts[DotConfig], excluded |-> excluded,
                      added |-> w.excluded \ excluded, stale |-> stale]}
    IN IF j.state # "applies" THEN {}
       ELSE IF w.texts[DotConfig] # texts[DotConfig] THEN c(texts[DotConfig] # j.copied)
       ELSE IF w.excluded # excluded THEN
           c(s.args[2] \cap excluded # {})
       ELSE {}

\* Apply: the next step, and the end at the last one or at the first that fails.
RunStep(t) ==
    LET j == job[t] s == j.plan.steps[j.next] IN
    /\ j.state \in {"applies", "undoes"}
    /\ \E ok \in BOOLEAN : \E w \in Outcomes(s, ok) :
        /\ texts' = w.texts /\ excluded' = w.excluded /\ marks' = w.marks
        /\ changes' = changes \cup Recorded(t, s, w)
        /\ job' = [job EXCEPT ![t] =
                IF ~ok \/ j.next = Len(j.plan.steps) THEN AtRest
                ELSE [j EXCEPT !.next = @ + 1,
                               !.copied = IF s.kind = "file_copy" THEN texts[DotConfig] ELSE @]]
    /\ UNCHANGED <<now, journal, edits, given, planned>>

\* The terminal is closed between two steps.
Killed(t) ==
    /\ job[t].state \in {"applies", "undoes"}
    /\ job' = [job EXCEPT ![t] = AtRest]
    /\ UNCHANGED <<now, World, journal, edits, given, changes, planned>>

FixNext ==
    \/ Tick \/ UserEdits
    \/ \E t \in Terminal :
        \/ \E fix \in Fixes : Survey(t, fix)
        \/ Plans(t) \/ Save(t) \/ RunStep(t) \/ Killed(t)
        \/ \E id \in DOMAIN journal : UndoFix(t, id)

-----------------------------------------------------------------------------
(* Properties. *)

FixTypeOK ==
    /\ now \in 0..MaxSeconds /\ excluded \subseteq Item /\ marks \subseteq Mark
    /\ \A n \in DOMAIN texts : texts[n].text \in -2..MaxEdits
    /\ \A t \in Terminal : job[t].state = "free" => job[t] = AtRest

\* Whatever a fix has changed, even one that failed or whose terminal was closed,
\* undo can give back: the journal has the plan, the backup is the file that was
\* overwritten, and what is to be removed is all that was added and nothing else
\* ("Rollback restores the backup", wslconfig.go:17; "Rollback removes exactly
\* what was added", defender.go:26).  It is not so for two plans of one second,
\* which have one id and one backup, and when what is there has changed since the
\* snapshot or could not be read (Journal.Save, Apply).
FixesCanBeUndone ==
    \A c \in changes : c.id \notin planned.twice =>
        /\ c.id \in DOMAIN journal
        /\ ~c.stale => \A i \in DOMAIN journal[c.id].rollback :
            LET s == journal[c.id].rollback[i] IN
            /\ s.kind = "file_copy" => texts[s.args[1]] = c.config
            /\ s.kind = "wmi_method" => c.added = s.args[2]
=============================================================================
