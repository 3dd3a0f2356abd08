----------------------------- MODULE ProxyFiles -----------------------------
(***************************************************************************)
(* internal/proxy: `wslkit proxy apply` and `proxy revert` read five files *)
(* of a distribution, show what would change, and have a script inside     *)
(* write one file after the other.  One of them, /etc/environment, is the  *)
(* user's too, who edits it meanwhile; other terminals do the same, and    *)
(* the distribution may stop.                                              *)
(***************************************************************************)
EXTENDS Integers, Sequences, SequencesExt

CONSTANTS
    Shell,         \* the terminals
    Setting,       \* the proxies that are asked for: numbers above MaxLines
    Earlier,       \* one that an earlier command may have applied
    MaxLines,      \* bound: lines the user writes in /etc/environment
    MaxOrders      \* bound: commands

VARIABLES
    content,          \* what each file says
    temp,          \* what its temporary file says
    order,         \* the command of each terminal
    orders,
    lines,         \* the lines written so far
    mine,          \* history: the lines of the user, as the user wants them
    last           \* history: the command that was the last to do anything,
                   \* if it had its files for itself and has ended well

proxyVars == <<content, temp, order, orders, lines, mine, last>>

\* A file is a sequence of lines; the settings written to it are one of them.
BeginMarker == -1
EndMarker   == -2
Gone  == <<0>>
Proxies == Setting \cup {Earlier}
Ours  == {BeginMarker, EndMarker} \cup Proxies

\* Files: in this order.  All of them are wslkit's own but the second.
Files == <<"/etc/wslkit/proxy.env", "/etc/environment", "99-wslkit-proxy.sh",
           "99wslkit-proxy", "wslkit-proxy.conf">>
Shared    == "/etc/environment"
Path      == Range(Files)

IndexOf(c, l)     == CHOOSE i \in DOMAIN c : c[i] = l /\ \A k \in 1..i - 1 : c[k] # l
UpTo(c, l)        == IF l \in Range(c) THEN SubSeq(c, 1, IndexOf(c, l) - 1) ELSE c
Beyond(c, l)      == IF l \in Range(c) THEN SubSeq(c, IndexOf(c, l) + 1, Len(c)) ELSE << >>
Managed(s)        == <<BeginMarker, s, EndMarker>>

\* Below a truncated block nothing is kept.
Merge(c, s) ==
    UpTo(c, BeginMarker) \o Managed(s) \o Beyond(Beyond(c, BeginMarker), EndMarker)

\* Mutant: what stands below the block is not looked at.
UnmergeAbove(c) == UpTo(c, BeginMarker)

Unmerge(c) == UpTo(c, BeginMarker) \o Beyond(Beyond(c, BeginMarker), EndMarker)

ReadFile(p) == IF content[p] = Gone THEN << >> ELSE content[p]

\* PlanApply and PlanRevert, for one file; no setting stands for a revert.
NoSetting == 0
Change(p, s) == [path |-> p, before |-> ReadFile(p), existed |-> content[p] # Gone,
    after |-> IF s = NoSetting THEN (IF p = Shared THEN Unmerge(ReadFile(p)) ELSE Gone)
              ELSE IF p = Shared THEN Merge(ReadFile(p), s) ELSE <<s>>]
Changed(c) == IF c.after = Gone THEN c.existed ELSE c.before # c.after

\* state: free, reads, asks or writes; left, when wsl.exe was killed at the
\* timeout and the script inside goes on.  next: the file that is read.  changes:
\* what is to be written; the first is under way.  stage: how far its script is,
\* and into: what it has open.
Quiet == [state |-> "free", setting |-> NoSetting, changes |-> << >>, next |-> 1,
          stage |-> "none", into |-> "none", alone |-> TRUE]
Nobody == [ended |-> FALSE, setting |-> NoSetting]

Applied(s) == [p \in Path |-> IF p = Shared THEN <<1>> \o Managed(s) ELSE <<s>>]
Bare       == [p \in Path |-> IF p = Shared THEN <<1>> ELSE Gone]

FilesInit ==
    /\ content \in {Bare, Applied(Earlier)}
    /\ temp = [p \in Path |-> Gone]
    /\ order = [t \in Shell |-> Quiet] /\ orders = 0
    /\ lines = 1 /\ mine = <<1>> /\ last = Nobody

Own(c) == LET user(l) == l > 0 /\ l \notin Proxies IN SelectSeq(c, user)

\* What somebody changes, the commands of others no longer have for themselves.
Disturbs(others) ==
    [t \in Shell |-> IF t \in others /\ order[t] # Quiet
                     THEN [order[t] EXCEPT !.alone = FALSE] ELSE order[t]]

\* The user adds a line above or below everything, or cuts the end of the block.
UserWrites ==
    LET c == ReadFile(Shared) n == lines + 1 IN
    /\ lines < MaxLines /\ lines' = n
    /\ \/ content' = [content EXCEPT ![Shared] = c \o <<n>>] /\ mine' = mine \o <<n>>
       \/ content' = [content EXCEPT ![Shared] = <<n>> \o c] /\ mine' = <<n>> \o mine
       \/ /\ EndMarker \in Range(c) /\ UNCHANGED mine
          /\ content' = [content EXCEPT ![Shared] = UpTo(c, EndMarker) \o Beyond(c, EndMarker)]
    /\ order' = Disturbs(Shell) /\ last' = Nobody
    /\ UNCHANGED <<temp, orders>>

-----------------------------------------------------------------------------
(* proxyApply and proxyRevert.                                               *)

Orders(t, s) ==
    /\ order[t].state = "free" /\ orders < MaxOrders /\ orders' = orders + 1
    /\ order' = [order EXCEPT ![t] = [Quiet EXCEPT !.state = "reads", !.setting = s]]
    /\ UNCHANGED <<content, temp, lines, mine, last>>

\* readFile: when one cannot be read, nothing is written.
ReadNext(t) ==
    LET o == order[t] p == Files[o.next] c == Change(p, o.setting) IN
    /\ o.state = "reads"
    /\ \/ order' = [order EXCEPT ![t] =
              [o EXCEPT !.changes = IF Changed(c) THEN Append(@, c) ELSE @,
                        !.next  = IF o.next = Len(Files) THEN 1 ELSE @ + 1,
                        !.state = IF o.next = Len(Files) THEN "asks" ELSE @]]
       \/ order' = [order EXCEPT ![t] = Quiet]
    /\ UNCHANGED <<content, temp, orders, lines, mine, last>>

Finished(t) ==
    last' = IF order[t].alone THEN [ended |-> TRUE, setting |-> order[t].setting] ELSE Nobody

\* "nothing to do", or the user says yes or no.
Confirm(t) ==
    /\ order[t].state = "asks"
    /\ \/ /\ order[t].changes # << >>
          /\ order' = [order EXCEPT ![t].state = "writes"] /\ UNCHANGED last
       \/ /\ order[t].changes # << >>
          /\ order' = [order EXCEPT ![t] = Quiet] /\ UNCHANGED last
       \/ /\ order[t].changes = << >>
          /\ order' = [order EXCEPT ![t] = Quiet] /\ Finished(t)
    /\ UNCHANGED <<content, temp, orders, lines, mine>>

Current(t) == Head(order[t].changes)
Running(t) == order[t].state \in {"writes", "left"}

\* The script for one file has ended: the next one, unless nobody waits.
Onwards(t, moved) ==
    LET o == order[t]
        over == Len(o.changes) = 1 \/ o.state = "left"
    IN /\ order' = [moved EXCEPT ![t] =
                IF over THEN Quiet ELSE [o EXCEPT !.changes = Tail(@), !.stage = "none",
                                                  !.into = "none"]]
       /\ IF over /\ o.state = "writes" THEN Finished(t) ELSE last' = Nobody

\* rm -f
Removes(t) ==
    LET c == Current(t) IN
    /\ Running(t) /\ order[t].stage = "none" /\ c.after = Gone
    /\ content' = [content EXCEPT ![c.path] = Gone]
    /\ Onwards(t, Disturbs(Shell \ {t}))
    /\ UNCHANGED <<temp, orders, lines, mine>>

\* WriteScript: the shell opens the temporary file, which empties it,
OpensTemp(t) ==
    LET c == Current(t) IN
    /\ Running(t) /\ order[t].stage = "none" /\ c.after # Gone
    /\ temp' = [temp EXCEPT ![c.path] = << >>]
    /\ order' = [Disturbs(Shell \ {t}) EXCEPT ![t].stage = "opened", ![t].into = "temp"]
    /\ UNCHANGED <<content, orders, lines, mine, last>>

\* base64 writes what it was given to what was opened, wherever it is now,
Fills(t) ==
    LET c == Current(t) IN
    /\ Running(t) /\ order[t].stage = "opened"
    /\ temp' = IF order[t].into = "temp" THEN [temp EXCEPT ![c.path] = c.after] ELSE temp
    /\ IF order[t].into = "target" THEN
           /\ content' = [content EXCEPT ![c.path] = c.after]
           /\ mine' = IF c.path = Shared THEN Own(c.after) ELSE mine
           /\ last' = Nobody
       ELSE UNCHANGED <<content, mine, last>>
    /\ order' = [Disturbs(Shell \ {t}) EXCEPT ![t].stage = "filled"]
    /\ UNCHANGED <<orders, lines>>

\* Below a truncated block nothing is the user's, as far as wslkit can tell.
Truncated(c) == BeginMarker \in Range(c) /\ EndMarker \notin Range(Beyond(c, BeginMarker))

\* and mv puts it there, which fails when somebody else has moved it.
MovesTemp(t) ==
    LET o == order[t] c == Current(t) p == c.path
        also(u) == Running(u) /\ order[u].stage # "none" /\ Current(u).path = p
        carried(u) == IF u = t \/ ~also(u) THEN order[u].into
                      ELSE IF order[u].into = "temp" THEN "target" ELSE "gone"
    IN
    /\ Running(t) /\ o.stage = "filled" /\ temp[p] # Gone
    /\ content' = [content EXCEPT ![p] = temp[p]] /\ temp' = [temp EXCEPT ![p] = Gone]
    /\ mine' = IF p = Shared /\ (\/ ReadFile(p) # c.before \/ temp[p] # c.after
                                 \/ Truncated(c.before))
               THEN Own(temp[p]) ELSE mine
    /\ Onwards(t, [u \in Shell |-> [Disturbs(Shell \ {t})[u] EXCEPT !.into = carried(u)]])
    /\ UNCHANGED <<orders, lines>>

\* The script fails, at any of its steps: Apply ends there.
ScriptFails(t) ==
    /\ Running(t) /\ order' = [order EXCEPT ![t] = Quiet]
    /\ last' = Nobody
    /\ UNCHANGED <<content, temp, orders, lines, mine>>

\* The timeout of the runner.
TimesOut(t) ==
    /\ order[t].state = "writes"
    /\ order' = [order EXCEPT ![t].state = "left", ![t].changes = <<Head(@)>>]
    /\ UNCHANGED <<content, temp, orders, lines, mine, last>>

\* The distribution stops, and the scripts with it.
StopsRunning ==
    /\ \E t \in Shell : Running(t)
    /\ order' = [t \in Shell |-> IF Running(t) THEN Quiet ELSE order[t]]
    /\ last' = Nobody
    /\ UNCHANGED <<content, temp, orders, lines, mine>>

FilesNext ==
    \/ UserWrites \/ StopsRunning
    \/ \E t \in Shell :
        \/ \E s \in Setting \cup {NoSetting} : Orders(t, s)
        \/ ReadNext(t) \/ Confirm(t) \/ Removes(t) \/ OpensTemp(t) \/ Fills(t)
        \/ MovesTemp(t) \/ ScriptFails(t) \/ TimesOut(t)

-----------------------------------------------------------------------------
(* Properties. *)

FilesTypeOK ==
    /\ DOMAIN content = Path /\ DOMAIN temp = Path /\ orders \in 0..MaxOrders
    /\ \A p \in Path : Range(content[p]) \subseteq Ours \cup 0..MaxLines
    /\ \A t \in Shell : (order[t].state = "free") = (order[t] = Quiet)

\* "This is what makes revert exact and re-apply idempotent" (files.go, Merge).
\* The lines of the user stay, in their order, whatever fails, stops or is done
\* again, but for an edit made after the file was read, two scripts that share
\* the temporary file, and what stands below a truncated block.  And a command
\* that ends well and that nobody has disturbed leaves all of the setting, once,
\* or nothing (Merge, Unmerge, PlanApply, PlanRevert, Apply, WriteScript).
RevertIsExact ==
    /\ Own(ReadFile(Shared)) = mine
    /\ last.ended =>
        LET s == last.setting
            ours(l) == l \in Ours
            left(p) == SelectSeq(ReadFile(p), ours)
        IN \A p \in Path : left(p) = IF s = NoSetting THEN << >>
                                     ELSE IF p = Shared THEN Managed(s) ELSE <<s>>
=============================================================================
