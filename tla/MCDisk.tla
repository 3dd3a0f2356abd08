-------------------------------- MODULE MCDisk --------------------------------
(***************************************************************************)
(* The worlds in which TLC explores DiskOps.  What two of them would cover *)
(* together costs more than the two of them, and some properties do not    *)
(* hold in every world: TrashAcross and TrashRelinked show why.            *)
(***************************************************************************)
EXTENDS DiskOps

CONSTANTS home, other, spare

\* Trash, undelete and purge on one volume: wsl.exe and what it leaves behind
\* fail, and a command dies at any point.
TrashWorld ==
    [commands |-> {"trash", "undelete", "purge"}, dirs |-> {home, other},
     far |-> {}, guids |-> 2, crash |-> TRUE,
     failing |-> {"stop", "copy", "remove", "unregister", "unregister late",
                  "import", "import late", "registry", "start"}]

\* The same where no command dies: what it does to the files fails.
FilesWorld ==
    [TrashWorld EXCEPT !.crash = FALSE,
        !.failing = {"mkdir", "rename", "remove", "list", "manifest", "import"}]

\* Move, between directories and between volumes, and relink.
MoveWorld ==
    [commands |-> {"move", "relink"}, dirs |-> {home, other, spare},
     far |-> {other}, guids |-> 1, crash |-> TRUE,
     failing |-> {"mkdir", "rename", "copy", "volume", "remove", "registry", "start",
                  "start late", "stop"}]

\* To the trash and back, moved in between, to another volume, and again.
RoundsWorld ==
    [commands |-> {"trash", "undelete", "move"}, dirs |-> {home, other},
     far |-> {other}, guids |-> 3, crash |-> FALSE,
     failing |-> {"copy", "remove"}]

\* Two trashes across volumes, the second while WSL still unregisters for the first.
SlowWorld ==
    [commands |-> {"trash"}, dirs |-> {home, other}, far |-> {other}, guids |-> 1,
     crash |-> FALSE, failing |-> {"copy", "unregister late"}]

AllWorlds == {TrashWorld, FilesWorld, MoveWorld, RoundsWorld, SlowWorld}

AcrossWorlds ==
    {[commands |-> {"trash"}, dirs |-> {home, other}, far |-> {other}, guids |-> 1,
      crash |-> FALSE, failing |-> {"unregister"}]}

LateWorlds ==
    {[commands |-> {"trash"}, dirs |-> {home, other}, far |-> {}, guids |-> 1,
      crash |-> FALSE, failing |-> {"unregister late"}]}

RelinkedWorlds ==
    {[commands |-> {"trash", "relink"}, dirs |-> {home, other}, far |-> {},
      guids |-> 1, crash |-> TRUE, failing |-> {}]}
=============================================================================
