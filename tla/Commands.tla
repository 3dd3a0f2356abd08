------------------------------ MODULE Commands ------------------------------
(***************************************************************************)
(* The commands of wslkit that share nothing with each other, in one       *)
(* specification for checking: the guard, the doctor and top.  part tells  *)
(* which one runs.                                                         *)
(***************************************************************************)
EXTENDS Guard, Doctor, Top

VARIABLE part

guardVars    == vars
commandsVars == <<part, guardVars, doctorVars, topVars>>

CommandsInit ==
    /\ part \in {"guard", "doctor", "top"}
    /\ Init
    /\ IF part = "doctor" THEN DoctorInit
       ELSE Meets(CHOOSE case \in Cases : TRUE) /\ CollectInit /\ turn = 1 /\ results = << >>
    /\ IF part = "top" THEN TopInit
       ELSE AtRest(CHOOSE s \in Scenes : TRUE, "cgroup", FALSE)

CommandsNext ==
    /\ UNCHANGED part
    /\ \/ part = "guard" /\ Next /\ UNCHANGED <<doctorVars, topVars>>
       \/ part = "doctor" /\ DoctorNext /\ UNCHANGED <<guardVars, topVars>>
       \/ part = "top" /\ TopNext /\ UNCHANGED <<guardVars, doctorVars>>

\* As in Guard: a task that was started goes on.
CommandsSpec ==
    /\ CommandsInit /\ [][CommandsNext]_commandsVars
    /\ \A t \in Task : WF_guardVars(part = "guard" /\ Run(t))

\* Every variable of the parts keeps its type.
CommandsTypeOK == TypeOK /\ DoctorTypeOK /\ TopTypeOK
=============================================================================
