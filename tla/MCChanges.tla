------------------------------ MODULE MCChanges ------------------------------
(***************************************************************************)
(* The limits asked for and the networks, in the run of Changes.  The      *)
(* worlds of the disk commands are in MCDisk.                              *)
(***************************************************************************)
EXTENDS Changes, TLC

CONSTANTS t1, t2   \* the terminals, in every part that has some

\* Nothing is done in one terminal that cannot be in the other.
AnyTerminal == Permutations({t1, t2})

\* A throttle below a ceiling, a ceiling on its own, and a throttle.
AllLimits == {[high |-> 1, max |-> 2, swap |-> 1, cpu |-> 0],
              [high |-> 0, max |-> 1, swap |-> 0, cpu |-> 1],
              [high |-> 2, max |-> 0, swap |-> 0, cpu |-> 0]}

\* The office has two proxies, and home has none.
AllRoutes == <<<<"p", "q">>, << >>>>
=============================================================================
