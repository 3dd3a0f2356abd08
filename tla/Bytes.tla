-------------------------------- MODULE Bytes --------------------------------
(***************************************************************************)
(* What the directions of multiplexed streams promise: the bytes written   *)
(* at one end are read at the other in the order they were written, and a  *)
(* reader that is told of the end has read all there was.  A reader of a   *)
(* direction that is not in Whole may have missed the beginning.           *)
(***************************************************************************)
EXTENDS Integers, Sequences

CONSTANTS
    Dir,       \* the directions
    Whole,     \* those that are read from the first byte
    MaxData    \* bound: bytes written in one

VARIABLES
    written,   \* how many bytes were written
    last,      \* how many of them when the writer closed; before that, -1
    read,      \* the numbers of the bytes read
    over       \* the directions of which the reader was told the end

bytes == <<written, last, read, over>>

Empty ==
    /\ written = [d \in Dir |-> 0] /\ last = [d \in Dir |-> -1]
    /\ read = [d \in Dir |-> << >>] /\ over = {}

Writes(d) ==
    /\ written[d] < MaxData
    /\ written' = [written EXCEPT ![d] = @ + 1]
    /\ UNCHANGED <<last, read, over>>

Closes(d) ==
    /\ last[d] = -1
    /\ last' = [last EXCEPT ![d] = written[d]]
    /\ UNCHANGED <<written, read, over>>

\* A Write under way may go on after the close; nothing of that is promised.
Readable(d) == 1..(IF last[d] # -1 /\ d \in Whole THEN last[d] ELSE written[d])

IsNext(d, n) ==
    IF read[d] = << >> THEN d \in Whole => n = 1
    ELSE n = read[d][Len(read[d])] + 1

Ends(d) ==
    /\ over' = over \cup {d}
    /\ d \in Whole => Len(read'[d]) = last[d]

\* The last byte and the end may come together.
Reads(d) ==
    /\ d \notin over
    /\ \E n \in Readable(d) :
           IsNext(d, n) /\ read' = [read EXCEPT ![d] = Append(@, n)]
    /\ Ends(d) \/ UNCHANGED over
    /\ UNCHANGED <<written, last>>

IsTold(d) == d \notin over /\ UNCHANGED <<written, last, read>> /\ Ends(d)

Flow ==
    Empty /\ [][\E d \in Dir : Writes(d) \/ Closes(d) \/ Reads(d) \/ IsTold(d)]_bytes
=============================================================================
