------------------------------ MODULE ByteRanges ------------------------------
(***************************************************************************)
(* What an open file of the disc promises: it is a range of bytes of the   *)
(* image with a position, which only requests on that file move.  Bytes    *)
(* are named by their address in the image.                                *)
(***************************************************************************)
EXTENDS Integers, Sequences

CONSTANTS Iobs, Closed, Bytes   \* Bytes: a sector has so many

VARIABLES
    file,       \* [start, size, pos] or Closed
    out         \* how the last read ended, and the addresses it delivered

Nothing == [iob |-> Closed, kind |-> "none", data |-> <<>>]

Init == file = [i \in Iobs |-> Closed] /\ out = Nothing

Open(i) ==
    /\ file[i] = Closed
    /\ file'[i] # Closed /\ file'[i].pos = 0
    /\ \A j \in Iobs \ {i} : file'[j] = file[j]
    /\ out' = Nothing

Close(i) == file[i] # Closed /\ file' = [file EXCEPT ![i] = Closed] /\ out' = Nothing

\* lseek goes anywhere; dread moves the position over the directory
Seek(i) ==
    /\ file[i] # Closed /\ file'[i] # Closed
    /\ file' = [file EXCEPT ![i].pos = file'[i].pos]
    /\ out' = Nothing

\* A read that succeeds delivers the bytes that follow the position, which it
\* leaves behind the last one, and never passes the end of the file.  One
\* that fails may have moved the position, over bytes of the file.
Read(i) ==
    /\ file[i] # Closed
    /\ LET f == file[i]  n == Len(out'.data)
       IN  /\ out'.iob = i
           /\ file' = [file EXCEPT ![i].pos = file'[i].pos]
           /\ f.pos >= 0 =>
                 CASE out'.kind = "data" ->
                        /\ out'.data = [k \in 1 .. n |-> f.start + f.pos + k - 1]
                        /\ file'[i].pos = f.pos + n
                        /\ n > 0 => f.pos + n <= f.size
                   [] out'.kind \in {"error", "torn"} ->
                        file'[i].pos = f.pos \/ file'[i].pos \in f.pos .. f.size

Next == \E i \in Iobs : Open(i) \/ Close(i) \/ Seek(i) \/ Read(i)

Spec == Init /\ [][Next]_<<file, out>>
=============================================================================
