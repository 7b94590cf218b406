-------------------------------- MODULE Galaxy --------------------------------
(***************************************************************************)
(* src/modules/galaxy/main.c: the image of a game behind the closed module *)
(* sceNp9660.  Readers of that module share one descriptor under its own   *)
(* FdMutex; the mount thread of the module opens the image when the memory *)
(* stick has come, and the module closes it.  Whoever finds the descriptor *)
(* useless opens the image anew, for as long as it takes.                  *)
(*                                                                         *)
(* A descriptor is dead once the stick has been taken out.  Of positions   *)
(* the model knows the one a reader wants and those that opening leaves.   *)
(***************************************************************************)
EXTENDS Integers

CONSTANTS
    Readers, Mount, Closer, \* threads of sceNp9660
    Fds,                    \* descriptors of the stick
    MaxTry,                 \* 0x10 in the code
    Free

FdsAssumption == Fds \subseteq Nat \ {0}
TryAssumption == MaxTry \in Nat \ {0}
ThreadsAssumption ==
    /\ Mount \notin Readers /\ Closer \notin Readers \cup {Mount}
    /\ Free \notin Readers \cup {Mount, Closer}

VARIABLES
    stick,          \* the memory stick is in
    image,          \* "plain" or "cso"
    fd,             \* of every descriptor: closed, live or dead, and its position
    umdfd, npfd,    \* the descriptor, and the copy the closed module has; -1
    cso,
    FdMutex,
    pc, ret,        \* ret: where OpenIso returns to
    try,
    how, out,       \* cso when the request began, and where its bytes came from
    clash,          \* history: the mount thread was in OpenIso while a request
                    \* or a close was under way
    headless,       \* history: the header could not be read
    reread          \* history: a reader reads again after a failed read

Threads == Readers \cup {Mount, Closer}
file    == <<fd, umdfd, npfd, cso>>
hist    == <<clash, headless, reread>>
vars    == <<stick, image, file, FdMutex, pc, ret, try, how, out, hist>>

Opening == {"open", "try", "header"}
OpenSet == {f \in Fds : fd[f].st # "closed"}
Unused  == Fds \ OpenSet

TypeOK ==
    /\ stick \in BOOLEAN /\ image \in {"plain", "cso"}
    /\ fd \in [Fds -> [st : {"closed", "live", "dead"}, pos : {"wanted", "head", "end", "past"}]]
    /\ {umdfd, npfd} \subseteq Fds \cup {-1} /\ cso \in BOOLEAN
    /\ FdMutex \in Threads \cup {Free}
    /\ pc \in [Threads -> Opening \cup {"idle", "lock", "seek", "read", "unlock", "close", "forget"}]
    /\ try \in [Threads -> 0 .. MaxTry]
    /\ out \in [Readers -> {"none", "error", "wanted", "head", "end", "past"}]

Init ==
    /\ stick \in BOOLEAN /\ image \in {"plain", "cso"}
    /\ fd = [f \in Fds |-> [st |-> "closed", pos |-> "head"]]
    /\ umdfd = -1 /\ npfd = -1 /\ cso = FALSE
    /\ FdMutex = Free
    /\ pc = [t \in Threads |-> "idle"] /\ ret = [t \in Threads |-> "idle"]
    /\ try = [t \in Threads |-> 0]
    /\ how = [r \in Readers |-> FALSE] /\ out = [r \in Readers |-> "none"]
    /\ clash = FALSE /\ headless = FALSE /\ reread = [r \in Readers |-> FALSE]

Goto(t, l) == pc' = [pc EXCEPT ![t] = l]
Call(t, l, back) == Goto(t, l) /\ ret' = [ret EXCEPT ![t] = back]

Eject ==
    /\ stick /\ stick' = FALSE
    /\ fd' = [f \in Fds |-> IF fd[f].st = "live" THEN [fd[f] EXCEPT !.st = "dead"] ELSE fd[f]]
    /\ UNCHANGED <<image, umdfd, npfd, cso, FdMutex, pc, ret, try, how, out, hist>>

Insert ==
    /\ ~stick /\ stick' = TRUE
    /\ UNCHANGED <<image, file, FdMutex, pc, ret, try, how, out, hist>>

-----------------------------------------------------------------------------
(* OpenIso.                                                                *)

Shut(f) == fd' = [g \in Fds |-> IF g = f THEN [fd[g] EXCEPT !.st = "closed"] ELSE fd[g]]

OpenIso(t) ==
    /\ pc[t] = "open" /\ Shut(umdfd) /\ Goto(t, "try")
    /\ UNCHANGED <<stick, image, umdfd, npfd, cso, FdMutex, ret, try, how, out, hist>>

\* the loop; the lowest descriptor that is unused is given out
OpenTry(t) ==
    /\ pc[t] = "try" /\ stick /\ Unused # {}
    /\ LET f == CHOOSE g \in Unused : \A h \in Unused : g <= h IN
       /\ fd' = [fd EXCEPT ![f] = [st |-> "live", pos |-> "head"]]
       /\ umdfd' = f /\ npfd' = f
    /\ cso' = FALSE
    /\ Goto(t, "header")
    /\ UNCHANGED <<stick, image, FdMutex, ret, try, how, out, hist>>

\* CisoOpen leaves the descriptor behind the header, GetDiscSize of a plain
\* image leaves it at the end; both ignore what fails
OpenHeader(t) ==
    /\ pc[t] = "header" /\ Goto(t, ret[t])
    /\ IF umdfd # -1 /\ fd[umdfd].st = "live"
       THEN /\ cso' = (image = "cso")
            /\ fd' = [fd EXCEPT ![umdfd].pos = IF cso' THEN "head" ELSE "end"]
            /\ UNCHANGED headless
       ELSE cso' = FALSE /\ headless' = TRUE /\ UNCHANGED fd
    /\ UNCHANGED <<stick, image, umdfd, npfd, FdMutex, ret, try, how, out, clash, reread>>

\* OpenUmdImage, called in the mount thread once the stick is in
OpenUmdImage ==
    /\ pc[Mount] = "idle" /\ stick /\ umdfd = -1
    /\ Call(Mount, "open", "idle")
    /\ clash' = (clash \/ FdMutex # Free)
    /\ UNCHANGED <<stick, image, file, FdMutex, try, how, out, headless, reread>>

-----------------------------------------------------------------------------
(* A request: ReadUmdFile, ReadUmdFileRetry.                               *)

Request(r) ==
    /\ pc[r] = "idle" /\ npfd # -1
    /\ Goto(r, "lock")
    /\ out' = [out EXCEPT ![r] = "none"]
    /\ UNCHANGED <<stick, image, file, FdMutex, ret, try, how, hist>>

Lock(t) ==
    /\ pc[t] = "lock" /\ FdMutex = Free
    /\ FdMutex' = t
    /\ Goto(t, IF t = Closer THEN "close" ELSE "seek")
    /\ try' = [try EXCEPT ![t] = 0]
    /\ how' = [r \in Readers |-> IF r = t THEN cso ELSE how[r]]
    /\ reread' = [r \in Readers |-> r # t /\ reread[r]]
    /\ clash' = (clash \/ pc[Mount] # "idle")
    /\ UNCHANGED <<stick, image, file, ret, out, headless>>

Live == umdfd # -1 /\ fd[umdfd].st = "live"

Give(r, what) == Goto(r, "unlock") /\ out' = [out EXCEPT ![r] = what]

Seek(r) ==
    /\ pc[r] = "seek"
    /\ \/ /\ try[r] = MaxTry /\ Give(r, "error")
          /\ UNCHANGED <<fd, ret, try>>
       \/ /\ try[r] < MaxTry /\ Live
          /\ fd' = [fd EXCEPT ![umdfd].pos = "wanted"]
          /\ Goto(r, "read") /\ try' = [try EXCEPT ![r] = 0]
          /\ UNCHANGED <<ret, out>>
       \/ /\ try[r] < MaxTry /\ ~Live
          /\ Call(r, "open", "seek") /\ try' = [try EXCEPT ![r] = @ + 1]
          /\ UNCHANGED <<fd, out>>
    /\ UNCHANGED <<stick, image, umdfd, npfd, cso, FdMutex, how, hist>>

Read(r) ==
    /\ pc[r] = "read"
    /\ \/ /\ try[r] = MaxTry /\ Give(r, "error")
          /\ UNCHANGED <<fd, ret, try, reread>>
       \/ /\ try[r] < MaxTry /\ Live
          /\ Give(r, fd[umdfd].pos)
          /\ fd' = [fd EXCEPT ![umdfd].pos = "past"]
          /\ UNCHANGED <<ret, try, reread>>
       \/ /\ try[r] < MaxTry /\ ~Live
          /\ Call(r, "open", "read") /\ try' = [try EXCEPT ![r] = @ + 1]
          /\ reread' = [reread EXCEPT ![r] = TRUE]
          /\ UNCHANGED <<fd, out>>
    /\ UNCHANGED <<stick, image, umdfd, npfd, cso, FdMutex, how, clash, headless>>

\* mutant: a request for a compressed image keeps the mutex
UnlockPlain(t) ==
    /\ pc[t] = "unlock" /\ Goto(t, "idle")
    /\ FdMutex' = IF t \in Readers /\ how[t] THEN FdMutex ELSE Free
    /\ UNCHANGED <<stick, image, file, ret, try, how, out, hist>>

Unlock(t) ==
    /\ pc[t] = "unlock" /\ FdMutex' = Free /\ Goto(t, "idle")
    /\ UNCHANGED <<stick, image, file, ret, try, how, out, hist>>

-----------------------------------------------------------------------------
(* sceIoClosePatched, which the module calls under its mutex.              *)

CloseRequest ==
    /\ pc[Closer] = "idle" /\ npfd # -1 /\ Goto(Closer, "lock")
    /\ UNCHANGED <<stick, image, file, FdMutex, ret, try, how, out, hist>>

\* mutant: the copy of the module is left as it is
CloseForget ==
    /\ pc[Closer] = "close"
    /\ Shut(npfd) /\ umdfd' = (IF npfd = umdfd THEN -1 ELSE umdfd)
    /\ Goto(Closer, "unlock")
    /\ UNCHANGED <<stick, image, npfd, cso, FdMutex, ret, try, how, out, hist>>

Close ==
    /\ pc[Closer] = "close"
    /\ Shut(npfd)
    /\ IF npfd = umdfd THEN umdfd' = -1 /\ npfd' = -1 ELSE UNCHANGED <<umdfd, npfd>>
    /\ Goto(Closer, "unlock")
    /\ UNCHANGED <<stick, image, cso, FdMutex, ret, try, how, out, hist>>

Step(t) ==
    \/ OpenIso(t) \/ OpenTry(t) \/ OpenHeader(t) \/ Lock(t) \/ Unlock(t)
    \/ t \in Readers /\ (Seek(t) \/ Read(t))
    \/ t = Closer /\ Close

Next ==
    \/ Eject \/ Insert \/ OpenUmdImage \/ CloseRequest
    \/ \E r \in Readers : Request(r)
    \/ \E t \in Threads : Step(t)

Spec == Init /\ [][Next]_vars

\* the mutex is handed on in turn
FairSpec == Spec /\ \A t \in Threads : WF_vars(Step(t)) /\ SF_vars(Lock(t))

Guarded == ~clash
-----------------------------------------------------------------------------
(* Properties.                                                             *)

\* Requests, closes and removals of the stick never lose a descriptor: one is
\* open at most, and it is the one that everybody uses.
OneDescriptor ==
    ~clash => /\ \A f, g \in OpenSet : f = g
              /\ (\A t \in Threads : pc[t] \notin Opening) => OpenSet \subseteq {umdfd}

\* What the closed module holds for its descriptor is the one that is open,
\* so that it closes the right one.
ModuleKnows == ~clash => npfd = umdfd /\ (npfd = -1 => OpenSet = {})

\* A request returns the bytes it asked for, read in the format of the image,
\* when the stick was not taken out inside it: then the read is repeated
\* without a seek, and an image whose header is lost passes for a plain one.
BytesWanted ==
    \A r \in Readers :
        out[r] \notin {"none", "error"} /\ ~reread[r] /\ ~clash /\ ~headless =>
            out[r] = "wanted" /\ how[r] = (image = "cso")

=============================================================================
