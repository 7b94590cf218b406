----------------------------- MODULE StartHandlers -----------------------------
(***************************************************************************)
(* The handlers that see a module before its code runs                     *)
(* (src/modules/systemctrl/main.c; vshctrl, popcorn, flashemu and dcman    *)
(* add their own).                                                         *)
(*                                                                         *)
(* The kernel makes a thread for the start of a module and then starts it. *)
(* systemctrl notes the first call (sceKernelCreateThreadPatched) and, in  *)
(* the second (sceKernelStartThreadPatched), calls the handler registered  *)
(* last, which does its work and calls the one registered before it.       *)
(* Threads that stop modules are made in the same way, and a thread that   *)
(* is gone leaves its number to another.                                   *)
(*                                                                         *)
(* Marks end the promise: a second start thread made before the first was  *)
(* started, one that was deleted unstarted, a module that started while a  *)
(* handler was being registered.                                           *)
(***************************************************************************)
EXTENDS FiniteSets

CONSTANTS
    Modules,        \* modules that start
    Formatter,      \* sceLflashFatfmt, one of them
    Threads,        \* numbers of threads
    None

Handlers == {"systemctrl", "flashemu", "vshctrl", "popcorn", "dcman"}

FormatterAssumption ==
    /\ Formatter \in Modules
    /\ None \notin Modules \cup Threads \cup Handlers \cup {"start", "stop", "runs"}

VARIABLES
    stmod_handler,  \* the handler registered last
    previous,       \* the one each handler calls then
    returned,       \* a handler whose registration has not returned yet, and its answer
    thread,         \* what each thread is for
    start_thread,   \* the start thread that was made last
    last_module,    \* and its module
    seen,           \* pairs of a handler and a module it was called for
    due,            \* the handlers that were to see each module that started
    misled,          \* a handler was called for a module that was not to start
    overlapped,     \* marks
    abandoned,
    cut

vars == <<stmod_handler, previous, returned, thread, start_thread, last_module, seen, due,
          misled, overlapped, abandoned, cut>>

Gone == [kind |-> None, module |-> None]

Registered == {h \in Handlers : h = "systemctrl" \/ previous[h] # None}

\* The handlers that a module meets: the last one, and whomever one of them
\* calls; but dcman keeps the formatter to itself, or flashemu would make it do
\* nothing.
Calls(h, module) ==
    IF h = "dcman" /\ module = Formatter THEN {} ELSE {previous[h]} \cap Handlers
Met(module) ==
    {h \in Handlers : \A S \in SUBSET Handlers :
        stmod_handler \in S /\ (\A g \in S : Calls(g, module) \subseteq S) => h \in S}

Init ==
    /\ stmod_handler = "systemctrl" /\ previous = [h \in Handlers |-> None]
    /\ returned = <<>>
    /\ thread = [t \in Threads |-> Gone]
    /\ start_thread = None /\ last_module = None
    /\ seen = {} /\ due = [m \in Modules |-> {}]
    /\ misled = FALSE /\ overlapped = FALSE /\ abandoned = FALSE /\ cut = FALSE

threadVars == <<thread, start_thread, last_module, seen, due, misled, overlapped, abandoned, cut>>

\* previous = sctrlHENSetStartModuleHandler(OnModuleStart): the call, and the
\* assignment of its answer.  The driver of the flash comes with the boot, the
\* XMB or the loader of old titles with the list, dcman after them.
SetStartModuleHandler(h) ==
    /\ returned = <<>> /\ h \notin Registered
    /\ h = "flashemu" => stmod_handler = "systemctrl"
    /\ h \in {"vshctrl", "popcorn"} => stmod_handler \in {"systemctrl", "flashemu"}
    /\ stmod_handler' = h
    /\ returned' = <<h, stmod_handler>>
    /\ UNCHANGED previous /\ UNCHANGED threadVars

SetPrevious ==
    /\ returned # <<>>
    /\ previous' = [previous EXCEPT ![returned[1]] = returned[2]]
    /\ returned' = <<>>
    /\ UNCHANGED stmod_handler /\ UNCHANGED threadVars

-----------------------------------------------------------------------------
Idle(module) == \A t \in Threads : thread[t].module # module

\* the kernel begins to start a module
CreateStartThread(module, t) ==
    /\ thread[t] = Gone /\ due[module] = {} /\ Idle(module)
    /\ thread' = [thread EXCEPT ![t] = [kind |-> "start", module |-> module]]
    /\ start_thread' = t /\ last_module' = module
    /\ overlapped' = (overlapped \/ start_thread # None)
    /\ UNCHANGED <<stmod_handler, previous, returned, seen, due, misled, abandoned, cut>>

\* it begins to stop one
CreateStopThread(module, t) ==
    /\ thread[t] = Gone /\ due[module] # {} /\ Idle(module)
    /\ thread' = [thread EXCEPT ![t] = [kind |-> "stop", module |-> module]]
    /\ UNCHANGED <<stmod_handler, previous, returned, start_thread, last_module, seen, due,
                   misled, overlapped, abandoned, cut>>

\* the thread of a start that failed in between
DeleteThread(t) ==
    /\ thread[t].kind \in {"start", "stop"}
    /\ thread' = [thread EXCEPT ![t] = Gone]
    /\ abandoned' = (abandoned \/ thread[t].kind = "start")
    /\ UNCHANGED <<stmod_handler, previous, returned, start_thread, last_module, seen, due,
                   misled, overlapped, cut>>

\* a mutant: the noted thread is not forgotten once it has started
StartThreadKept(t) ==
    /\ thread[t].kind \in {"start", "stop"}
    /\ seen' = IF t = start_thread THEN seen \cup (Met(last_module) \X {last_module}) ELSE seen
    /\ misled' = (misled \/ (t = start_thread /\ thread[t].kind = "stop"))
    /\ due' = IF thread[t].kind = "start"
              THEN [due EXCEPT ![thread[t].module] = Registered]
              ELSE due
    /\ cut' = (cut \/ returned # <<>>)
    /\ thread' = [thread EXCEPT ![t].kind = "runs"]
    /\ UNCHANGED <<stmod_handler, previous, returned, start_thread, last_module, overlapped,
                   abandoned>>

\* A thread is started.
StartThread(t) ==
    /\ thread[t].kind \in {"start", "stop"}
    /\ start_thread' = IF t = start_thread THEN None ELSE start_thread
    /\ seen' = IF t = start_thread THEN seen \cup (Met(last_module) \X {last_module}) ELSE seen
    /\ misled' = (misled \/ (t = start_thread /\ thread[t].kind = "stop"))
    /\ due' = IF thread[t].kind = "start"
              THEN [due EXCEPT ![thread[t].module] = Registered]
              ELSE due
    /\ cut' = (cut \/ returned # <<>>)
    /\ thread' = [thread EXCEPT ![t].kind = "runs"]
    /\ UNCHANGED <<stmod_handler, previous, returned, last_module, overlapped, abandoned>>

ExitThread(t) ==
    /\ thread[t].kind = "runs"
    /\ thread' = [thread EXCEPT ![t] = Gone]
    /\ UNCHANGED <<stmod_handler, previous, returned, start_thread, last_module, seen, due,
                   misled, overlapped, abandoned, cut>>

Next ==
    \/ \E h \in Handlers : SetStartModuleHandler(h)
    \/ SetPrevious
    \/ \E m \in Modules, t \in Threads : CreateStartThread(m, t) \/ CreateStopThread(m, t)
    \/ \E t \in Threads : DeleteThread(t) \/ StartThread(t) \/ ExitThread(t)

Spec == Init /\ [][Next]_vars

-----------------------------------------------------------------------------
\* Every handler that was registered sees every module that starts, once and
\* before its code runs; and none is called when a module stops
\* (sceKernelCreateThreadPatched, sceKernelStartThreadPatched).  The formatter
\* is the exception: dcman keeps it from the handlers before it.
SeenByAll ==
    ~overlapped /\ ~abandoned /\ ~cut =>
        /\ ~misled
        /\ \A m \in Modules :
              LET who == {h \in Handlers : <<h, m>> \in seen}
              IN  IF m = Formatter /\ "dcman" \in due[m] THEN who = {"dcman"} ELSE who = due[m]

\* Once dcman is there, no start of the formatter reaches flashemu, which would
\* make it do nothing (OnModuleStart of dcman, "avoid tmctrl patch").
FormatterKept ==
    "dcman" \in due[Formatter] /\ ~overlapped /\ ~abandoned => <<"flashemu", Formatter>> \notin seen

HandlersCalled == SeenByAll /\ FormatterKept

\* a mark ends the exploration
Guarded == ~overlapped /\ ~abandoned /\ ~cut
=============================================================================
