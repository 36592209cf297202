-------------------------------- MODULE Exec --------------------------------
(***************************************************************************)
(* ratchet.exec (exec.c): child processes, their pipes, communicate(),     *)
(* wait() and kill().                                                      *)
(*                                                                         *)
(* Every exec object p is driven by a ratchet thread of its own.  Threads  *)
(* of one ratchet run one at a time until they yield (running); children   *)
(* run concurrently with them.  A child of communicate() is a filter: it   *)
(* copies its stdin to its stdout, writes to its stderr when it likes and  *)
(* exits at the end of its stdin.  Data is counted in pipe buffers (pages),*)
(* the unit in which the kernel fills a pipe: a write to a pipe that polls *)
(* writable stores at least one.                                           *)
(***************************************************************************)
EXTENDS Naturals, FiniteSets

CONSTANTS
    Procs,          \* exec objects
    Programs,       \* the sets of them that programs use together
    Communicators,  \* those used with communicate(data)
    Silent,         \* those used with communicate() without data
    Twice,          \* those whose wait() is called again after it returned
    Timed,          \* those whose wait() has a timeout
    Killed,         \* those another thread may kill()
    Quitters,       \* those whose child may exit before the end of its stdin
    Daemons,        \* those whose child does not exit by itself
    Noisy,          \* those whose child may write to stderr
    Binary,         \* those whose child may write NUL octets
    MaxData,        \* bound: the data given to communicate(), in buffers
    MaxErr,         \* bound: what a child writes to stderr
    Cap,            \* the capacity of a pipe
    None            \* no exec object

\* The others are used with start() and wait().
Waiters == Procs \ (Communicators \cup Silent)

ASSUME ExecAssumption ==
    /\ Programs \subseteq SUBSET Procs
    /\ Communicators \subseteq Procs /\ Silent \subseteq Procs
    /\ Communicators \cap Silent = {}
    /\ Twice \subseteq Waiters /\ Timed \subseteq Waiters
    /\ Killed \subseteq Procs /\ Quitters \subseteq Procs /\ Daemons \subseteq Waiters
    /\ Noisy \subseteq Communicators \cup Silent /\ Binary \subseteq Communicators \cup Silent
    /\ MaxData \in Nat /\ MaxErr \in Nat /\ Cap \in Nat \ {0}
    /\ None \notin Procs

VARIABLES
    running,     \* the thread that runs, or None while the loop polls
    pc,          \* where each thread is
    data,        \* the data given to communicate()
    left,        \* what is left of it to write
    open,        \* infds[1] is open
    files,       \* the read files communicate() still waits for
    got,         \* what communicate() has read from each of them
    known,       \* pid > 0: the object knows its child
    status,      \* the child whose status wait() returned
    timed_out,   \* the last resumption of wait() was the timeout
    registered,  \* threads with a SIGCHLD event in libevent
    active,      \* those of them whose event is active
    caught,      \* a SIGCHLD libevent caught and has not dispatched
    child,       \* the state of each child
    pipe,        \* what is in each child's pipes
    hold,        \* what the child has read and not written yet
    wrote,       \* what the child has written
    holders,     \* the children that inherited infds[1] of an object
    group        \* the ratchet process itself was signalled

threadVars == <<running, pc, data, left, open, files, got, known, status, timed_out>>
signalVars == <<registered, active, caught, group>>
childVars  == <<child, pipe, hold, wrote, holders>>
vars == <<threadVars, signalVars, childVars>>

Outputs == {"out", "err"}
Phases == {"unused", "new", "write", "close", "read", "wait", "checked", "sigwait", "done", "timedout", "error", "gone"}

TypeOK ==
    /\ running \in Procs \cup {None}
    /\ pc \in [Procs -> Phases]
    /\ data \in [Procs -> 0..MaxData] /\ left \in [Procs -> 0..MaxData]
    /\ open \in [Procs -> BOOLEAN]
    /\ files \in [Procs -> SUBSET Outputs]
    /\ got \in [Procs -> [Outputs -> Nat]]
    /\ known \in [Procs -> BOOLEAN]
    /\ status \in [Procs -> Procs \cup {None}]
    /\ timed_out \in [Procs -> BOOLEAN]
    /\ active \subseteq registered /\ registered \subseteq Procs
    /\ caught \in BOOLEAN
    /\ child \in [Procs -> {"none", "running", "zombie", "reaped"}]
    /\ pipe \in [Procs -> [{"in", "out", "err"} -> 0..Cap]]
    /\ hold \in [Procs -> 0..1]
    /\ wrote \in [Procs -> [Outputs -> Nat]]
    /\ holders \in [Procs -> SUBSET Procs]
    /\ group \in BOOLEAN

\* A program has created its exec objects and has not started any.
Init ==
    /\ running = None
    /\ pc \in {[p \in Procs |-> IF p \in S THEN "new" ELSE "unused"] : S \in Programs}
    /\ data \in {d \in [Procs -> 0..MaxData] :
                  \A p \in Procs : p \notin Communicators \/ pc[p] = "unused" => d[p] = 0}
    /\ left = data
    /\ open = [p \in Procs |-> FALSE]
    /\ files = [p \in Procs |-> {}]
    /\ got = [p \in Procs |-> [f \in Outputs |-> 0]]
    /\ known = [p \in Procs |-> FALSE]
    /\ status = [p \in Procs |-> None]
    /\ timed_out = [p \in Procs |-> FALSE]
    /\ registered = {} /\ active = {} /\ caught = FALSE /\ group = FALSE
    /\ child = [p \in Procs |-> "none"]
    /\ pipe = [p \in Procs |-> [f \in {"in", "out", "err"} |-> 0]]
    /\ hold = [p \in Procs |-> 0]
    /\ wrote = [p \in Procs |-> [f \in Outputs |-> 0]]
    /\ holders = [p \in Procs |-> {}]

Goto(p, phase) == pc' = [pc EXCEPT ![p] = phase]

-----------------------------------------------------------------------------
(***************************************************************************)
(* The thread of an exec object.                                           *)
(***************************************************************************)

\* start(): the pipes and the fork.  The pipes are not close-on-exec: the child
\* keeps infds[1] of every object that has it open.
Start(p) ==
    /\ running = None /\ pc[p] = "new"
    /\ running' = p
    /\ Goto(p, IF p \in Waiters THEN "wait" ELSE "write")
    /\ open' = [open EXCEPT ![p] = TRUE]
    /\ known' = [known EXCEPT ![p] = TRUE]
    /\ child' = [child EXCEPT ![p] = "running"]
    /\ holders' = [q \in Procs |-> IF open[q] THEN holders[q] \cup {p} ELSE holders[q]]
    /\ UNCHANGED <<data, left, files, got, status, timed_out, signalVars, pipe, hold, wrote>>

\* Mutant: the rest of a short write is dropped.
WriteDropsRest(p) ==
    /\ pc[p] = "write"
    /\ running = p \/ (running = None /\ pipe[p]["in"] < Cap)
    /\ child[p] = "running"
    /\ pipe' = [pipe EXCEPT ![p]["in"] = IF @ + left[p] > Cap THEN Cap ELSE @ + left[p]]
    /\ left' = [left EXCEPT ![p] = 0]
    /\ Goto(p, "close") /\ running' = p
    /\ UNCHANGED <<data, open, files, got, known, status, timed_out, signalVars, child, hold, wrote, holders>>

Writable(p) == pipe[p]["in"] < Cap \/ child[p] # "running"

\* stdin:write() and the loop of communicate() around it: contexts 1 and 2.  After
\* a short write the rest is written; a full pipe makes the thread yield; the
\* child's exit raises EPIPE out of communicate().
Write(p) ==
    /\ pc[p] = "write"
    /\ running = p \/ (running = None /\ Writable(p))
    /\ \/ /\ left[p] = 0
          /\ Goto(p, "close") /\ running' = p
          /\ UNCHANGED <<left, pipe>>
       \/ /\ left[p] > 0 /\ ~Writable(p)
          /\ running' = None
          /\ UNCHANGED <<pc, left, pipe>>
       \/ /\ left[p] > 0 /\ child[p] # "running"
          /\ Goto(p, "error") /\ running' = None
          /\ UNCHANGED <<left, pipe>>
       \/ /\ left[p] > 0 /\ child[p] = "running"
          /\ \E k \in 1..left[p] :
                /\ pipe[p]["in"] + k <= Cap
                /\ left' = [left EXCEPT ![p] = @ - k]
                /\ pipe' = [pipe EXCEPT ![p]["in"] = @ + k]
          /\ running' = p
          /\ UNCHANGED pc
    /\ UNCHANGED <<data, open, files, got, known, status, timed_out, signalVars, child, hold, wrote, holders>>

\* Mutant: stdin is not closed.
CloseStdinKeepsOpen(p) ==
    /\ pc[p] = "close" /\ running = p
    /\ files' = [files EXCEPT ![p] = Outputs]
    /\ Goto(p, "read") /\ running' = None
    /\ UNCHANGED <<data, left, open, got, known, status, timed_out, signalVars, childVars>>

\* Context 2, once everything is written: stdin:close(), and the thread yields on
\* both read files.
CloseStdin(p) ==
    /\ pc[p] = "close" /\ running = p
    /\ open' = [open EXCEPT ![p] = FALSE]
    /\ files' = [files EXCEPT ![p] = Outputs]
    /\ Goto(p, "read") /\ running' = None
    /\ UNCHANGED <<data, left, got, known, status, timed_out, signalVars, childVars>>

Readable(p, f) == pipe[p][f] > 0 \/ child[p] # "running"

\* Mutant: the end of one file ends the reading.
LeavesBoth(p, f) ==
    /\ files' = [files EXCEPT ![p] = {}]
    /\ running' = p /\ Goto(p, "wait")

\* Contexts 6 and 8 at the end of a file: it leaves the list, and communicate()
\* waits for the child when the list is empty.
Leaves(p, f) ==
    /\ files' = [files EXCEPT ![p] = @ \ {f}]
    /\ \/ files'[p] # {} /\ UNCHANGED <<running, pc>>
       \/ files'[p] = {} /\ running' = p /\ Goto(p, "wait")

\* Contexts 4 to 8: the file that became readable is read.  The end of a file is
\* told by strcmp("", chunk), so a chunk that begins with a NUL octet counts as the
\* end too and is dropped.  communicate() without data has written its initial
\* stack slot for stderr over the data argument (context 2), so what it reads of
\* stderr is not kept.
Read(p, f) ==
    /\ pc[p] = "read" /\ running = None /\ f \in files[p] /\ Readable(p, f)
    /\ \/ \E k \in 1..pipe[p][f] :
             /\ pipe' = [pipe EXCEPT ![p][f] = @ - k]
             /\ got' = IF p \in Silent /\ f = "err" THEN got ELSE [got EXCEPT ![p][f] = @ + k]
             /\ UNCHANGED <<running, pc, files>>
       \/ /\ p \in Binary
          /\ \E k \in 1..pipe[p][f] : pipe' = [pipe EXCEPT ![p][f] = @ - k]
          /\ Leaves(p, f)
          /\ UNCHANGED got
       \/ /\ pipe[p][f] = 0
          /\ Leaves(p, f)
          /\ UNCHANGED <<pipe, got>>
    /\ UNCHANGED <<data, left, open, known, status, timed_out, signalVars, child, hold, wrote, holders>>

\* Mutant: waitpid(-1).
WaitedAny(p) == Procs

\* What waitpid() may report on: pid 0 stands for every child of the process group.
Waited(p) == IF known[p] THEN {p} ELSE Procs

\* clean_up() closes what is open; pid is 0 already when wait() calls it.
CleanUp(p) ==
    /\ open' = [open EXCEPT ![p] = FALSE]
    /\ files' = [files EXCEPT ![p] = {}]
    /\ known' = [known EXCEPT ![p] = FALSE]

\* Mutant: wait() does not look at why it was resumed.
WaitForgetsTimeout(p) ==
    /\ pc[p] = "wait" /\ running = p
    /\ \/ /\ child[p] = "zombie"
          /\ child' = [child EXCEPT ![p] = "reaped"]
          /\ status' = [status EXCEPT ![p] = p]
          /\ CleanUp(p)
          /\ Goto(p, "done") /\ running' = None
       \/ /\ child[p] = "running"
          /\ Goto(p, "checked")
          /\ UNCHANGED <<running, open, files, known, status, child>>
    /\ UNCHANGED <<data, left, got, timed_out, signalVars, pipe, hold, wrote, holders>>

\* wait() up to its result, its error or its yield: waitpid(pid, WNOHANG).
Wait(p) ==
    /\ pc[p] = "wait" /\ running = p
    /\ \/ \E q \in Waited(p) :
             /\ child[q] = "zombie"
             /\ child' = [child EXCEPT ![q] = "reaped"]
             /\ status' = [status EXCEPT ![p] = q]
             /\ CleanUp(p)
             /\ Goto(p, "done") /\ running' = None
       \/ /\ \A q \in Waited(p) : child[q] # "zombie"
          /\ \E q \in Waited(p) : child[q] = "running"
          /\ \/ timed_out[p] /\ Goto(p, "timedout") /\ running' = None
             \/ ~timed_out[p] /\ Goto(p, "checked") /\ UNCHANGED running
          /\ UNCHANGED <<open, files, known, status, child>>
       \/ /\ \A q \in Waited(p) : child[q] \in {"none", "reaped"}
          /\ Goto(p, "error") /\ running' = None
          /\ UNCHANGED <<open, files, known, status, child>>
    /\ UNCHANGED <<data, left, got, timed_out, signalVars, pipe, hold, wrote, holders>>

\* The program calls wait() again on an object that has been waited for.
WaitAgain(p) ==
    /\ running = None /\ pc[p] = "done" /\ p \in Twice /\ status[p] = p
    /\ Goto(p, "wait") /\ running' = p
    /\ UNCHANGED <<data, left, open, files, got, known, status, timed_out, signalVars, childVars>>

\* The yield of wait(): the kernel adds the signal event.
Sigwait(p) ==
    /\ pc[p] = "checked" /\ running = p
    /\ registered' = registered \cup {p}
    /\ Goto(p, "sigwait") /\ running' = None
    /\ UNCHANGED <<data, left, open, files, got, known, status, timed_out, active, caught, group, childVars>>

-----------------------------------------------------------------------------
(***************************************************************************)
(* SIGCHLD.                                                                *)
(***************************************************************************)

\* libevent catches the signal while some event is registered for it; otherwise
\* the handler of exec.c does nothing with it.
Sigchld == caught' = (caught \/ registered # {})

\* Mutant: one thread takes the signal.
ActivateOne ==
    /\ running = None /\ caught
    /\ caught' = FALSE
    /\ active' = IF registered = {} THEN {} ELSE {CHOOSE p \in registered : TRUE}
    /\ UNCHANGED <<threadVars, registered, group, childVars>>

\* libevent makes every event on the signal active.
Activate ==
    /\ running = None /\ caught
    /\ caught' = FALSE
    /\ active' = registered
    /\ UNCHANGED <<threadVars, registered, group, childVars>>

\* signal_triggered(), for the signal or for the timeout: the thread's events are
\* deleted and wait() goes on.
SignalTriggered(p, timeout) ==
    /\ running = None
    /\ IF timeout THEN p \in registered /\ p \in Timed ELSE p \in active
    /\ registered' = registered \ {p} /\ active' = active \ {p}
    /\ timed_out' = [timed_out EXCEPT ![p] = timeout]
    /\ Goto(p, "wait") /\ running' = p
    /\ UNCHANGED <<data, left, open, files, got, known, status, caught, group, childVars>>

\* An object nobody refers to any more is collected: clean_up() closes its files
\* and reaps the child if it has exited.
Collect(p) ==
    /\ pc[p] \in {"done", "timedout", "error"}
    /\ CleanUp(p)
    /\ child' = [child EXCEPT ![p] = IF known[p] /\ @ = "zombie" THEN "reaped" ELSE @]
    /\ Goto(p, "gone")
    /\ UNCHANGED <<running, data, left, got, status, timed_out, signalVars, pipe, hold, wrote, holders>>

\* kill() by another thread; pid 0 is the process group of the ratchet process.
Kill(p) ==
    /\ running = None /\ p \in Killed /\ pc[p] \notin {"unused", "new", "gone"}
    /\ \/ /\ known[p] /\ child[p] = "running"
          /\ child' = [child EXCEPT ![p] = "zombie"]
          /\ Sigchld /\ UNCHANGED group
       \/ /\ ~known[p]
          /\ group' = TRUE
          /\ UNCHANGED <<child, caught>>
    /\ UNCHANGED <<threadVars, registered, active, pipe, hold, wrote, holders>>

-----------------------------------------------------------------------------
(***************************************************************************)
(* The children.                                                           *)
(***************************************************************************)
ChildRead(p) ==
    /\ child[p] = "running" /\ hold[p] = 0 /\ pipe[p]["in"] > 0
    /\ pipe' = [pipe EXCEPT ![p]["in"] = @ - 1]
    /\ hold' = [hold EXCEPT ![p] = 1]
    /\ UNCHANGED <<threadVars, signalVars, child, wrote, holders>>

Emit(p, f) ==
    /\ child[p] = "running" /\ pipe[p][f] < Cap
    /\ pipe' = [pipe EXCEPT ![p][f] = @ + 1]
    /\ wrote' = [wrote EXCEPT ![p][f] = @ + 1]
    /\ UNCHANGED <<threadVars, signalVars, child, holders>>

ChildWrite(p) == hold[p] = 1 /\ hold' = [hold EXCEPT ![p] = 0] /\ Emit(p, "out")

ChildError(p) == p \in Noisy /\ wrote[p]["err"] < MaxErr /\ UNCHANGED hold /\ Emit(p, "err")

\* Its stdin is at its end when nobody has the other end open.
AtEnd(p) ==
    /\ pipe[p]["in"] = 0 /\ hold[p] = 0 /\ ~open[p]
    /\ \A q \in holders[p] : child[q] # "running"

ChildExit(p) ==
    /\ child[p] = "running" /\ p \notin Daemons
    /\ p \in Waiters \cup Quitters \/ AtEnd(p)
    /\ child' = [child EXCEPT ![p] = "zombie"]
    /\ Sigchld
    /\ UNCHANGED <<threadVars, registered, active, group, pipe, hold, wrote, holders>>

-----------------------------------------------------------------------------
Thread(p) ==
    \/ Start(p) \/ Write(p) \/ CloseStdin(p) \/ Wait(p) \/ Sigwait(p)
    \/ \E f \in Outputs : Read(p, f)

Child(p) == ChildRead(p) \/ ChildWrite(p) \/ ChildError(p) \/ ChildExit(p)

Next ==
    \/ \E p \in Procs : Thread(p) \/ Child(p) \/ WaitAgain(p) \/ Collect(p) \/ Kill(p)
    \/ \E p \in Procs, timeout \in BOOLEAN : SignalTriggered(p, timeout)
    \/ Activate

Spec == Init /\ [][Next]_vars

-----------------------------------------------------------------------------
(***************************************************************************)
(* Properties.                                                             *)
(***************************************************************************)
Reading == {"unused", "new", "write", "close", "read", "error", "gone"}

\* "The concatenations of stdout and stderr": once communicate() has read both
\* files to their end it has everything the child wrote, however the writes, the
\* reads and the child's exit were interleaved.  The child writes no NUL octets: a
\* chunk that begins with one is taken for the end of the file.
OutputComplete ==
    \A p \in (Communicators \cup Silent) \ Binary : pc[p] \notin Reading => got[p] = wrote[p]

\* The data given to communicate() reaches the child once and completely, over any
\* number of short writes: a filter that ran to the end of its stdin has written as
\* much as communicate() was given.
InputComplete ==
    \A p \in Communicators \ (Quitters \cup Killed) :
        pc[p] \notin Reading /\ child[p] # "running" => wrote[p]["out"] = data[p]

\* wait() returns the status of the object's own child whatever other children exit
\* or are reaped meanwhile, and kill() reaches that child.  Only once wait() has
\* returned, when pid is 0, may another wait() take another object's child, and
\* kill() signal the process group of the program.
StatusOwn ==
    /\ \A p \in Procs \ Twice : status[p] \in {None, p}
    /\ group => \E p \in Killed : status[p] # None /\ ~known[p]

-----------------------------------------------------------------------------
(***************************************************************************)
(* Liveness.  The loop runs the threads whose files are ready and the      *)
(* events that are active; children that are not daemons run.              *)
(***************************************************************************)
Fairness ==
    /\ \A p \in Procs :
        /\ WF_vars(Thread(p))
        /\ WF_vars(ChildRead(p) \/ ChildWrite(p) \/ ChildExit(p))
        /\ WF_vars(\E timeout \in BOOLEAN : SignalTriggered(p, timeout))
    /\ WF_vars(Activate)

FairSpec == Spec /\ Fairness

\* communicate() gets through writing and reading to its wait(), if its stdin, its
\* child and its stdout have room for all the data: it reads nothing before it has
\* written everything.  Children inherit the pipes of the objects started before
\* them: while one of those runs for ever, the end of stdin does not come.  Nor does
\* the end of stderr for a child that fills a stdout read only to a NUL octet.
CommunicateEnds ==
    \A p \in (Communicators \cup Silent) \ Binary :
        pc[p] = "write" /\ data[p] <= 2 * Cap + 1 ~>
            \/ pc[p] \notin {"write", "close", "read"}
            \/ \E q \in holders[p] \cap Daemons : child[q] = "running"

\* "After writing optional data, stdin is closed.  Reads data from stdout and stderr
\* until both are closed": communicate() gets there with any amount of data.
CommunicateFinishes ==
    \A p \in Communicators : pc[p] = "write" ~> pc[p] \notin {"write", "close", "read"}

\* wait(timeout) returns or raises ETIMEDOUT, whatever the child does.
TimedWaitEnds == \A p \in Timed : pc[p] = "wait" ~> pc[p] \in {"done", "timedout", "error", "gone"}

\* The SIGCHLD of a child that exits while its thread is registered wakes that
\* thread, with any number of threads registered for the signal.
SignalWakes ==
    \A p \in Procs :
        p \in registered /\ child[p] = "running" ~> p \notin registered \/ [](child[p] = "running")

\* wait() without a timeout returns once the child has exited.
WaitReturns == \A p \in Procs : pc[p] = "sigwait" ~> pc[p] \in {"done", "error", "gone"}

=============================================================================
