------------------------------- MODULE Kernel -------------------------------
(***************************************************************************)
(* The ratchet kernel (ratchet.c): Lua coroutines ("threads") scheduled on *)
(* a libevent base.                                                        *)
(*                                                                         *)
(* A thread runs until it yields; the kernel then registers the libevent   *)
(* events the yield asks for and goes on with the loop.  Only one thread   *)
(* runs at a time, so the steps of the running thread (cur) and the steps  *)
(* of the loop (pc) alternate.  The environment decides which events are   *)
(* active when libevent is polled, what a thread does next, and when the   *)
(* garbage collector runs.                                                 *)
(*                                                                         *)
(* The program that uses the kernel is one of Programs: the calls its      *)
(* threads make, whether it gave ratchet.new() an error handler, and how   *)
(* many threads it creates.  The calls "unpause" and "kill" are made on    *)
(* suspended threads that pause or block; "unpause_any" and "kill_any" lift*)
(* that discipline, and ratchet.c accepts those calls too.                 *)
(***************************************************************************)
EXTENDS Naturals, FiniteSets

CONSTANTS
    Threads,          \* the lua_State objects a program may create
    Entry,            \* the thread ratchet.new() creates
    NoThread,         \* "no thread is running"
    Programs          \* the programs: records [calls, handler, size]

AllCalls == {"attach", "rw", "timer", "signal", "multi", "pause", "wait_all",
             "unpause", "unpause_any", "kill", "kill_any", "alarm", "break",
             "fail", "illegal_yield"}

ASSUME KernelAssumption ==
    /\ Entry \in Threads
    /\ NoThread \notin Threads
    /\ Programs \subseteq [calls : SUBSET AllCalls, handler : BOOLEAN, size : Nat]

VARIABLES
    program,      \* the program that runs; it never changes
    pc,           \* where ratchet_loop() is
    cur,          \* the running thread, or NoThread
    ran,          \* some_ready of the phase being executed
    todo,         \* waiting_on keys the current traversal has not visited
    break_flag,   \* break_flag of the persistence table
    threads,      \* keys of the "threads" table
    ready,        \* keys of the "ready" table
    waiters,      \* keys of the "waiting_on" table
    waiting_on,   \* its values, meaningful for the threads in waiters
    asked,        \* the table a thread last gave to wait_all()
    st,           \* lua_status and stack shape of each thread
    cleanup,      \* events of the cleanup table at stack index 2
    events,       \* events added to the libevent base
    active        \* those of them that are on its active queue

loopVars == <<pc, ran, todo, break_flag>>
tableVars == <<threads, ready, waiters, waiting_on, asked>>
eventVars == <<events, active>>
vars == <<program, pc, cur, ran, todo, break_flag, threads, ready, waiters, waiting_on,
          asked, st, cleanup, events, active>>

Calls == program.calls
HasErrorHandler == program.handler

(***************************************************************************)
(* What lua_status() and the stack of a coroutine show the kernel:         *)
(*   unborn    not created yet              start     LUA_OK, [func, args] *)
(*   run       running                      unpaused  LUA_YIELD, [args]    *)
(*   paused, waiting, blocked   LUA_YIELD, [main thread, cleanup, ...]     *)
(*   stuck     LUA_YIELD, [cleanup] (yield_thread raised an error)         *)
(*   done      LUA_OK, []                   killed    LUA_YIELD, []        *)
(*   dead      an error status              gone      collected            *)
(***************************************************************************)
Suspended == {"paused", "waiting", "blocked"}
Yielding == Suspended \cup {"unpaused", "stuck", "killed"}
Ended == {"done", "killed", "dead", "gone"}
ThreadState == {"unborn", "start", "run"} \cup Yielding \cup Ended

(***************************************************************************)
(* An event is <<t, s>>: the coroutine its callback gets as arg, and the   *)
(* kind of event, which determines the callback.                           *)
(***************************************************************************)
Sources == {"rw", "timeout", "sig", "sig_tv", "fd1", "fd2", "multi_tv"}
Alarm == "alarm"
Events == Threads \X (Sources \cup {Alarm})

Phases == {"top", "ready", "waiting", "poll", "dispatch"}
Exits == {"broken", "returned", "deadlock", "raised", "aborted", "internal"}

TypeOK ==
    /\ program \in Programs
    /\ pc \in Phases \cup Exits
    /\ cur \in Threads \cup {NoThread}
    /\ ran \in BOOLEAN
    /\ todo \subseteq Threads
    /\ break_flag \in BOOLEAN
    /\ threads \subseteq Threads
    /\ ready \subseteq Threads
    /\ waiters \subseteq Threads
    /\ waiting_on \in [Threads -> SUBSET Threads]
    /\ asked \in [Threads -> SUBSET Threads]
    /\ st \in [Threads -> ThreadState]
    /\ cleanup \in [Threads -> SUBSET Sources]
    /\ events \subseteq Events
    /\ active \subseteq events

\* ratchet_new(): empty persistence tables, the entry thread attached.
Init ==
    /\ program \in Programs
    /\ pc = "top"
    /\ cur = NoThread
    /\ ran = FALSE
    /\ todo = {}
    /\ break_flag = FALSE
    /\ threads = {Entry}
    /\ ready = {Entry}
    /\ waiters = {}
    /\ waiting_on = [t \in Threads |-> {}]
    /\ asked = [t \in Threads |-> {}]
    /\ st = [t \in Threads |-> IF t = Entry THEN "start" ELSE "unborn"]
    /\ cleanup = [t \in Threads |-> {}]
    /\ events = {}
    /\ active = {}

-----------------------------------------------------------------------------
(***************************************************************************)
(* Helpers of the C file.                                                  *)
(***************************************************************************)

\* The events end_all_waiting_thread_events() deletes for t.
CleanupEvents(t) == {t} \X cleanup[t]

\* event_del() takes an event off the base and off its active queue.
EventDel(E) ==
    /\ events' = events \ E
    /\ active' = active \ E

\* end_thread_persist() for the threads T, whose wait events E are deleted in the
\* same step.  It leaves "ready" and the keys of "waiting_on" alone.
EndThreadPersist(T, E) ==
    /\ threads' = threads \ T
    /\ waiting_on' = [w \in Threads |-> waiting_on[w] \ T]
    /\ EventDel(E \cup (T \X {Alarm}))

\* An error leaves ratchet_loop().  Out of a callback it also leaves
\* event_base_loop() half way through its active queue.
Raise == pc' = IF pc = "dispatch" THEN "aborted" ELSE "raised"

\* handle_thread_error()
HandleThreadError ==
    IF HasErrorHandler THEN UNCHANGED pc ELSE Raise

\* An error raised on a coroutine that is not running: lua marks it with an
\* error status and throws to the main thread.
InternalError(t) ==
    /\ pc' = "internal"
    /\ cur' = NoThread
    /\ st' = [st EXCEPT ![t] = "dead"]

\* run_thread() up to lua_resume(), in a step that deletes the events E.  A
\* coroutine with an error status cannot be resumed.  One that never started and
\* lost its function to kill() is resumed with -1 arguments: it runs what is left
\* above its stack top, or fails.
RunThread(t, E) ==
    \/ /\ st[t] # "dead"
       /\ cur' = t
       /\ st' = [st EXCEPT ![t] = "run"]
       /\ cleanup' = [cleanup EXCEPT ![t] = {}]
       /\ EventDel(E)
       /\ UNCHANGED <<pc, threads, waiting_on>>
    \/ /\ st[t] \in {"dead", "done"}
       /\ cur' = NoThread
       /\ st' = [st EXCEPT ![t] = "dead"]
       /\ cleanup' = [cleanup EXCEPT ![t] = {}]
       /\ EndThreadPersist({t}, E)
       /\ HandleThreadError

-----------------------------------------------------------------------------
(***************************************************************************)
(* ratchet_loop() and ratchet_loop_once().                                 *)
(***************************************************************************)

\* The head of the while loop: break_flag is tested here only.
LoopTop ==
    /\ pc = "top"
    /\ pc' = IF break_flag THEN "broken" ELSE "ready"
    /\ break_flag' = FALSE
    /\ ran' = FALSE
    /\ UNCHANGED <<cur, todo, tableVars, st, cleanup, eventVars>>

\* Mutant: the entry of "ready" is not removed.
StartReadyKeepsEntry(t) ==
    /\ pc = "ready" /\ cur = NoThread
    /\ t \in ready
    /\ ran' = TRUE
    /\ RunThread(t, {})
    /\ UNCHANGED <<todo, break_flag, ready, waiters, asked>>

\* One iteration of start_threads_ready(): the entry is removed, then run.
StartReady(t) ==
    /\ pc = "ready" /\ cur = NoThread
    /\ t \in ready
    /\ ready' = ready \ {t}
    /\ ran' = TRUE
    /\ RunThread(t, {})
    /\ UNCHANGED <<todo, break_flag, waiters, asked>>

\* Mutant: start_threads_done_waiting() is not called.
ReadyDoneSkipsWaiting ==
    /\ pc = "ready" /\ cur = NoThread
    /\ ready = {}
    /\ pc' = IF ran THEN "top" ELSE "poll"
    /\ todo' = {}
    /\ UNCHANGED <<cur, ran, break_flag, tableVars, st, cleanup, eventVars>>

\* start_threads_ready() returns; loop_once() returns true if it ran a thread.
ReadyDone ==
    /\ pc = "ready" /\ cur = NoThread
    /\ ready = {}
    /\ pc' = IF ran THEN "top" ELSE "waiting"
    /\ todo' = IF ran THEN {} ELSE waiters
    /\ UNCHANGED <<cur, ran, break_flag, tableVars, st, cleanup, eventVars>>

\* One iteration of start_threads_done_waiting(): a key of waiting_on is visited
\* and its thread run if the value table is empty.
VisitWaiter(t) ==
    /\ pc = "waiting" /\ cur = NoThread
    /\ t \in todo
    /\ todo' = todo \ {t}
    /\ \/ /\ waiting_on[t] = {}
          /\ waiters' = waiters \ {t}
          /\ ran' = TRUE
          /\ RunThread(t, {})
       \/ /\ waiting_on[t] # {}
          /\ UNCHANGED <<pc, cur, ran, threads, waiters, waiting_on, st, cleanup, eventVars>>
    /\ UNCHANGED <<break_flag, ready, asked>>

\* start_threads_done_waiting() returns.
WaitingDone ==
    /\ pc = "waiting" /\ cur = NoThread
    /\ todo = {}
    /\ pc' = IF ran THEN "top" ELSE "poll"
    /\ UNCHANGED <<cur, ran, todo, break_flag, tableVars, st, cleanup, eventVars>>

\* Mutant: an empty libevent base counts as the end of the program.
PollReturnsOnEmpty ==
    /\ pc = "poll"
    /\ \/ /\ events = {}
          /\ pc' = "returned"
          /\ UNCHANGED active
       \/ /\ pc' = "dispatch"
          /\ active' \in SUBSET events \ {{}}
    /\ UNCHANGED <<cur, ran, todo, break_flag, tableVars, st, cleanup, events>>

\* The end of loop_once(): return false if there are no threads, otherwise call
\* event_base_loop(EVLOOP_ONCE), which returns 1 if the base has no event and
\* else blocks until some are active.
Poll ==
    /\ pc = "poll"
    /\ \/ /\ threads = {}
          /\ pc' = "returned"
          /\ UNCHANGED active
       \/ /\ threads # {}
          /\ events = {}
          /\ pc' = "deadlock"
          /\ UNCHANGED active
       \/ /\ threads # {}
          /\ pc' = "dispatch"
          /\ active' \in SUBSET events \ {{}}
    /\ UNCHANGED <<cur, ran, todo, break_flag, tableVars, st, cleanup, events>>

\* Mutant: timeout_triggered() clears the stack but does not call run_thread().
TimeoutNotRun(t, s) ==
    /\ s \in {"rw", "timeout"}
    /\ st[t] \in Suspended
    /\ \/ s = "rw" /\ RunThread(t, {<<t, s>>})
       \/ /\ s = "timeout"
          /\ st' = [st EXCEPT ![t] = "unpaused"]
          /\ cleanup' = [cleanup EXCEPT ![t] = {}]
          /\ EventDel({<<t, s>>})
          /\ UNCHANGED <<pc, cur, threads, waiting_on>>

\* event_triggered() and timeout_triggered(): the event is not persistent, so
\* running its callback deletes it; the thread is resumed.
EventTriggered(t, s) ==
    /\ s \in {"rw", "timeout"}
    /\ st[t] \in Suspended
    /\ RunThread(t, {<<t, s>>})

\* signal_triggered() and multi_event_triggered(): the other events of the wait
\* are deleted as well.
MultiTriggered(t, s) ==
    /\ s \in Sources \ {"rw", "timeout"}
    /\ st[t] \in Suspended
    /\ RunThread(t, {<<t, s>>} \cup CleanupEvents(t))

\* alarm_triggered() and alarm_thread(): the thread's wait is cleaned up and the
\* thread ended with an error.  Its lua_status stays LUA_YIELD.
AlarmTriggered(t, s) ==
    /\ s = Alarm
    /\ st[t] \in Suspended
    /\ st' = [st EXCEPT ![t] = "killed"]
    /\ cleanup' = [cleanup EXCEPT ![t] = {}]
    /\ EndThreadPersist({t}, CleanupEvents(t))
    /\ HandleThreadError
    /\ UNCHANGED cur

\* Every callback first checks that index 1 of the coroutine is a thread.
CallbackError(t, s) ==
    /\ st[t] \notin Suspended
    /\ InternalError(t)
    /\ EventDel({<<t, s>>})
    /\ UNCHANGED <<threads, waiting_on, cleanup>>

\* libevent runs the callback of one active event.
Dispatch(t, s) ==
    /\ pc = "dispatch" /\ cur = NoThread
    /\ <<t, s>> \in active
    /\ \/ EventTriggered(t, s)
       \/ MultiTriggered(t, s)
       \/ AlarmTriggered(t, s)
       \/ CallbackError(t, s)
    /\ UNCHANGED <<ran, todo, break_flag, ready, waiters, asked>>

DispatchDone ==
    /\ pc = "dispatch" /\ cur = NoThread
    /\ active = {}
    /\ pc' = "top"
    /\ UNCHANGED <<cur, ran, todo, break_flag, tableVars, st, cleanup, eventVars>>

\* The main program calls loop() again after it returned or raised an error
\* outside event_base_loop().
LoopAgain ==
    /\ pc \in {"broken", "returned", "deadlock", "raised"}
    /\ pc' = "top"
    /\ UNCHANGED <<cur, ran, todo, break_flag, tableVars, st, cleanup, eventVars>>

-----------------------------------------------------------------------------
(***************************************************************************)
(* The calls of the running thread c.  RATCHET_YIELD_GET resumes the thread*)
(* at once, so a call that only gets the ratchet object is one step.       *)
(***************************************************************************)
Running(c, call) == cur = c /\ c # NoThread /\ call \in Calls

Known(u) == st[u] \notin {"unborn", "gone"}

\* attach(): a new thread, persistent and ready.  Bound of the model: a program
\* creates program.size threads.
Attach(c, u) ==
    /\ Running(c, "attach")
    /\ st[u] = "unborn"
    /\ Cardinality({t \in Threads : st[t] # "unborn"}) < program.size
    /\ st' = [st EXCEPT ![u] = "start"]
    /\ threads' = threads \cup {u}
    /\ ready' = ready \cup {u}
    /\ UNCHANGED <<loopVars, cur, waiters, waiting_on, asked, cleanup, eventVars>>

\* yield_thread(): the cleanup table and the main thread are left on the stack and
\* the events of the wait_for_xxxxx() method added.
YieldThread(c, state, S) ==
    /\ st' = [st EXCEPT ![c] = state]
    /\ cleanup' = [cleanup EXCEPT ![c] = S]
    /\ events' = events \cup ({c} \X S)
    /\ cur' = NoThread
    /\ UNCHANGED <<loopVars, threads, ready, active>>

\* What wait_for_read/write(), wait_for_timeout(), wait_for_signal() and
\* wait_for_multi() add; signals and multi waits have an optional timer.
WaitSources ==
    {w \in {[call |-> "rw", srcs |-> {"rw"}],
            [call |-> "timer", srcs |-> {"timeout"}],
            [call |-> "signal", srcs |-> {"sig"}],
            [call |-> "signal", srcs |-> {"sig", "sig_tv"}],
            [call |-> "multi", srcs |-> {"fd1"}],
            [call |-> "multi", srcs |-> {"fd1", "fd2"}],
            [call |-> "multi", srcs |-> {"fd1", "fd2", "multi_tv"}]} :
        w.call \in Calls}

\* A blocking call.  Bound of the model: a thread that still has an event left
\* from an earlier wait does not wait for the same source again.
Block(c, w) ==
    /\ Running(c, w.call)
    /\ events \cap ({c} \X w.srcs) = {}
    /\ YieldThread(c, "blocked", w.srcs)
    /\ UNCHANGED <<waiters, waiting_on, asked>>

Pause(c) ==
    /\ Running(c, "pause")
    /\ YieldThread(c, "paused", {})
    /\ UNCHANGED <<waiters, waiting_on, asked>>

\* Mutant: every status but LUA_OK counts as errored.
WaitAllSkipsYielding(c, S) ==
    /\ Running(c, "wait_all")
    /\ \A u \in S : Known(u)
    /\ waiters' = waiters \cup {c}
    /\ waiting_on' = [waiting_on EXCEPT ![c] = {u \in S : st[u] \in {"start", "run"}}]
    /\ asked' = [asked EXCEPT ![c] = S]
    /\ YieldThread(c, "waiting", {})

\* wait_all(): the listed threads that look finished or errored are skipped.
WaitAll(c, S) ==
    /\ Running(c, "wait_all")
    /\ \A u \in S : Known(u)
    /\ waiters' = waiters \cup {c}
    /\ waiting_on' = [waiting_on EXCEPT ![c] = {u \in S : st[u] \notin {"done", "dead"}}]
    /\ asked' = [asked EXCEPT ![c] = S]
    /\ YieldThread(c, "waiting", {})

\* unpause(): the target's stack is replaced by the arguments and it becomes
\* ready.  luaL_checktype() on a target without the main thread at index 1 is an
\* error on that coroutine.
Unpause(c, u) ==
    /\ \/ Running(c, "unpause") /\ st[u] = "paused"
       \/ Running(c, "unpause_any") /\ Known(u) /\ u # c
    /\ \/ /\ st[u] \in Suspended
          /\ st' = [st EXCEPT ![u] = "unpaused"]
          /\ cleanup' = [cleanup EXCEPT ![u] = {}]
          /\ ready' = ready \cup {u}
          /\ UNCHANGED <<pc, cur>>
       \/ /\ st[u] \notin Suspended
          /\ InternalError(u)
          /\ UNCHANGED <<cleanup, ready>>
    /\ UNCHANGED <<ran, todo, break_flag, threads, waiters, waiting_on, asked, eventVars>>

\* The state of a thread whose stack was cleared.
Cleared(s) ==
    IF s \in Yielding THEN "killed" ELSE IF s = "start" THEN "done" ELSE s

\* Mutant: the events of the wait are not deleted.
KillKeepsEvents(c, T) ==
    /\ c \notin T
    /\ Running(c, "kill") /\ \A u \in T : st[u] \in {"paused", "blocked"}
    /\ st' = [u \in Threads |-> IF u \in T THEN Cleared(st[u]) ELSE st[u]]
    /\ cleanup' = [u \in Threads |-> IF u \in T THEN {} ELSE cleanup[u]]
    /\ EndThreadPersist(T, {})
    /\ UNCHANGED <<loopVars, cur, ready, waiters, asked>>

\* kill() and kill_all(): for each thread of T, delete the events of its wait and
\* end it.
Kill(c, T) ==
    /\ c \notin T
    /\ \/ Running(c, "kill") /\ \A u \in T : st[u] \in {"paused", "blocked"}
       \/ Running(c, "kill_any") /\ \A u \in T : Known(u)
    /\ st' = [u \in Threads |-> IF u \in T THEN Cleared(st[u]) ELSE st[u]]
    /\ cleanup' = [u \in Threads |-> IF u \in T THEN {} ELSE cleanup[u]]
    /\ EndThreadPersist(T, UNION {CleanupEvents(u) : u \in T})
    /\ UNCHANGED <<loopVars, cur, ready, waiters, asked>>

\* alarm(): an earlier alarm of the thread is deleted and a new one added.
SetAlarm(c) ==
    /\ Running(c, "alarm")
    /\ events' = events \cup {<<c, Alarm>>}
    /\ active' = active \ {<<c, Alarm>>}
    /\ UNCHANGED <<loopVars, cur, tableVars, st, cleanup>>

\* break()
Break(c) ==
    /\ Running(c, "break")
    /\ break_flag' = TRUE
    /\ UNCHANGED <<pc, cur, ran, todo, tableVars, st, cleanup, eventVars>>

\* The thread's function returns: lua_resume() gives LUA_OK.
Finish(c) ==
    /\ cur = c /\ c # NoThread
    /\ st' = [st EXCEPT ![c] = "done"]
    /\ cur' = NoThread
    /\ EndThreadPersist({c}, {})
    /\ UNCHANGED <<loopVars, ready, waiters, asked, cleanup>>

\* Mutant: handle_thread_error() is called before end_thread_persist().
FailRaisesFirst(c) ==
    /\ Running(c, "fail")
    /\ st' = [st EXCEPT ![c] = "dead"]
    /\ cur' = NoThread
    /\ IF HasErrorHandler
       THEN EndThreadPersist({c}, {})
       ELSE UNCHANGED <<threads, waiting_on, eventVars>>
    /\ HandleThreadError
    /\ UNCHANGED <<ran, todo, break_flag, ready, waiters, asked, cleanup>>

\* The thread raises an error.
Fail(c) ==
    /\ Running(c, "fail")
    /\ st' = [st EXCEPT ![c] = "dead"]
    /\ cur' = NoThread
    /\ EndThreadPersist({c}, {})
    /\ HandleThreadError
    /\ UNCHANGED <<ran, todo, break_flag, ready, waiters, asked, cleanup>>

\* yield_thread() or a wait_for_xxxxx() method raises an error (a foreign yield,
\* a descriptor below zero): run_thread() does not end the thread.
IllegalYield(c) ==
    /\ Running(c, "illegal_yield")
    /\ st' = [st EXCEPT ![c] = "stuck"]
    /\ cur' = NoThread
    /\ Raise
    /\ UNCHANGED <<ran, todo, break_flag, tableVars, cleanup, eventVars>>

-----------------------------------------------------------------------------
(***************************************************************************)
(* The garbage collector, while a thread runs.                             *)
(***************************************************************************)

\* ratchet_event_gc(): an event no cleanup table reaches is deleted.
EventGC(t, s) ==
    /\ cur # NoThread
    /\ <<t, s>> \in events
    /\ s \in Sources \ cleanup[t]
    /\ EventDel({<<t, s>>})
    /\ UNCHANGED <<loopVars, cur, tableVars, st, cleanup>>

\* A thread that "threads" no longer holds and the program dropped: its entries in
\* the weak tables disappear and the events of its stack are collected.  The table
\* given to wait_all() keeps its threads while the caller waits.
ThreadGC(t) ==
    /\ cur # NoThread /\ t # cur
    /\ t \notin threads /\ Known(t)
    /\ \A w \in threads : st[w] = "waiting" => t \notin asked[w]
    /\ st' = [st EXCEPT ![t] = "gone"]
    /\ cleanup' = [cleanup EXCEPT ![t] = {}]
    /\ ready' = ready \ {t}
    /\ waiters' = waiters \ {t}
    /\ waiting_on' = [w \in Threads |-> waiting_on[w] \ {t}]
    /\ todo' = todo \ {t}
    /\ EventDel({t} \X Sources)
    /\ UNCHANGED <<pc, cur, ran, break_flag, threads, asked>>

-----------------------------------------------------------------------------
Loop ==
    \/ LoopTop
    \/ \E t \in Threads : StartReady(t)
    \/ ReadyDone
    \/ \E t \in Threads : VisitWaiter(t)
    \/ WaitingDone
    \/ Poll
    \/ \E t \in Threads, s \in Sources \cup {Alarm} : Dispatch(t, s)
    \/ DispatchDone

Call(c) ==
    \/ \E u \in Threads : Attach(c, u)
    \/ \E u \in Threads : Unpause(c, u)
    \/ \E T \in SUBSET Threads \ {{}} : Kill(c, T)
    \/ SetAlarm(c)
    \/ Break(c)

Stop(c) ==
    \/ \E w \in WaitSources : Block(c, w)
    \/ Pause(c)
    \/ \E S \in SUBSET Threads : WaitAll(c, S)
    \/ Finish(c)
    \/ Fail(c)
    \/ IllegalYield(c)

Collect ==
    \/ \E t \in Threads, s \in Sources : EventGC(t, s)
    \/ \E t \in Threads : ThreadGC(t)

Next ==
    /\ \/ Loop
       \/ LoopAgain
       \/ \E c \in Threads : Call(c) \/ Stop(c)
       \/ Collect
    /\ UNCHANGED program

Spec == Init /\ [][Next]_vars

-----------------------------------------------------------------------------
(***************************************************************************)
(* Properties.                                                             *)
(***************************************************************************)

\* A program that unpauses only paused threads, kills only paused or blocked ones
\* and yields only through ratchet, and in which an alarm never meets a thread in
\* wait_all() or one that was just unpaused.
Orderly ==
    /\ Calls \cap {"unpause_any", "kill_any", "illegal_yield"} = {}
    /\ "alarm" \in Calls => Calls \cap {"wait_all", "unpause"} = {}

\* Every wait event on the libevent base belongs to a thread that is blocked on it
\* and whose cleanup table reaches it.  So a callback never finds a coroutine that
\* moved on, a thread is resumed once per wait, and kill() or an alarm can always
\* delete what the thread left behind.
EventsOwned ==
    \A t \in Threads, s \in Sources :
        <<t, s>> \in events => st[t] = "blocked" /\ s \in cleanup[t]

\* It holds while unpause() is only called on paused threads.
WaitEventsOwned == "unpause_any" \notin Calls => EventsOwned

\* loop_once() hands control to libevent, or reports a deadlock, only when no
\* thread is ready, no wait_all() is satisfied and no break() is pending: work made
\* available by a thread run in an earlier phase is never left to an event.
BlocksOnlyWhenIdle ==
    pc \in {"poll", "deadlock"} =>
        /\ ready = {}
        /\ \A w \in waiters : waiting_on[w] # {}
        /\ ~break_flag

\* A thread the kernel still counts is running, ready, in wait_all(), paused, or
\* blocked with an event registered: no thread is kept that nothing can resume, if
\* unpause() is only called on paused threads and every yield is ratchet's own.
NoLostThread ==
    pc # "internal" /\ Calls \cap {"unpause_any", "illegal_yield"} = {} => \A t \in threads :
        \/ t = cur
        \/ t \in ready \cup waiters
        \/ st[t] = "paused"
        \/ \E s \in Sources : <<t, s>> \in events

\* "All threads attached with this method must be completed before loop() will
\* finish": when loop() returns without break() in an orderly program, every thread
\* has ended and left nothing registered with libevent, not even its alarm.
ReturnsWhenDone ==
    Orderly /\ pc = "returned" =>
        /\ \A t \in Threads : st[t] \in Ended \cup {"unborn"}
        /\ events = {} /\ ready = {} /\ waiters = {}

\* wait_all() waits only on threads that can still end: a thread that already ended
\* is never among those a waiter waits for.
AwaitsLive ==
    \A w \in waiters : waiting_on[w] \subseteq threads

\* It holds in an orderly program whose threads are only ended by themselves.
WaitsOnLive ==
    Orderly /\ Calls \cap {"kill", "alarm"} = {} => AwaitsLive

\* In an orderly program wait_all() returns only after every listed thread has
\* completed.
WaitAllComplete ==
    [][Orderly => \A w \in Threads :
        st[w] = "waiting" /\ cur' = w =>
            \A u \in asked[w] : u \notin threads' /\ st'[u] \in Ended]_vars

\* A thread that finished, failed, was killed or was ended by its alarm is dropped:
\* it never runs again.
EndsForGood == \A t \in Threads : st[t] \in Ended => st'[t] \in Ended

\* kill() is final whatever thread it is called on.
KillIsFinal == [][EndsForGood]_vars

\* The threads of an orderly program end for good.
EndedStaysEnded == [][Orderly => EndsForGood]_vars

\* In an orderly program no callback meets a coroutine without the main thread at index 1 ("ratchet
\* internal error.").
NoInternalError == Orderly => pc # "internal"

-----------------------------------------------------------------------------
\* The loop keeps going, a running thread eventually yields or ends, and a timer
\* that stays registered is active in some later poll.
TimerExpires(t) == Poll /\ UNCHANGED program /\ <<t, "timeout">> \in active'

Fairness ==
    /\ WF_vars(Loop /\ UNCHANGED program)
    /\ WF_vars(UNCHANGED program /\ \E c \in Threads : Stop(c))
    /\ \A t \in Threads : SF_vars(TimerExpires(t))

FairSpec == Spec /\ Fairness

\* A thread that is ready, or whose wait_all() has nothing left to wait for, is
\* eventually resumed, although each resumption starts the loop's pass anew, unless
\* it is ended first, loop() is left, or other threads unpause each other for ever:
\* the pass over the ready threads then does not end.
RunnableRuns ==
    \A t \in Threads :
        (t \in ready \/ (t \in waiters /\ waiting_on[t] = {})) ~>
            (cur = t \/ st[t] \in Ended \/ pc \in Exits \/ [](pc = "ready"))

\* A thread in timer() is eventually resumed, unless it is ended while it waits or
\* other threads keep the loop from ever polling again: a thread that calls
\* wait_all() on ended threads over and over is resumed before each poll.
TimerReturns ==
    \A t \in Threads :
        <<t, "timeout">> \in events ~>
            (cur = t \/ st[t] \in Ended \/ [](pc \in Phases \ {"poll"}))

\* When no thread can be resumed any more and none called break(), loop() raises
\* DEADLOCK instead of blocking forever.
Stalled ==
    /\ pc \in Phases /\ cur = NoThread /\ ~break_flag
    /\ threads # {} /\ ready = {} /\ events = {}
    /\ \A w \in waiters : waiting_on[w] # {}

DeadlockDetected == Stalled ~> pc = "deadlock"

=============================================================================
