---------------------------- MODULE KernelProofs ----------------------------
(***************************************************************************)
(* Proofs about Kernel for every set of threads and every set of calls.    *)
(***************************************************************************)
EXTENDS Kernel, TLAPS

(***************************************************************************)
(* What makes BlocksOnlyWhenIdle inductive.  A thread runs only inside a   *)
(* phase, and once one ran in the ready or the waiting phase, loop_once()  *)
(* returns early; so a waiting phase that ran nothing still finds what the *)
(* ready phase left: nothing ready and no break pending.  Keys already     *)
(* visited in such a traversal have something left to wait on.             *)
(***************************************************************************)
IdleInv ==
    /\ cur # NoThread => pc \in {"ready", "waiting", "dispatch"}
    /\ cur # NoThread /\ pc \in {"ready", "waiting"} => ran
    /\ pc = "ready" /\ ~ran => ~break_flag
    /\ pc = "waiting" /\ ~ran =>
        /\ ready = {}
        /\ ~break_flag
        /\ \A w \in waiters \ todo : waiting_on[w] # {}
    /\ BlocksOnlyWhenIdle

(***************************************************************************)
(* What makes WaitEventsOwned inductive when only paused threads are       *)
(* unpaused: a thread about to be resumed by the ready or the waiting      *)
(* phase is not blocked, and a wait on one descriptor or one timer has one *)
(* event, the one whose callback resumes the thread.                       *)
(***************************************************************************)
OwnInv ==
    /\ cur # NoThread => st[cur] = "run"
    /\ \A t \in Threads : st[t] = "run" => cur = t \/ pc = "internal"
    /\ \A t \in ready : st[t] \in {"start", "unpaused", "done", "killed", "dead"}
    /\ \A t \in waiters : st[t] \in {"waiting", "killed", "dead"}
    /\ ready \cap waiters = {}
    /\ pc = "waiting" => todo \subseteq waiters
    /\ \A t \in Threads, s \in {"rw", "timeout"} : s \in cleanup[t] => cleanup[t] = {s}
    /\ EventsOwned

(***************************************************************************)
(* What makes NoLostThread inductive when in addition no yield fails: where*)
(* a counted thread is follows from its state.                             *)
(***************************************************************************)
Reachable(t) ==
    /\ st[t] \in {"start", "unpaused", "waiting", "paused", "blocked", "run"}
    /\ st[t] \in {"start", "unpaused"} => t \in ready
    /\ st[t] = "waiting" => t \in waiters
    /\ st[t] = "blocked" => cleanup[t] # {} /\ \A s \in cleanup[t] : <<t, s>> \in events

LostInv == pc # "internal" => \A t \in threads : Reachable(t)

-----------------------------------------------------------------------------
(***************************************************************************)
(* Type correctness.                                                       *)
(***************************************************************************)

\* ratchet_new() leaves a well-formed kernel.
LEMMA InitType == Init => TypeOK
  BY KernelAssumption, Zenon DEF Init, TypeOK, Phases, ThreadState, Events

\* Ending threads keeps the tables well-formed.
LEMMA EndType ==
  ASSUME TypeOK, NEW T, NEW E, EndThreadPersist(T, E)
  PROVE  /\ threads' \subseteq Threads
         /\ waiting_on' \in [Threads -> SUBSET Threads]
         /\ events' \subseteq Events
         /\ active' \subseteq events'
  BY DEF TypeOK, EndThreadPersist, EventDel

\* So does resuming a thread.
LEMMA RunType ==
  ASSUME TypeOK, NEW t \in Threads, NEW E, RunThread(t, E)
  PROVE  /\ pc' \in Phases \cup Exits
         /\ cur' \in Threads \cup {NoThread}
         /\ threads' \subseteq Threads
         /\ waiting_on' \in [Threads -> SUBSET Threads]
         /\ st' \in [Threads -> ThreadState]
         /\ cleanup' \in [Threads -> SUBSET Sources]
         /\ events' \subseteq Events
         /\ active' \subseteq events'
  <1>1. CASE st[t] # "dead" /\ cur' = t /\ st' = [st EXCEPT ![t] = "run"]
             /\ cleanup' = [cleanup EXCEPT ![t] = {}] /\ EventDel(E)
             /\ UNCHANGED <<pc, threads, waiting_on>>
    BY <1>1 DEF TypeOK, EventDel, ThreadState
  <1>2. CASE /\ cur' = NoThread
             /\ st' = [st EXCEPT ![t] = "dead"]
             /\ cleanup' = [cleanup EXCEPT ![t] = {}]
             /\ EndThreadPersist({t}, E)
             /\ HandleThreadError
    BY <1>2, EndType DEF TypeOK, HandleThreadError, Raise, Exits, ThreadState, Ended
  <1>3. QED
    BY <1>1, <1>2 DEF RunThread

\* Every step of the loop, of a thread and of the collector keeps the kernel
\* well-formed.
LEMMA NextType ==
  ASSUME TypeOK, [Next]_vars
  PROVE  TypeOK'
  <1> program' = program
    BY DEF Next, vars
  <1> USE KernelAssumption
  <1>1. CASE LoopTop
    BY <1>1, Zenon DEF LoopTop, TypeOK, tableVars, eventVars, Phases, Exits
  <1>2. ASSUME NEW t \in Threads, StartReady(t) PROVE TypeOK'
    <2>1. RunThread(t, {})
      BY <1>2 DEF StartReady
    <2>2. QED
      BY <1>2, <2>1, RunType DEF StartReady, TypeOK
  <1>3. CASE ReadyDone
    BY <1>3 DEF ReadyDone, TypeOK, tableVars, eventVars, Phases, Exits
  <1>4. ASSUME NEW t \in Threads, VisitWaiter(t) PROVE TypeOK'
    <2>1. CASE RunThread(t, {}) /\ waiters' = waiters \ {t} /\ ran' = TRUE
      BY <1>4, <2>1, RunType DEF VisitWaiter, TypeOK
    <2>2. CASE UNCHANGED <<pc, cur, ran, threads, waiters, waiting_on, st, cleanup, eventVars>>
      BY <1>4, <2>2 DEF VisitWaiter, TypeOK, eventVars
    <2>3. QED
      BY <1>4, <2>1, <2>2, Zenon DEF VisitWaiter
  <1>5. CASE WaitingDone
    BY <1>5 DEF WaitingDone, TypeOK, tableVars, eventVars, Phases, Exits
  <1>6. CASE Poll
    BY <1>6 DEF Poll, TypeOK, tableVars, Phases, Exits
  <1>7. ASSUME NEW t \in Threads, NEW s \in Sources \cup {Alarm}, Dispatch(t, s)
        PROVE  TypeOK'
    <2>1. CASE EventTriggered(t, s)
      <3>1. PICK E : RunThread(t, E)
        BY <2>1 DEF EventTriggered
      <3>2. QED
        BY <1>7, <3>1, RunType DEF Dispatch, TypeOK
    <2>2. CASE MultiTriggered(t, s)
      <3>1. PICK E : RunThread(t, E)
        BY <2>2 DEF MultiTriggered
      <3>2. QED
        BY <1>7, <3>1, RunType DEF Dispatch, TypeOK
    <2>3. CASE AlarmTriggered(t, s)
      <3>1. PICK E : EndThreadPersist({t}, E)
        BY <2>3 DEF AlarmTriggered
      <3>2. pc' \in Phases \cup Exits
        BY <2>3 DEF AlarmTriggered, HandleThreadError, Raise, Exits, TypeOK
      <3>3. QED
        BY <1>7, <2>3, <3>1, <3>2, EndType DEF AlarmTriggered, Dispatch, TypeOK, ThreadState, Ended
    <2>4. CASE CallbackError(t, s)
      BY <1>7, <2>4 DEF CallbackError, InternalError, EventDel, Dispatch, TypeOK,
                        Exits, ThreadState, Ended
    <2>5. QED
      BY <1>7, <2>1, <2>2, <2>3, <2>4 DEF Dispatch
  <1>8. CASE DispatchDone
    BY <1>8 DEF DispatchDone, TypeOK, tableVars, eventVars, Phases
  <1>9. CASE LoopAgain
    BY <1>9 DEF LoopAgain, TypeOK, tableVars, eventVars, Phases
  <1>10. ASSUME NEW c \in Threads, NEW u \in Threads, Attach(c, u) PROVE TypeOK'
    BY <1>10 DEF Attach, TypeOK, loopVars, eventVars, ThreadState
  <1>11. ASSUME NEW c \in Threads, NEW u \in Threads, Unpause(c, u) PROVE TypeOK'
    BY <1>11 DEF Unpause, InternalError, TypeOK, eventVars, Exits, ThreadState, Yielding, Ended
  <1>12. ASSUME NEW c \in Threads, NEW T \in SUBSET Threads, Kill(c, T) PROVE TypeOK'
    <2>1. PICK E : EndThreadPersist(T, E)
      BY <1>12 DEF Kill
    <2>2. \A x \in ThreadState : Cleared(x) \in ThreadState
      BY DEF Cleared, ThreadState, Ended
    <2>3. st' \in [Threads -> ThreadState]
      BY <1>12, <2>2 DEF Kill, TypeOK
    <2>4. cleanup' \in [Threads -> SUBSET Sources]
      BY <1>12 DEF Kill, TypeOK
    <2>5. QED
      BY <1>12, <2>1, <2>3, <2>4, EndType DEF Kill, TypeOK, loopVars
  <1>13. ASSUME NEW c \in Threads, SetAlarm(c) PROVE TypeOK'
    BY <1>13 DEF SetAlarm, TypeOK, loopVars, tableVars, Events
  <1>14. ASSUME NEW c \in Threads, Break(c) PROVE TypeOK'
    BY <1>14 DEF Break, TypeOK, tableVars, eventVars
  <1>15. ASSUME NEW c \in Threads, NEW S \in SUBSET Sources, NEW x \in ThreadState,
                YieldThread(c, x, S)
         PROVE  /\ pc' = pc /\ ran' = ran /\ todo' = todo /\ break_flag' = break_flag
                /\ threads' = threads /\ ready' = ready
                /\ cur' \in Threads \cup {NoThread}
                /\ st' \in [Threads -> ThreadState]
                /\ cleanup' \in [Threads -> SUBSET Sources]
                /\ events' \subseteq Events
                /\ active' \subseteq events'
    BY <1>15, Zenon DEF YieldThread, TypeOK, loopVars, Events
  <1>16. ASSUME NEW c \in Threads, NEW w \in WaitSources, Block(c, w) PROVE TypeOK'
    <2>1. w.srcs \in SUBSET Sources
      BY DEF WaitSources, Sources
    <2>2. "blocked" \in ThreadState
      BY DEF ThreadState, Yielding, Suspended
    <2>3. YieldThread(c, "blocked", w.srcs)
      BY <1>16 DEF Block
    <2>4. QED
      BY <1>16, <2>1, <2>2, <2>3, <1>15, Zenon DEF Block, TypeOK
  <1>17. ASSUME NEW c \in Threads, Pause(c) PROVE TypeOK'
    <2>1. "paused" \in ThreadState /\ YieldThread(c, "paused", {})
      BY <1>17 DEF ThreadState, Yielding, Suspended, Pause
    <2>2. QED
      BY <1>17, <2>1, <1>15, Zenon DEF Pause, TypeOK
  <1>18. ASSUME NEW c \in Threads, NEW S \in SUBSET Threads, WaitAll(c, S) PROVE TypeOK'
    <2>1. "waiting" \in ThreadState /\ YieldThread(c, "waiting", {})
      BY <1>18 DEF ThreadState, Yielding, Suspended, WaitAll
    <2>2. QED
      BY <1>18, <2>1, <1>15, Zenon DEF WaitAll, TypeOK
  <1>19. ASSUME NEW c \in Threads, Finish(c) PROVE TypeOK'
    <2>1. EndThreadPersist({c}, {})
      BY <1>19 DEF Finish
    <2>2. QED
      BY <1>19, <2>1, EndType DEF Finish, TypeOK, loopVars, ThreadState, Ended
  <1>20. ASSUME NEW c \in Threads, Fail(c) PROVE TypeOK'
    <2>1. EndThreadPersist({c}, {})
      BY <1>20 DEF Fail
    <2>2. pc' \in Phases \cup Exits
      BY <1>20 DEF Fail, HandleThreadError, Raise, Exits, TypeOK
    <2>3. QED
      BY <1>20, <2>1, <2>2, EndType DEF Fail, TypeOK, ThreadState, Ended
  <1>21. ASSUME NEW c \in Threads, IllegalYield(c) PROVE TypeOK'
    BY <1>21 DEF IllegalYield, Raise, TypeOK, tableVars, eventVars, Exits, ThreadState, Yielding
  <1>22. ASSUME NEW t \in Threads, NEW s \in Sources, EventGC(t, s) PROVE TypeOK'
    BY <1>22 DEF EventGC, EventDel, TypeOK, loopVars, tableVars
  <1>23. ASSUME NEW t \in Threads, ThreadGC(t) PROVE TypeOK'
    BY <1>23 DEF ThreadGC, EventDel, TypeOK, ThreadState, Ended
  <1>24. CASE UNCHANGED vars
    BY <1>24 DEF vars, TypeOK
  <1>25. QED
    BY <1>1, <1>2, <1>3, <1>4, <1>5, <1>6, <1>7, <1>8, <1>9, <1>10, <1>11, <1>12, <1>13,
       <1>14, <1>16, <1>17, <1>18, <1>19, <1>20, <1>21, <1>22, <1>23, <1>24
       DEF Next, Loop, Call, Stop, Collect

\* Type correctness for every set of threads and of calls.
THEOREM TypeCorrect == Spec => []TypeOK
  <1>1. QED
    BY InitType, NextType, PTL DEF Spec

-----------------------------------------------------------------------------
(***************************************************************************)
(* The loop blocks only when nothing can run.                              *)
(***************************************************************************)

\* IdleInv speaks of these variables; where a step leaves the loop or starts a
\* new pass it holds whatever the tables are.
LEMMA IdleElsewhere ==
  ASSUME cur' = NoThread, pc' \in {"top", "broken", "returned", "raised", "aborted", "internal"}
  PROVE  IdleInv'
  BY DEF IdleInv, BlocksOnlyWhenIdle

\* A step of the running thread or of the collector that leaves pc alone happens
\* in a phase that will return early, or in the dispatch of events.
LEMMA IdleWhileRunning ==
  ASSUME IdleInv, cur # NoThread, pc' = pc, ran' = ran
  PROVE  IdleInv'
  BY DEF IdleInv, BlocksOnlyWhenIdle

LEMMA IdleStep ==
  ASSUME TypeOK, IdleInv, [Next]_vars
  PROVE  IdleInv'
  <1> USE KernelAssumption
  <1>1. CASE LoopTop
    BY <1>1 DEF LoopTop, IdleInv, BlocksOnlyWhenIdle
  <1>2. ASSUME NEW t \in Threads, RunThread(t, {}), pc \in {"ready", "waiting"}, ran' = TRUE
        PROVE  IdleInv'
    BY <1>2 DEF RunThread, HandleThreadError, Raise, IdleInv, BlocksOnlyWhenIdle
  <1>3. ASSUME NEW t \in Threads, StartReady(t) PROVE IdleInv'
    BY <1>2, <1>3 DEF StartReady
  <1>4. CASE ReadyDone
    BY <1>4, Zenon DEF ReadyDone, tableVars, IdleInv, BlocksOnlyWhenIdle
  <1>5. ASSUME NEW t \in Threads, VisitWaiter(t) PROVE IdleInv'
    <2>1. CASE RunThread(t, {}) /\ ran' = TRUE
      BY <1>2, <1>5, <2>1 DEF VisitWaiter
    <2>2. CASE /\ waiting_on[t] # {}
               /\ UNCHANGED <<pc, cur, ran, threads, waiters, waiting_on, st, cleanup, eventVars>>
      BY <1>5, <2>2 DEF VisitWaiter, IdleInv, BlocksOnlyWhenIdle
    <2>3. QED
      BY <1>5, <2>1, <2>2, Zenon DEF VisitWaiter
  <1>6. CASE WaitingDone
    BY <1>6 DEF WaitingDone, tableVars, IdleInv, BlocksOnlyWhenIdle
  <1>7. CASE Poll
    BY <1>7 DEF Poll, tableVars, IdleInv, BlocksOnlyWhenIdle
  <1>8. ASSUME NEW t \in Threads, NEW s \in Sources \cup {Alarm}, Dispatch(t, s)
        PROVE  IdleInv'
    <2>1. pc = "dispatch" /\ cur = NoThread
      BY <1>8 DEF Dispatch
    <2>2. pc' \in {"dispatch", "aborted", "internal"} /\ (cur' # NoThread => pc' = "dispatch")
      BY <1>8, <2>1 DEF Dispatch, EventTriggered, MultiTriggered, AlarmTriggered, CallbackError,
                   InternalError, RunThread, HandleThreadError, Raise
    <2>3. QED
      BY <2>2 DEF IdleInv, BlocksOnlyWhenIdle
  <1>9. CASE DispatchDone
    BY <1>9, IdleElsewhere DEF DispatchDone
  <1>10. CASE LoopAgain
    BY <1>10, IdleElsewhere DEF LoopAgain, IdleInv
  <1>11. ASSUME NEW c \in Threads, Call(c) PROVE IdleInv'
    <2>1. cur # NoThread
      BY <1>11, Zenon DEF Call, Attach, Unpause, Kill, SetAlarm, Break, Running
    <2>2. (pc' = pc /\ ran' = ran) \/ (pc' = "internal" /\ cur' = NoThread)
      BY <1>11, Zenon DEF Call, Attach, Unpause, InternalError, Kill, SetAlarm, Break, loopVars
    <2>3. QED
      BY <2>1, <2>2, IdleWhileRunning, IdleElsewhere
  <1>12. ASSUME NEW c \in Threads, Stop(c) PROVE IdleInv'
    <2>1. cur # NoThread
      BY <1>12 DEF Stop, Block, Pause, WaitAll, Finish, Fail, IllegalYield, Running
    <2>2. \/ pc' = pc /\ ran' = ran
          \/ pc' \in {"raised", "aborted"} /\ cur' = NoThread
      BY <1>12 DEF Stop, Block, Pause, WaitAll, YieldThread, Finish, Fail, IllegalYield,
                   HandleThreadError, Raise, loopVars
    <2>3. QED
      BY <2>1, <2>2, IdleWhileRunning, IdleElsewhere
  <1>13. CASE Collect
    <2>1. cur # NoThread /\ pc' = pc /\ ran' = ran
      BY <1>13, Zenon DEF Collect, EventGC, ThreadGC, loopVars
    <2>2. QED
      BY <2>1, IdleWhileRunning, Zenon
  <1>14. CASE UNCHANGED vars
    BY <1>14 DEF vars, IdleInv, BlocksOnlyWhenIdle
  <1>15. QED
    BY <1>1, <1>3, <1>4, <1>5, <1>6, <1>7, <1>8, <1>9, <1>10, <1>11, <1>12, <1>13, <1>14
       DEF Next, Loop

\* Whatever calls the threads make, loop_once() blocks in libevent or raises
\* DEADLOCK only when no thread is ready, no wait_all() is satisfied and no break()
\* is pending.
THEOREM LoopBlocksOnlyWhenIdle == Spec => []BlocksOnlyWhenIdle
  <1>1. Init => IdleInv
    BY DEF Init, IdleInv, BlocksOnlyWhenIdle
  <1>2. IdleInv => BlocksOnlyWhenIdle
    BY DEF IdleInv
  <1>3. QED
    BY <1>1, <1>2, IdleStep, TypeCorrect, PTL DEF Spec

-----------------------------------------------------------------------------
(***************************************************************************)
(* Wait events belong to the thread that is blocked on them.               *)
(***************************************************************************)

\* Resuming t keeps OwnInv if the step deletes every wait event t has.
LEMMA OwnRun ==
  ASSUME TypeOK, OwnInv, NEW t \in Threads, NEW E, RunThread(t, E),
         cur = NoThread, pc # "internal", todo' \subseteq todo,
         ready' \subseteq ready, t \notin ready',
         waiters' \subseteq waiters, t \notin waiters', 
         pc = "waiting" => todo' \subseteq waiters',
         \A s \in Sources : <<t, s>> \in events => <<t, s>> \in E
  PROVE  OwnInv'
  <1>1. events' \subseteq events \ E
    BY DEF RunThread, EventDel, EndThreadPersist
  <1>2. \E x \in {"run", "dead"} : st' = [st EXCEPT ![t] = x] /\ (x = "run" <=> cur' = t)
                                /\ cur' \in {t, NoThread}
    BY KernelAssumption DEF RunThread
  <1>3. cleanup' = [cleanup EXCEPT ![t] = {}]
    BY DEF RunThread
  <1>4. pc' = pc \/ pc' \in {"raised", "aborted"}
    BY Zenon DEF RunThread, HandleThreadError, Raise
  <1>5. EventsOwned'
    BY <1>1, <1>2, <1>3 DEF OwnInv, EventsOwned, TypeOK
  <1>6. \A u \in Threads : st'[u] = "run" => cur' = u
    BY <1>2, KernelAssumption DEF OwnInv, TypeOK
  <1>7. cur' # NoThread => st'[cur'] = "run"
    BY <1>2 DEF TypeOK
  <1>8. \A u \in ready' : st'[u] \in {"start", "unpaused", "done", "killed", "dead"}
    BY <1>2 DEF OwnInv, TypeOK
  <1>9. \A u \in waiters' : st'[u] \in {"waiting", "killed", "dead"}
    BY <1>2 DEF OwnInv, TypeOK
  <1>10. pc' = "waiting" => todo' \subseteq waiters'
    BY <1>4
  <1>11. \A u \in Threads, s \in {"rw", "timeout"} : s \in cleanup'[u] => cleanup'[u] = {s}
    BY <1>3, Zenon DEF OwnInv, TypeOK
  <1>12. QED
    BY <1>5, <1>6, <1>7, <1>8, <1>9, <1>10, <1>11 DEF OwnInv

LEMMA OwnStep ==
  ASSUME "unpause_any" \notin Calls, TypeOK, OwnInv, IdleInv, [Next]_vars
  PROVE  OwnInv'
  <1> USE KernelAssumption
  <1> DEFINE Quiet == UNCHANGED <<cur, ready, waiters, st, cleanup, events>>
  <1>1. ASSUME Quiet, pc # "internal" /\ pc' # "internal", 
               pc' = "waiting" => todo' \subseteq waiters
        PROVE  OwnInv'
    BY <1>1 DEF OwnInv, EventsOwned
  <1>2. CASE LoopTop
    BY <1>1, <1>2, Zenon DEF LoopTop, tableVars, eventVars
  <1>3. ASSUME NEW t \in Threads, StartReady(t) PROVE OwnInv'
    <2>1. RunThread(t, {}) /\ t \in ready
      BY <1>3, Zenon DEF StartReady
    <2>2. st[t] # "blocked" /\ t \notin waiters
      BY <2>1 DEF OwnInv
    <2>3. QED
      BY <1>3, <2>1, <2>2, OwnRun DEF StartReady, OwnInv, EventsOwned
  <1>4. CASE ReadyDone
    BY <1>1, <1>4, Zenon DEF ReadyDone, tableVars, eventVars
  <1>5. ASSUME NEW t \in Threads, VisitWaiter(t) PROVE OwnInv'
    <2>1. t \in waiters /\ todo \subseteq waiters
      BY <1>5, Zenon DEF VisitWaiter, OwnInv
    <2>2. st[t] # "blocked" /\ t \notin ready
      BY <2>1, Zenon DEF OwnInv
    <2>3. CASE RunThread(t, {}) /\ waiters' = waiters \ {t}
      BY <1>5, <2>1, <2>2, <2>3, OwnRun, Zenon DEF VisitWaiter, OwnInv, EventsOwned
    <2>4. CASE UNCHANGED <<pc, cur, ran, threads, waiters, waiting_on, st, cleanup, eventVars>>
      BY <1>1, <1>5, <2>1, <2>4 DEF VisitWaiter, eventVars
    <2>5. QED
      BY <1>5, <2>3, <2>4, Zenon DEF VisitWaiter
  <1>6. CASE WaitingDone
    BY <1>1, <1>6 DEF WaitingDone, tableVars, eventVars
  <1>7. CASE Poll
    BY <1>1, <1>7 DEF Poll, tableVars
  <1>8. ASSUME NEW t \in Threads, NEW s \in Sources \cup {Alarm}, Dispatch(t, s)
        PROVE  OwnInv'
    <2>1. /\ pc = "dispatch" /\ cur = NoThread /\ <<t, s>> \in events
          /\ UNCHANGED <<todo, ready, waiters>>
      BY <1>8 DEF Dispatch, TypeOK
    <2>2. CASE EventTriggered(t, s)
      <3>1. RunThread(t, {<<t, s>>}) /\ s \in {"rw", "timeout"} /\ st[t] \in Suspended
        BY <2>2, Zenon DEF EventTriggered
      <3>2. s \in Sources /\ st[t] = "blocked" /\ s \in cleanup[t] 
        BY <2>1, <3>1, ZenonT(30) DEF OwnInv, EventsOwned, Sources
      <3>3. cleanup[t] = {s}
        BY <3>1, <3>2 DEF OwnInv
      <3>4. \A x \in Sources : <<t, x>> \in events => <<t, x>> \in {<<t, s>>}
        BY <3>3 DEF OwnInv, EventsOwned
      <3>5. t \notin ready /\ t \notin waiters
        BY <3>2 DEF OwnInv
      <3>6. QED
        BY <2>1, <3>1, <3>4, <3>5, OwnRun
    <2>3. CASE MultiTriggered(t, s)
      <3> DEFINE E == {<<t, s>>} \cup CleanupEvents(t)
      <3>1. RunThread(t, E) /\ s \in Sources
        BY <2>3 DEF MultiTriggered
      <3>2. st[t] = "blocked"
        BY <2>1, <3>1 DEF OwnInv, EventsOwned
      <3>3. \A x \in Sources : <<t, x>> \in events => <<t, x>> \in E
        BY DEF OwnInv, EventsOwned, CleanupEvents
      <3>4. t \notin ready /\ t \notin waiters
        BY <3>2 DEF OwnInv
      <3> HIDE DEF E
      <3>5. QED
        BY <2>1, <3>1, <3>3, <3>4, OwnRun
    <2>4. CASE AlarmTriggered(t, s)
      <3>1. /\ st' = [st EXCEPT ![t] = "killed"]
            /\ cleanup' = [cleanup EXCEPT ![t] = {}]
            /\ events' \subseteq events \ CleanupEvents(t)
            /\ pc' # "waiting" /\ cur' = cur
            /\ st[t] \in {"paused", "waiting", "blocked"}
        BY <2>1, <2>4 DEF AlarmTriggered, EndThreadPersist, EventDel, HandleThreadError, Raise, Suspended
      <3>2. EventsOwned'
        BY <3>1 DEF OwnInv, EventsOwned, CleanupEvents, TypeOK
      <3>3. QED
        BY <2>1, <3>1, <3>2 DEF OwnInv, TypeOK
    <2>5. CASE CallbackError(t, s)
      <3>1. /\ st' = [st EXCEPT ![t] = "dead"]
            /\ cleanup' = cleanup
            /\ events' \subseteq events
            /\ pc' = "internal" /\ cur' = NoThread
            /\ st[t] # "blocked"
        BY <2>5, Zenon DEF CallbackError, InternalError, EventDel, Suspended
      <3>2. EventsOwned'
        BY <3>1 DEF OwnInv, EventsOwned, TypeOK
      <3>3. QED
        BY <2>1, <3>1, <3>2 DEF OwnInv, TypeOK
    <2>6. QED
      BY <1>8, <2>2, <2>3, <2>4, <2>5, Zenon DEF Dispatch
  <1>9. CASE DispatchDone
    BY <1>1, <1>9 DEF DispatchDone, tableVars, eventVars
  <1>10. CASE LoopAgain
    BY <1>1, <1>10, Zenon DEF LoopAgain, tableVars, eventVars
  <1>11. ASSUME NEW c \in Threads, NEW u \in Threads, Attach(c, u) PROVE OwnInv'
    <2>1. /\ st[u] = "unborn" /\ st' = [st EXCEPT ![u] = "start"]
          /\ ready' = ready \cup {u}
          /\ UNCHANGED <<pc, cur, todo, waiters, cleanup, events>>
      BY <1>11, Zenon DEF Attach, loopVars, eventVars
    <2>2. EventsOwned'
      BY <2>1 DEF OwnInv, EventsOwned, TypeOK
    <2>3. QED
      BY <2>1, <2>2 DEF OwnInv, TypeOK
  <1>12. ASSUME NEW c \in Threads, NEW u \in Threads, Unpause(c, u) PROVE OwnInv'
    <2>1. /\ st[u] = "paused" /\ st' = [st EXCEPT ![u] = "unpaused"]
          /\ cleanup' = [cleanup EXCEPT ![u] = {}]
          /\ ready' = ready \cup {u}
          /\ UNCHANGED <<pc, cur, todo, waiters, events>>
      BY <1>12, Zenon DEF Unpause, Running, Suspended, eventVars
    <2>2. EventsOwned'
      BY <2>1 DEF OwnInv, EventsOwned, TypeOK
    <2>3. QED
      BY <2>1, <2>2 DEF OwnInv, TypeOK
  <1>13. ASSUME NEW c \in Threads, NEW T \in SUBSET Threads, Kill(c, T) PROVE OwnInv'
    <2>1. /\ c \notin T /\ cur = c
          /\ st' = [u \in Threads |-> IF u \in T THEN Cleared(st[u]) ELSE st[u]]
          /\ cleanup' = [u \in Threads |-> IF u \in T THEN {} ELSE cleanup[u]]
          /\ UNCHANGED <<pc, cur, todo, ready, waiters>>
      BY <1>13, Zenon DEF Kill, Running, loopVars
    <2>2. \A u \in T : \A s \in cleanup[u] : <<u, s>> \notin events'
      BY <1>13 DEF Kill, EndThreadPersist, EventDel, CleanupEvents
    <2>3. events' \subseteq events
      BY <1>13, Zenon DEF Kill, EndThreadPersist, EventDel
    <2>4. EventsOwned'
      BY <2>1, <2>2, <2>3, Zenon DEF OwnInv, EventsOwned
    <2>5. \A u \in Threads : st'[u] = "run" => st[u] = "run"
      BY <2>1, Zenon DEF Cleared
    <2>6. \A u \in ready' : st'[u] \in {"start", "unpaused", "done", "killed", "dead"}
      BY <2>1, Zenon DEF OwnInv, TypeOK, Cleared
    <2>7. \A u \in waiters' : st'[u] \in {"waiting", "killed", "dead"}
      BY <2>1, Zenon DEF OwnInv, TypeOK, Cleared
    <2>8. st'[cur'] = st[cur]
      BY <2>1, Zenon
    <2>9. QED
      BY <2>1, <2>4, <2>5, <2>6, <2>7, <2>8, Zenon DEF OwnInv
  <1>14. ASSUME NEW c \in Threads, SetAlarm(c) PROVE OwnInv'
    <2>1. /\ events' = events \cup {<<c, Alarm>>}
          /\ UNCHANGED <<pc, cur, todo, ready, waiters, st, cleanup>>
      BY <1>14, Zenon DEF SetAlarm, loopVars, tableVars
    <2>2. EventsOwned'
      BY <2>1, ZenonT(30) DEF OwnInv, EventsOwned, Sources, Alarm
    <2>3. QED
      BY <2>1, <2>2, Zenon DEF OwnInv
  <1>15. ASSUME NEW c \in Threads, Break(c) PROVE OwnInv'
    BY <1>15 DEF Break, tableVars, eventVars, OwnInv, EventsOwned
  <1>16. ASSUME NEW c \in Threads, cur = c, NEW x \in ThreadState, x # "run", NEW S \in SUBSET Sources,
                st' = [st EXCEPT ![c] = x], cleanup' = [cleanup EXCEPT ![c] = S],
                events' \subseteq events \cup ({c} \X (S \cup {Alarm})), S # {} => x = "blocked",
                S \cap {"rw", "timeout"} # {} => \E s \in S : S = {s},
                cur' = NoThread, UNCHANGED <<todo, ready>>, pc' # "internal", pc' = "waiting" => pc = "waiting",
                \/ waiters' = waiters
                \/ waiters' = waiters \cup {c} /\ x = "waiting"
         PROVE  OwnInv'
    <2>1. st[c] = "run" /\ c \notin ready /\ c \notin waiters
      BY <1>16 DEF OwnInv
    <2>2. \A s \in Sources : <<c, s>> \notin events
      BY <2>1 DEF OwnInv, EventsOwned
    <2>3. EventsOwned'
      <3>1. SUFFICES ASSUME NEW u \in Threads, NEW s \in Sources, <<u, s>> \in events'
                     PROVE  st'[u] = "blocked" /\ s \in cleanup'[u]
        BY DEF EventsOwned
      <3>2. s # Alarm
        BY DEF Sources, Alarm
      <3>3. CASE u = c
        BY <1>16, <2>2, <3>1, <3>2, <3>3 DEF TypeOK
      <3>4. CASE u # c
        BY <1>16, <3>1, <3>4 DEF OwnInv, EventsOwned, TypeOK
      <3>5. QED
        BY <3>3, <3>4
    <2>4. \A u \in Threads, s \in {"rw", "timeout"} : s \in cleanup'[u] => cleanup'[u] = {s}
      BY <1>16, Zenon DEF OwnInv, TypeOK
    <2>5. \A u \in Threads : st'[u] # "run"
      BY <1>16, Zenon DEF OwnInv, IdleInv, TypeOK
    <2>6. \A u \in ready' : st'[u] = st[u]
      BY <1>16, <2>1, Zenon DEF TypeOK
    <2>7. \A u \in waiters' : st'[u] \in {"waiting", "killed", "dead"}
      BY <1>16, <2>1 DEF OwnInv, TypeOK
    <2>8. pc' = "waiting" => todo' \subseteq waiters'
      BY <1>16, Zenon DEF OwnInv
    <2>9. QED
      BY <1>16, <2>3, <2>4, <2>5, <2>6, <2>7, <2>8 DEF OwnInv
  <1>17. ASSUME NEW c \in Threads, NEW w \in WaitSources, Block(c, w) PROVE OwnInv'
    <2>1. w.srcs \in SUBSET Sources /\ (w.srcs \cap {"rw", "timeout"} # {} => \E s \in w.srcs : w.srcs = {s})
      BY DEF WaitSources, Sources
    <2>2. "blocked" \in ThreadState
      BY DEF ThreadState, Yielding, Suspended
    <2>3. pc # "internal"
      BY <1>17 DEF Block, Running, IdleInv
    <2>4. QED
      BY <1>16, <1>17, <2>1, <2>2, <2>3, Zenon DEF Block, YieldThread, Running, loopVars
  <1>18. ASSUME NEW c \in Threads, Pause(c) PROVE OwnInv'
    <2>1. "paused" \in ThreadState /\ pc # "internal"
      BY <1>18 DEF ThreadState, Yielding, Suspended, Pause, Running, IdleInv
    <2>2. QED
      BY <1>16, <1>18, <2>1, Zenon DEF Pause, YieldThread, Running, loopVars
  <1>19. ASSUME NEW c \in Threads, NEW S \in SUBSET Threads, WaitAll(c, S) PROVE OwnInv'
    <2>1. "waiting" \in ThreadState /\ pc # "internal"
      BY <1>19 DEF ThreadState, Yielding, Suspended, WaitAll, Running, IdleInv
    <2>2. QED
      BY <1>16, <1>19, <2>1, ZenonT(30) DEF WaitAll, YieldThread, Running, loopVars
  <1>20. ASSUME NEW c \in Threads, cur = c, NEW x \in ThreadState, x # "run", x # "blocked",
                st' = [st EXCEPT ![c] = x], cur' = NoThread, events' \subseteq events,
                UNCHANGED <<todo, ready, waiters, cleanup>>, pc' # "internal", pc' = "waiting" => pc = "waiting"
         PROVE  OwnInv'
    <2>1. st[c] = "run" /\ c \notin ready /\ c \notin waiters
      BY <1>20 DEF OwnInv
    <2>2. EventsOwned'
      BY <1>20, <2>1 DEF OwnInv, EventsOwned, TypeOK
    <2>3. \A u \in Threads : st'[u] # "run"
      BY <1>20, Zenon DEF OwnInv, IdleInv, TypeOK
    <2>4. \A u \in ready' \cup waiters' : st'[u] = st[u]
      BY <1>20, <2>1, Zenon DEF TypeOK
    <2>5. QED
      BY <1>20, <2>2, <2>3, <2>4 DEF OwnInv
  <1>21. ASSUME NEW c \in Threads, Finish(c) PROVE OwnInv'
    BY <1>20, <1>21, Zenon DEF Finish, EndThreadPersist, EventDel, loopVars, ThreadState, Ended, IdleInv
  <1>22. ASSUME NEW c \in Threads, Fail(c) PROVE OwnInv'
    BY <1>20, <1>22, Zenon DEF Fail, EndThreadPersist, EventDel, HandleThreadError, Raise, Running,
                        ThreadState, Ended, IdleInv
  <1>23. ASSUME NEW c \in Threads, IllegalYield(c) PROVE OwnInv'
    BY <1>20, <1>23, Zenon DEF IllegalYield, Raise, Running, tableVars, eventVars, ThreadState, Yielding
  <1>24. ASSUME NEW t \in Threads, NEW s \in Sources, EventGC(t, s) PROVE OwnInv'
    BY <1>24 DEF EventGC, EventDel, loopVars, tableVars, OwnInv, EventsOwned
  <1>25. ASSUME NEW t \in Threads, ThreadGC(t) PROVE OwnInv'
    <2>1. /\ st' = [st EXCEPT ![t] = "gone"] /\ cleanup' = [cleanup EXCEPT ![t] = {}]
          /\ ready' = ready \ {t} /\ waiters' = waiters \ {t} /\ todo' = todo \ {t}
          /\ events' = events \ ({t} \X Sources) /\ t # cur /\ UNCHANGED <<pc, cur>>
      BY <1>25 DEF ThreadGC, EventDel
    <2>2. EventsOwned'
      BY <2>1 DEF OwnInv, EventsOwned, TypeOK
    <2>3. QED
      BY <2>1, <2>2 DEF OwnInv, TypeOK
  <1>26. CASE UNCHANGED vars
    BY <1>26, Zenon DEF vars, OwnInv, EventsOwned
  <1>27. QED
    BY Zenon, <1>2, <1>3, <1>4, <1>5, <1>6, <1>7, <1>8, <1>9, <1>10, <1>11, <1>12, <1>13, <1>14, <1>15,
       <1>17, <1>18, <1>19, <1>21, <1>22, <1>23, <1>24, <1>25, <1>26
       DEF Next, Loop, Call, Stop, Collect

\* In a program that unpauses only paused threads, every wait event on the libevent
\* base belongs to a thread blocked on it, whatever else its threads call, kill()
\* of any thread and alarms included.
THEOREM EventsAreOwned == Spec => []WaitEventsOwned
  <1> DEFINE Tame == "unpause_any" \notin Calls
  <1>1. Init => IdleInv /\ (Tame => OwnInv)
    BY KernelAssumption, Zenon DEF Init, IdleInv, BlocksOnlyWhenIdle, OwnInv, EventsOwned
  <1>2. (Tame => OwnInv) => WaitEventsOwned
    BY DEF OwnInv, WaitEventsOwned
  <1>3. TypeOK /\ IdleInv /\ (Tame => OwnInv) /\ [Next]_vars => IdleInv' /\ (Tame => OwnInv)'
    <2>1. SUFFICES ASSUME TypeOK, IdleInv, Tame => OwnInv, [Next]_vars, Tame'
                   PROVE  OwnInv'
      BY IdleStep, Zenon
    <2>2. Tame
      BY <2>1, Zenon DEF Next, vars, Calls
    <2>3. QED
      BY <2>1, <2>2, OwnStep
  <1>4. QED
    BY <1>1, <1>2, <1>3, TypeCorrect, PTL DEF Spec

-----------------------------------------------------------------------------
(***************************************************************************)
(* No counted thread is out of everybody's reach.                          *)
(***************************************************************************)

\* A step that changes the state of no thread but c keeps every other thread
\* reachable, provided it takes only c out of the tables and deletes only events of
\* c, alarms and events that no cleanup table reaches.
LEMMA LostElsewhere ==
  ASSUME TypeOK, LostInv, pc # "internal", NEW c \in Threads,
         threads' \subseteq threads \cup {c},
         c \in threads' => Reachable(c)',
         \A u \in Threads \ {c} : st'[u] = st[u] /\ cleanup'[u] = cleanup[u],
         ready \ {c} \subseteq ready', waiters \ {c} \subseteq waiters',
         \A u \in Threads \ {c} : \A s \in cleanup[u] : <<u, s>> \in events => <<u, s>> \in events'
  PROVE  LostInv'
  <1>1. SUFFICES ASSUME NEW u \in threads', u # c PROVE Reachable(u)'
    BY Zenon DEF LostInv, Reachable
  <1>2. u \in threads \ {c} /\ Reachable(u)
    BY <1>1, Zenon DEF LostInv, Reachable
  <1>3. QED
    BY <1>1, <1>2, Zenon DEF Reachable, TypeOK

\* Resuming t keeps LostInv if the step deletes no event of another thread.
LEMMA LostRun ==
  ASSUME TypeOK, LostInv, pc # "internal", NEW t \in Threads, NEW E, RunThread(t, E),
         \A e \in E : e[1] = t,
         ready \ {t} \subseteq ready', waiters \ {t} \subseteq waiters'
  PROVE  LostInv'
  <1>1. \A u \in Threads \ {t} : st'[u] = st[u] /\ cleanup'[u] = cleanup[u]
    BY Zenon DEF RunThread, TypeOK
  <1>2. \A u \in Threads \ {t} : \A s : <<u, s>> \in events => <<u, s>> \in events'
    BY ZenonT(30) DEF RunThread, EndThreadPersist, EventDel
  <1>3. threads' \subseteq threads /\ (t \in threads' => st'[t] = "run")
    BY Zenon DEF RunThread, EndThreadPersist, TypeOK
  <1>4. t \in threads' => Reachable(t)'
    BY <1>3, Zenon DEF Reachable
  <1>5. QED
    BY <1>1, <1>2, <1>3, <1>4, LostElsewhere, Zenon

LEMMA LostStep ==
  ASSUME Calls \cap {"unpause_any", "illegal_yield"} = {},
         TypeOK, OwnInv, IdleInv, LostInv, [Next]_vars
  PROVE  LostInv'
  <1> USE KernelAssumption
  <1>1. ASSUME UNCHANGED <<threads, ready, waiters, st, cleanup, events>>, pc # "internal"
        PROVE  LostInv'
    BY <1>1, Zenon DEF LostInv, Reachable
  <1>2. CASE LoopTop \/ ReadyDone \/ WaitingDone \/ Poll \/ DispatchDone \/ LoopAgain
    BY <1>1, <1>2, Zenon DEF LoopTop, ReadyDone, WaitingDone, Poll, DispatchDone, LoopAgain,
                      tableVars, eventVars
  <1>3. ASSUME NEW t \in Threads, StartReady(t) PROVE LostInv'
    BY <1>3, LostRun, Zenon DEF StartReady
  <1>4. ASSUME NEW t \in Threads, VisitWaiter(t) PROVE LostInv'
    <2>1. CASE RunThread(t, {}) /\ waiters' = waiters \ {t}
      BY <1>4, <2>1, LostRun, Zenon DEF VisitWaiter
    <2>2. CASE UNCHANGED <<pc, cur, ran, threads, waiters, waiting_on, st, cleanup, eventVars>>
      BY <1>1, <1>4, <2>2, Zenon DEF VisitWaiter, eventVars
    <2>3. QED
      BY <1>4, <2>1, <2>2, Zenon DEF VisitWaiter
  <1>5. ASSUME NEW t \in Threads, NEW s \in Sources \cup {Alarm}, Dispatch(t, s)
        PROVE  LostInv'
    <2>1. pc = "dispatch" /\ UNCHANGED <<ready, waiters>>
      BY <1>5, Zenon DEF Dispatch
    <2>2. CASE EventTriggered(t, s)
      BY <2>1, <2>2, LostRun DEF EventTriggered
    <2>3. CASE MultiTriggered(t, s)
      <3>1. PICK E : RunThread(t, E) /\ \A e \in E : e[1] = t
        BY <2>3 DEF MultiTriggered, CleanupEvents
      <3>2. QED
        BY <2>1, <3>1, LostRun, Zenon
    <2>4. CASE AlarmTriggered(t, s)
      <3>1. threads' = threads \ {t}
        BY <2>4, Zenon DEF AlarmTriggered, EndThreadPersist
      <3>2. \A u \in Threads \ {t} : st'[u] = st[u] /\ cleanup'[u] = cleanup[u]
        BY <2>4, Zenon DEF AlarmTriggered, TypeOK
      <3>3. \A u \in Threads \ {t} : \A x : <<u, x>> \in events => <<u, x>> \in events'
        BY <2>4 DEF AlarmTriggered, EndThreadPersist, EventDel, CleanupEvents
      <3>4. QED
        BY <2>1, <3>1, <3>2, <3>3, LostElsewhere, Zenon
    <2>5. CASE CallbackError(t, s)
      BY <2>5 DEF CallbackError, InternalError, LostInv
    <2>6. QED
      BY <1>5, <2>2, <2>3, <2>4, <2>5, Zenon DEF Dispatch
  <1>6. ASSUME cur # NoThread PROVE pc # "internal"
    BY <1>6, Zenon DEF IdleInv
  <1>7. ASSUME NEW c \in Threads, NEW u \in Threads, Attach(c, u) PROVE LostInv'
    <2>1. /\ st' = [st EXCEPT ![u] = "start"] /\ ready' = ready \cup {u}
          /\ threads' = threads \cup {u} /\ UNCHANGED <<waiters, cleanup, events>>
      BY <1>7, Zenon DEF Attach, eventVars
    <2>2. Reachable(u)'
      BY <2>1, Zenon DEF Reachable, TypeOK
    <2>3. QED
      BY <1>6, <1>7, <2>1, <2>2, LostElsewhere, Zenon DEF Attach, Running, TypeOK
  <1>8. ASSUME NEW c \in Threads, NEW u \in Threads, Unpause(c, u) PROVE LostInv'
    <2>1. /\ st' = [st EXCEPT ![u] = "unpaused"] /\ ready' = ready \cup {u}
          /\ cleanup' = [cleanup EXCEPT ![u] = {}]
          /\ cur # NoThread /\ UNCHANGED <<threads, waiters, events>>
      BY <1>8, Zenon DEF Unpause, Running, Suspended, eventVars
    <2>2. Reachable(u)'
      BY <2>1, Zenon DEF Reachable, TypeOK
    <2>3. QED
      BY <1>6, <2>1, <2>2, LostElsewhere, Zenon DEF TypeOK
  <1>9. ASSUME NEW c \in Threads, NEW T \in SUBSET Threads, Kill(c, T) PROVE LostInv'
    <2>1. /\ pc # "internal" /\ threads' = threads \ T /\ UNCHANGED <<ready, waiters>>
          /\ \A u \in Threads \ T : st'[u] = st[u] /\ cleanup'[u] = cleanup[u]
      BY <1>6, <1>9, ZenonT(30) DEF Kill, EndThreadPersist, Running
    <2>2. \A u \in Threads \ T : \A s : <<u, s>> \in events => <<u, s>> \in events'
      BY <1>9 DEF Kill, EndThreadPersist, EventDel, CleanupEvents
    <2>3. QED
      BY <2>1, <2>2, Zenon DEF LostInv, Reachable, TypeOK
  <1>10. ASSUME NEW c \in Threads, SetAlarm(c) PROVE LostInv'
    BY <1>6, <1>10, Zenon DEF SetAlarm, Running, tableVars, LostInv, Reachable
  <1>11. ASSUME NEW c \in Threads, Break(c) PROVE LostInv'
    BY <1>1, <1>6, <1>11, Zenon DEF Break, Running, tableVars, eventVars
  <1>12. ASSUME NEW c \in Threads, NEW S \in SUBSET Sources, NEW x, YieldThread(c, x, S),
                cur = c, waiters \subseteq waiters',
                \/ x = "blocked" /\ S # {}
                \/ x = "paused"
                \/ x = "waiting" /\ c \in waiters'
         PROVE  LostInv'
    <2>1. pc # "internal"
      BY <1>6, <1>12, Zenon
    <2>2. Reachable(c)'
      BY <1>12, Zenon DEF Reachable, YieldThread, TypeOK
    <2>3. QED
      BY <1>12, <2>1, <2>2, LostElsewhere, Zenon DEF YieldThread, TypeOK
  <1>13. ASSUME NEW c \in Threads, NEW w \in WaitSources, Block(c, w) PROVE LostInv'
    <2>1. w.srcs \in SUBSET Sources /\ w.srcs # {}
      BY DEF WaitSources, Sources
    <2>2. QED
      BY <1>12, <1>13, <2>1, Zenon DEF Block, Running
  <1>14. ASSUME NEW c \in Threads, Pause(c) PROVE LostInv'
    BY <1>12, <1>14, Zenon DEF Pause, Running
  <1>15. ASSUME NEW c \in Threads, NEW S \in SUBSET Threads, WaitAll(c, S) PROVE LostInv'
    BY <1>12, <1>15, Zenon DEF WaitAll, Running
  <1>16. ASSUME NEW c \in Threads, Finish(c) \/ Fail(c) PROVE LostInv'
    <2>1. /\ pc # "internal" /\ threads' = threads \ {c} /\ UNCHANGED <<ready, waiters, cleanup>>
          /\ \A u \in Threads \ {c} : st'[u] = st[u]
      BY <1>6, <1>16, Zenon DEF Finish, Fail, EndThreadPersist, Running, TypeOK
    <2>2. \A u \in Threads \ {c} : \A s : <<u, s>> \in events => <<u, s>> \in events'
      BY <1>16, Zenon DEF Finish, Fail, EndThreadPersist, EventDel
    <2>3. QED
      BY <2>1, <2>2, LostElsewhere, Zenon
  <1>17. ASSUME NEW c \in Threads, IllegalYield(c) PROVE LostInv'
    BY <1>17, Zenon DEF IllegalYield, Running
  <1>18. ASSUME NEW t \in Threads, NEW s \in Sources, EventGC(t, s) PROVE LostInv'
    <2>1. /\ pc # "internal" /\ UNCHANGED <<threads, ready, waiters, st, cleanup>>
          /\ events' = events \ {<<t, s>>} /\ s \notin cleanup[t]
      BY <1>6, <1>18, Zenon DEF EventGC, EventDel, tableVars
    <2>2. QED
      BY <2>1, Zenon DEF LostInv, Reachable
  <1>19. ASSUME NEW t \in Threads, ThreadGC(t) PROVE LostInv'
    <2>1. /\ pc # "internal" /\ UNCHANGED threads /\ t \notin threads
          /\ ready' = ready \ {t} /\ waiters' = waiters \ {t}
          /\ events' = events \ ({t} \X Sources)
          /\ \A u \in Threads \ {t} : st'[u] = st[u] /\ cleanup'[u] = cleanup[u]
      BY <1>6, <1>19, Zenon DEF ThreadGC, EventDel, TypeOK
    <2>2. QED
      BY <2>1, LostElsewhere, Zenon
  <1>20. CASE UNCHANGED vars
    BY <1>20, Zenon DEF vars, LostInv, Reachable
  <1>21. QED
    BY Zenon, <1>2, <1>3, <1>4, <1>5, <1>7, <1>8, <1>9, <1>10, <1>11, <1>13, <1>14, <1>15, <1>16,
       <1>17, <1>18, <1>19, <1>20
       DEF Next, Loop, Call, Stop, Collect

\* In a program that unpauses only paused threads and whose yields are all
\* ratchet's own, every thread loop() still counts can be resumed: it runs, it is
\* ready, it is in wait_all(), it is paused, or an event of it is registered.
THEOREM NoThreadIsLost == Spec => []NoLostThread
  <1> DEFINE Tame == Calls \cap {"unpause_any", "illegal_yield"} = {}
             Inv == Tame => OwnInv /\ LostInv
  <1>1. Init => IdleInv /\ Inv
    BY KernelAssumption, Zenon DEF Init, IdleInv, BlocksOnlyWhenIdle, OwnInv, EventsOwned,
                             LostInv, Reachable
  <1>2. TypeOK /\ Inv => NoLostThread
    <2>1. SUFFICES ASSUME TypeOK, OwnInv, LostInv, pc # "internal", NEW t \in threads
                   PROVE  \/ t = cur \/ t \in ready \cup waiters \/ st[t] = "paused"
                          \/ \E s \in Sources : <<t, s>> \in events
      BY Zenon DEF NoLostThread
    <2>2. Reachable(t) /\ t \in Threads /\ cleanup[t] \subseteq Sources
      BY <2>1, Zenon DEF LostInv, TypeOK
    <2>3. CASE st[t] = "run"
      BY <2>1, <2>2, <2>3, Zenon DEF OwnInv
    <2>4. CASE st[t] # "run"
      BY <2>2, <2>4, Zenon DEF Reachable
    <2>5. QED
      BY <2>3, <2>4
  <1>3. TypeOK /\ IdleInv /\ Inv /\ [Next]_vars => IdleInv' /\ Inv'
    <2>1. SUFFICES ASSUME TypeOK, IdleInv, Inv, [Next]_vars, Tame'
                   PROVE  OwnInv' /\ LostInv'
      BY IdleStep, Zenon
    <2>2. Tame /\ "unpause_any" \notin Calls
      BY <2>1, Zenon DEF Next, vars, Calls
    <2>3. QED
      BY <2>1, <2>2, OwnStep, LostStep, Zenon
  <1> HIDE DEF Inv
  <1>4. QED
    BY <1>1, <1>2, <1>3, TypeCorrect, PTL DEF Spec

-----------------------------------------------------------------------------
(***************************************************************************)
(* The kernel under an orderly program: its threads end once and for good, *)
(* wait_all() and loop() return only when they may, and no callback meets  *)
(* a coroutine in a state it does not expect.                              *)
(***************************************************************************)

(***************************************************************************)
(* The inductive invariant.  The state of a thread tells whether "threads" *)
(* holds it and whether the ready or the waiting phase may resume it, and  *)
(* what wait_all() was asked for is either still waited for or has ended.  *)
(***************************************************************************)
OrderInv ==
    /\ pc # "internal"
    /\ pc = "returned" => threads = {}
    /\ \A t \in ready : st[t] \in {"start", "unpaused"}
    /\ \A t \in waiters : st[t] = "waiting"
    /\ \A t \in Threads : t \in threads <=> st[t] \notin Ended \cup {"unborn"}
    /\ \A t \in Threads :
        <<t, Alarm>> \in events => st[t] \in Suspended \cup {"run"} /\ "alarm" \in Calls
    /\ \A t \in Threads : st[t] \in {"waiting", "unpaused"} => "alarm" \notin Calls
    /\ \A t \in Threads : st[t] = "waiting" =>
        \A u \in asked[t] : u \in waiting_on[t] \/ st[u] \in Ended

\* Without kill() and alarms nothing ends a thread from outside.
SelfInv == (\A t \in Threads : st[t] # "killed") /\ AwaitsLive

-----------------------------------------------------------------------------
(***************************************************************************)
(* The kinds of steps.                                                     *)
(***************************************************************************)

\* A step that touches no thread and no table, and adds no event.
LEMMA OrderQuiet ==
  ASSUME OrderInv, pc' # "internal", pc' = "returned" => threads = {},
         UNCHANGED <<program, threads, ready, waiters, waiting_on, asked, st>>,
         events' \subseteq events
  PROVE  OrderInv' /\ EndsForGood
  BY Zenon DEF OrderInv, EndsForGood, Calls

\* Resuming a thread that the resuming phase takes out of its table.
LEMMA OrderRun ==
  ASSUME TypeOK, OrderInv, NEW t \in Threads, NEW E, RunThread(t, E),
         st[t] \in {"start", "unpaused"} \cup Suspended,
         UNCHANGED <<program, asked>>,
         ready' \subseteq ready \ {t}, waiters' \subseteq waiters \ {t}
  PROVE  OrderInv' /\ EndsForGood
  <1>1. /\ st' = [st EXCEPT ![t] = "run"] /\ events' = events \ E
        /\ UNCHANGED <<pc, threads, waiting_on, Calls>>
    BY Zenon DEF RunThread, EventDel, Suspended, Calls
  <1>2. st[t] \notin Ended \cup {"unborn"} /\ "run" \notin Ended \cup {"unborn"}
    BY Zenon DEF Suspended, Ended
  <1>3. EndsForGood
    BY <1>1, <1>2, Zenon DEF EndsForGood, TypeOK
  <1>4. \A u \in ready' : st'[u] \in {"start", "unpaused"}
    BY <1>1, Zenon DEF OrderInv, TypeOK
  <1>5. \A u \in waiters' : st'[u] = "waiting"
    BY <1>1, Zenon DEF OrderInv, TypeOK
  <1>6. \A u \in Threads : u \in threads' <=> st'[u] \notin Ended \cup {"unborn"}
    BY <1>1, <1>2, Zenon DEF OrderInv, TypeOK
  <1>7. \A u \in Threads : <<u, Alarm>> \in events' =>
            st'[u] \in Suspended \cup {"run"} /\ "alarm" \in Calls'
    BY <1>1, Zenon DEF OrderInv, TypeOK
  <1>8. \A u \in Threads : st'[u] \in {"waiting", "unpaused"} => "alarm" \notin Calls'
    BY <1>1, Zenon DEF OrderInv, TypeOK
  <1>9. ASSUME NEW w \in Threads, st'[w] = "waiting", NEW u \in asked'[w]
        PROVE  u \in waiting_on'[w] \/ st'[u] \in Ended
    <2>1. st[w] = "waiting" /\ u \in asked[w] /\ u \in Threads
      BY <1>1, <1>9, Zenon DEF TypeOK
    <2>2. u \in waiting_on[w] \/ st[u] \in Ended
      BY <2>1, Zenon DEF OrderInv
    <2>3. QED
      BY <1>1, <1>3, <2>1, <2>2, Zenon DEF EndsForGood
  <1>10. pc' # "internal" /\ (pc' = "returned" => threads' = {})
    BY <1>1, Zenon DEF OrderInv
  <1>11. QED
    BY <1>3, <1>4, <1>5, <1>6, <1>7, <1>8, <1>9, <1>10, Zenon DEF OrderInv

\* Ending the threads T, none of which is in the tables of the two phases.
LEMMA OrderEnd ==
  ASSUME TypeOK, OrderInv, NEW T \in SUBSET Threads, NEW E, EndThreadPersist(T, E),
         \A u \in T : u \notin ready \cup waiters,
         st' \in [Threads -> ThreadState],
         \A u \in T : st'[u] \in Ended,
         \A u \in Threads \ T : st'[u] = st[u],
         UNCHANGED <<program, ready, waiters, asked>>,
         pc' \notin {"internal", "returned"}
  PROVE  OrderInv' /\ EndsForGood
  <1>1. /\ threads' = threads \ T /\ events' = events \ (E \cup (T \X {Alarm}))
        /\ waiting_on' = [w \in Threads |-> waiting_on[w] \ T]
        /\ Calls' = Calls
    BY Zenon DEF EndThreadPersist, EventDel, Calls
  <1>2. EndsForGood
    BY Zenon DEF EndsForGood
  <1>3. \A u \in ready' : st'[u] \in {"start", "unpaused"}
    BY Zenon DEF OrderInv, TypeOK
  <1>4. \A u \in waiters' : st'[u] = "waiting"
    BY Zenon DEF OrderInv, TypeOK
  <1>5. \A u \in Threads : u \in threads' <=> st'[u] \notin Ended \cup {"unborn"}
    BY <1>1, Zenon DEF OrderInv, TypeOK
  <1>6. \A u \in Threads : <<u, Alarm>> \in events' =>
            st'[u] \in Suspended \cup {"run"} /\ "alarm" \in Calls'
    BY <1>1, Zenon DEF OrderInv, TypeOK
  <1>7. \A u \in T : st'[u] \notin {"waiting", "unpaused"}
    BY Zenon DEF Ended
  <1>8. \A u \in Threads : st'[u] \in {"waiting", "unpaused"} => "alarm" \notin Calls'
    BY <1>1, <1>7, Zenon DEF OrderInv, TypeOK
  <1>9. ASSUME NEW w \in Threads, st'[w] = "waiting", NEW u \in asked'[w]
        PROVE  u \in waiting_on'[w] \/ st'[u] \in Ended
    <2>1. st[w] = "waiting" /\ u \in asked[w] /\ u \in Threads
      BY <1>7, <1>9, Zenon DEF TypeOK
    <2>2. u \in waiting_on[w] \/ st[u] \in Ended
      BY <2>1, Zenon DEF OrderInv
    <2>3. QED
      BY <1>1, <1>2, <2>1, <2>2, Zenon DEF EndsForGood
  <1>10. QED
    BY <1>2, <1>3, <1>4, <1>5, <1>6, <1>8, <1>9, Zenon DEF OrderInv

\* The running thread yields, whatever it waits for.
LEMMA OrderYield ==
  ASSUME TypeOK, OwnInv, IdleInv, OrderInv,
         NEW c \in Threads, cur = c, NEW x \in Suspended, NEW S \in SUBSET Sources,
         YieldThread(c, x, S),
         UNCHANGED program,
         \/ x # "waiting" /\ UNCHANGED <<waiters, waiting_on, asked>>
         \/ /\ x = "waiting" /\ "alarm" \notin Calls
            /\ waiters' = waiters \cup {c}
            /\ \A w \in Threads \ {c} : waiting_on'[w] = waiting_on[w] /\ asked'[w] = asked[w]
            /\ \A u \in asked'[c] : u # c => u \in waiting_on'[c] \/ st[u] \in Ended
            /\ c \in asked'[c] => c \in waiting_on'[c]
  PROVE  OrderInv' /\ EndsForGood
  <1> USE KernelAssumption
  <1>1. /\ st' = [st EXCEPT ![c] = x] /\ events' = events \cup ({c} \X S)
        /\ UNCHANGED <<pc, threads, ready, Calls>>
    BY Zenon DEF YieldThread, loopVars, Calls
  <1>2. st[c] = "run" /\ pc \notin {"internal", "returned"} /\ "run" \notin Ended \cup {"unborn"}
    BY Zenon DEF OwnInv, IdleInv, Ended
  <1>3. x \notin Ended \cup {"unborn"} /\ x # "unpaused"
    BY Zenon DEF Suspended, Ended
  <1>4. EndsForGood
    BY <1>1, <1>2, Zenon DEF EndsForGood, TypeOK
  <1>5. \A u \in ready' : st'[u] \in {"start", "unpaused"}
    BY <1>1, <1>2, Zenon DEF OrderInv, TypeOK
  <1>6. \A u \in waiters' : st'[u] = "waiting"
    BY <1>1, <1>2 DEF OrderInv, TypeOK
  <1>7. \A u \in Threads : u \in threads' <=> st'[u] \notin Ended \cup {"unborn"}
    BY <1>1, <1>2, <1>3 DEF OrderInv, TypeOK
  <1>8. \A u \in Threads : <<u, Alarm>> \in events' =>
            st'[u] \in Suspended \cup {"run"} /\ "alarm" \in Calls'
    <2>1. \A u \in Threads : <<u, Alarm>> \in events' => <<u, Alarm>> \in events
      BY <1>1, Zenon DEF Sources, Alarm
    <2>2. QED
      BY <1>1, <1>2, <2>1 DEF OrderInv, TypeOK
  <1>9. \A u \in Threads : st'[u] \in {"waiting", "unpaused"} => "alarm" \notin Calls'
    BY <1>1, <1>3, Zenon DEF OrderInv, TypeOK
  <1>10. ASSUME NEW w \in Threads, st'[w] = "waiting", NEW u \in asked'[w]
         PROVE  u \in waiting_on'[w] \/ st'[u] \in Ended
    <2>1. CASE w # c
      <3>1. st[w] = "waiting" /\ waiting_on'[w] = waiting_on[w] /\ asked'[w] = asked[w]
        BY <1>1, <1>10, <2>1, Zenon DEF TypeOK
      <3>2. u \in Threads /\ (u \in waiting_on[w] \/ st[u] \in Ended)
        BY <1>10, <3>1, Zenon DEF OrderInv, TypeOK
      <3>3. QED
        BY <1>4, <3>1, <3>2, Zenon DEF EndsForGood
    <2>2. CASE w = c
      BY <1>1, <1>10, <2>2 DEF TypeOK
    <2>3. QED
      BY <2>1, <2>2, Zenon
  <1>11. QED
    BY <1>1, <1>2, <1>4, <1>5, <1>6, <1>7, <1>8, <1>9, <1>10, Zenon DEF OrderInv

-----------------------------------------------------------------------------
(***************************************************************************)
(* Every step of an orderly program.                                       *)
(***************************************************************************)

\* Every step keeps OrderInv, and no step brings an ended thread back.
LEMMA OrderStep ==
  ASSUME Orderly, TypeOK, OwnInv, IdleInv, OrderInv, [Next]_vars
  PROVE  OrderInv' /\ EndsForGood
  <1> USE KernelAssumption
  <1> TypeOK'
    BY NextType, Zenon
  <1> program' = program
    BY Zenon DEF Next, vars
  <1>1. CASE LoopTop \/ ReadyDone \/ WaitingDone \/ DispatchDone \/ LoopAgain
    <2>1. /\ UNCHANGED <<threads, ready, waiters, waiting_on, asked, st, events>>
          /\ pc' \notin {"internal", "returned"}
      BY <1>1, Zenon DEF LoopTop, ReadyDone, WaitingDone, DispatchDone, LoopAgain, tableVars, eventVars
    <2>2. QED
      BY <2>1, OrderQuiet, Zenon
  <1>2. CASE Poll
    <2>1. /\ UNCHANGED <<threads, ready, waiters, waiting_on, asked, st, events>>
          /\ pc' # "internal" /\ (pc' = "returned" => threads = {})
      BY <1>2, Zenon DEF Poll, tableVars
    <2>2. QED
      BY <2>1, OrderQuiet, Zenon
  <1>3. ASSUME NEW t \in Threads, StartReady(t) PROVE OrderInv' /\ EndsForGood
    <2>1. /\ RunThread(t, {}) /\ t \in ready /\ ready' = ready \ {t}
          /\ UNCHANGED <<waiters, asked>>
      BY <1>3, Zenon DEF StartReady
    <2>2. st[t] \in {"start", "unpaused"} /\ t \notin waiters
      BY <2>1, Zenon DEF OrderInv
    <2>3. QED
      BY <2>1, <2>2, OrderRun, Zenon
  <1>4. ASSUME NEW t \in Threads, VisitWaiter(t) PROVE OrderInv' /\ EndsForGood
    <2>1. UNCHANGED <<ready, asked>> /\ t \in waiters
      BY <1>4, Zenon DEF VisitWaiter, OwnInv
    <2>2. st[t] = "waiting" /\ t \notin ready
      BY <2>1, Zenon DEF OrderInv
    <2>3. CASE RunThread(t, {}) /\ waiters' = waiters \ {t}
      BY <2>1, <2>2, <2>3, OrderRun, Zenon DEF Suspended
    <2>4. CASE UNCHANGED <<pc, cur, ran, threads, waiters, waiting_on, st, cleanup, eventVars>>
      BY <2>1, <2>4, OrderQuiet, Zenon DEF eventVars, OrderInv
    <2>5. QED
      BY <1>4, <2>3, <2>4, Zenon DEF VisitWaiter
  <1>5. ASSUME NEW t \in Threads, NEW s \in Sources \cup {Alarm}, Dispatch(t, s)
        PROVE  OrderInv' /\ EndsForGood
    <2>1. /\ pc = "dispatch" /\ cur = NoThread /\ <<t, s>> \in events
          /\ UNCHANGED <<ready, waiters, asked>>
      BY <1>5, Zenon DEF Dispatch, TypeOK
    <2>2. s \in Sources => st[t] = "blocked"
      BY <2>1, Zenon DEF OwnInv, EventsOwned
    <2>3. s = Alarm => st[t] \in Suspended /\ st[t] # "waiting"
      BY <2>1, Zenon DEF OrderInv, OwnInv
    <2>4. st[t] \in Suspended
      BY <2>2, <2>3, Zenon DEF Suspended
    <2>5. ASSUME NEW E, RunThread(t, E), s \in Sources
          PROVE  OrderInv' /\ EndsForGood
      <3>1. t \notin ready /\ t \notin waiters
        BY <2>2, <2>5, Zenon DEF OrderInv
      <3>2. QED
        BY <2>1, <2>4, <2>5, <3>1, OrderRun, Zenon
    <2>6. CASE EventTriggered(t, s) \/ MultiTriggered(t, s)
      BY <2>5, <2>6, Zenon DEF EventTriggered, MultiTriggered, Sources
    <2>7. CASE AlarmTriggered(t, s)
      <3>1. /\ s = Alarm /\ EndThreadPersist({t}, CleanupEvents(t))
            /\ st' = [st EXCEPT ![t] = "killed"]
            /\ pc' \notin {"internal", "returned"}
        BY <2>1, <2>7, Zenon DEF AlarmTriggered, HandleThreadError, Raise
      <3>2. t \notin ready \cup waiters
        BY <2>3, <3>1, Zenon DEF OrderInv, Suspended
      <3>3. \A u \in {t} : st'[u] \in Ended
        BY <3>1 DEF Ended, TypeOK
      <3>4. \A u \in Threads \ {t} : st'[u] = st[u]
        BY <3>1, Zenon DEF TypeOK
      <3>5. st' \in [Threads -> ThreadState]
        BY Zenon DEF TypeOK
      <3>6. QED
        BY <2>1, <3>1, <3>2, <3>3, <3>4, <3>5, OrderEnd
    <2>8. CASE CallbackError(t, s)
      BY <2>4, <2>8, Zenon DEF CallbackError
    <2>9. QED
      BY <1>5, <2>6, <2>7, <2>8, Zenon DEF Dispatch
  <1>6. ASSUME cur # NoThread
        PROVE  st[cur] = "run" /\ cur \in Threads /\ pc \notin {"internal", "returned"}
    BY <1>6, Zenon DEF OwnInv, IdleInv, TypeOK
  <1>7. ASSUME NEW c \in Threads, NEW u \in Threads, Attach(c, u)
        PROVE  OrderInv' /\ EndsForGood
    <2>1. /\ st[u] = "unborn" /\ st' = [st EXCEPT ![u] = "start"]
          /\ threads' = threads \cup {u} /\ ready' = ready \cup {u}
          /\ UNCHANGED <<pc, waiters, waiting_on, asked, events, Calls>>
      BY <1>7 DEF Attach, loopVars, eventVars, Calls
    <2>2. "unborn" \notin Ended /\ "start" \notin Ended
      BY Zenon DEF Ended
    <2>3. EndsForGood
      BY <2>1, <2>2, Zenon DEF EndsForGood, TypeOK
    <2>4. \A w \in Threads : st'[w] = "waiting" => st[w] = "waiting"
      BY <2>1, Zenon DEF TypeOK
    <2>5. \A w \in Threads : st'[w] = "waiting" =>
              \A x \in asked'[w] : x \in waiting_on'[w] \/ st'[x] \in Ended
      BY <2>1, <2>3, <2>4, Zenon DEF OrderInv, TypeOK, EndsForGood
    <2>6. /\ pc' # "internal" /\ (pc' = "returned" => threads' = {})
          /\ \A t \in ready' : st'[t] \in {"start", "unpaused"}
          /\ \A t \in waiters' : st'[t] = "waiting"
          /\ \A t \in Threads : t \in threads' <=> st'[t] \notin Ended \cup {"unborn"}
      BY <1>6, <1>7, <2>1, <2>2, SMTT(30) DEF OrderInv, TypeOK, Attach, Running
    <2>7. /\ \A t \in Threads : <<t, Alarm>> \in events' =>
                st'[t] \in Suspended \cup {"run"} /\ "alarm" \in Calls'
          /\ \A t \in Threads : st'[t] \in {"waiting", "unpaused"} => "alarm" \notin Calls'
      BY <2>1 DEF OrderInv, TypeOK, Suspended
    <2>8. QED
      BY <2>3, <2>5, <2>6, <2>7, Zenon DEF OrderInv
  <1>8. ASSUME NEW c \in Threads, NEW u \in Threads, Unpause(c, u)
        PROVE  OrderInv' /\ EndsForGood
    <2>1. /\ "unpause" \in Calls /\ st[u] = "paused" /\ cur # NoThread
          /\ st' = [st EXCEPT ![u] = "unpaused"] /\ ready' = ready \cup {u}
          /\ UNCHANGED <<pc, threads, waiters, waiting_on, asked, events, Calls>>
      BY <1>8, Zenon DEF Unpause, Running, Suspended, Orderly, eventVars, Calls
    <2>2. "alarm" \notin Calls
      BY <2>1, Zenon DEF Orderly
    <2>3. "paused" \notin Ended \cup {"unborn"} /\ "unpaused" \notin Ended \cup {"unborn"}
      BY Zenon DEF Ended
    <2>4. EndsForGood
      BY <2>1, <2>3, Zenon DEF EndsForGood, TypeOK
    <2>5. \A w \in Threads : st'[w] = "waiting" => st[w] = "waiting"
      BY <2>1, Zenon DEF TypeOK
    <2>6. \A w \in Threads : st'[w] = "waiting" =>
              \A x \in asked'[w] : x \in waiting_on'[w] \/ st'[x] \in Ended
      BY <2>1, <2>4, <2>5, Zenon DEF OrderInv, TypeOK, EndsForGood
    <2>7. /\ pc' # "internal" /\ (pc' = "returned" => threads' = {})
          /\ \A t \in ready' : st'[t] \in {"start", "unpaused"}
          /\ \A t \in waiters' : st'[t] = "waiting"
          /\ \A t \in Threads : t \in threads' <=> st'[t] \notin Ended \cup {"unborn"}
      BY <2>1, <2>3 DEF OrderInv, TypeOK
    <2>8. /\ \A t \in Threads : <<t, Alarm>> \notin events'
          /\ \A t \in Threads : st'[t] \in {"waiting", "unpaused"} => "alarm" \notin Calls'
      BY <2>1, <2>2, Zenon DEF OrderInv, TypeOK
    <2>9. QED
      BY <2>4, <2>6, <2>7, <2>8, Zenon DEF OrderInv
  <1>9. ASSUME NEW c \in Threads, NEW T \in SUBSET Threads, Kill(c, T)
        PROVE  OrderInv' /\ EndsForGood
    <2>1. /\ \A u \in T : st[u] \in {"paused", "blocked"}
          /\ st' = [u \in Threads |-> IF u \in T THEN Cleared(st[u]) ELSE st[u]]
          /\ EndThreadPersist(T, UNION {CleanupEvents(u) : u \in T})
          /\ cur # NoThread /\ pc' = pc /\ UNCHANGED <<ready, waiters, asked>>
      BY <1>9, Zenon DEF Kill, Running, Orderly, loopVars
    <2>2. \A u \in T : u \notin ready \cup waiters
      BY <2>1, Zenon DEF OrderInv
    <2>3. \A u \in T : st'[u] \in Ended
      BY <2>1, Zenon DEF Cleared, Yielding, Suspended, Ended
    <2>4. \A u \in Threads \ T : st'[u] = st[u]
      BY <2>1, Zenon
    <2>5. st' \in [Threads -> ThreadState]
      BY Zenon DEF TypeOK
    <2>6. pc' \notin {"internal", "returned"}
      BY <1>6, <2>1, Zenon
    <2>7. QED
      BY <2>1, <2>2, <2>3, <2>4, <2>5, <2>6, OrderEnd, Zenon
  <1>10. ASSUME NEW c \in Threads, SetAlarm(c) PROVE OrderInv' /\ EndsForGood
    <2>1. /\ "alarm" \in Calls /\ cur = c /\ c # NoThread
          /\ events' = events \cup {<<c, Alarm>>}
          /\ UNCHANGED <<pc, threads, ready, waiters, waiting_on, asked, st, Calls>>
      BY <1>10, Zenon DEF SetAlarm, Running, loopVars, tableVars, Calls
    <2>2. QED
      BY <1>6, <2>1, Zenon DEF OrderInv, EndsForGood
  <1>11. ASSUME NEW c \in Threads, Break(c) PROVE OrderInv' /\ EndsForGood
    BY <1>6, <1>11, OrderQuiet, Zenon DEF Break, Running, tableVars, eventVars
  <1>12. ASSUME NEW c \in Threads, NEW w \in WaitSources, Block(c, w)
         PROVE  OrderInv' /\ EndsForGood
    <2>1. w.srcs \in SUBSET Sources
      BY DEF WaitSources, Sources
    <2>2. /\ cur = c /\ YieldThread(c, "blocked", w.srcs)
          /\ UNCHANGED <<waiters, waiting_on, asked>>
      BY <1>12, Zenon DEF Block, Running
    <2>3. QED
      BY <2>1, <2>2, OrderYield, Zenon DEF Suspended
  <1>13. ASSUME NEW c \in Threads, Pause(c) PROVE OrderInv' /\ EndsForGood
    BY <1>13, OrderYield DEF Pause, Running, Suspended
  <1>14. ASSUME NEW c \in Threads, NEW S \in SUBSET Threads, WaitAll(c, S)
         PROVE  OrderInv' /\ EndsForGood
    <2>1. /\ cur = c /\ c # NoThread /\ "wait_all" \in Calls
          /\ YieldThread(c, "waiting", {})
          /\ waiters' = waiters \cup {c}
          /\ asked' = [asked EXCEPT ![c] = S]
          /\ waiting_on' = [waiting_on EXCEPT ![c] = {u \in S : st[u] \notin {"done", "dead"}}]
      BY <1>14, Zenon DEF WaitAll, Running
    <2>2. "alarm" \notin Calls
      BY <2>1, Zenon DEF Orderly
    <2>3. asked'[c] = S /\ waiting_on'[c] = {u \in S : st[u] \notin {"done", "dead"}}
      BY <2>1, Zenon DEF TypeOK
    <2>4. \A u \in asked'[c] : u \in waiting_on'[c] \/ st[u] \in Ended
      BY <2>3, Zenon DEF Ended
    <2>5. c \in asked'[c] => c \in waiting_on'[c]
      BY <1>6, <2>1, <2>3, Zenon
    <2>6. \A w \in Threads \ {c} : waiting_on'[w] = waiting_on[w] /\ asked'[w] = asked[w]
      BY <2>1 DEF TypeOK
    <2>7. "waiting" \in Suspended /\ {} \in SUBSET Sources
      BY Zenon DEF Suspended
    <2>8. QED
      BY <2>1, <2>2, <2>4, <2>5, <2>6, <2>7, OrderYield, Zenon
  <1>15. ASSUME NEW c \in Threads, Finish(c) \/ Fail(c) PROVE OrderInv' /\ EndsForGood
    <2>1. /\ cur = c /\ cur # NoThread /\ EndThreadPersist({c}, {})
          /\ UNCHANGED <<ready, waiters, asked>>
          /\ st' = [st EXCEPT ![c] = "done"] \/ st' = [st EXCEPT ![c] = "dead"]
          /\ pc' = pc \/ pc' \in {"raised", "aborted"}
      BY <1>15, Zenon DEF Finish, Fail, Running, HandleThreadError, Raise, loopVars
    <2>2. st[c] = "run" /\ pc' \notin {"internal", "returned"}
      BY <1>6, <2>1, Zenon
    <2>3. \A u \in {c} : u \notin ready \cup waiters
      BY <2>2, Zenon DEF OrderInv
    <2>4. \A u \in {c} : st'[u] \in Ended
      BY <2>1 DEF Ended, TypeOK
    <2>5. \A u \in Threads \ {c} : st'[u] = st[u]
      BY <2>1, Zenon DEF TypeOK
    <2>6. st' \in [Threads -> ThreadState]
      BY Zenon DEF TypeOK
    <2>7. QED
      BY <2>1, <2>2, <2>3, <2>4, <2>5, <2>6, OrderEnd
  <1>16. ASSUME NEW c \in Threads, IllegalYield(c) PROVE FALSE
    BY <1>16, Zenon DEF IllegalYield, Running, Orderly
  <1>17. ASSUME NEW t \in Threads, NEW s \in Sources, EventGC(t, s)
         PROVE  OrderInv' /\ EndsForGood
    <2>1. /\ UNCHANGED <<pc, threads, ready, waiters, waiting_on, asked, st>>
          /\ events' \subseteq events /\ cur # NoThread
      BY <1>17, Zenon DEF EventGC, EventDel, loopVars, tableVars
    <2>2. QED
      BY <1>6, <2>1, OrderQuiet, Zenon
  <1>18. ASSUME NEW t \in Threads, ThreadGC(t) PROVE OrderInv' /\ EndsForGood
    <2>1. /\ t \notin threads /\ Known(t) /\ cur # NoThread
          /\ st' = [st EXCEPT ![t] = "gone"]
          /\ ready' = ready \ {t} /\ waiters' = waiters \ {t}
          /\ waiting_on' = [w \in Threads |-> waiting_on[w] \ {t}]
          /\ events' \subseteq events
          /\ UNCHANGED <<pc, threads, asked, Calls>>
      BY <1>18, Zenon DEF ThreadGC, EventDel, Calls
    <2>2. st[t] \in Ended /\ "gone" \in Ended
      BY <2>1, ZenonT(30) DEF OrderInv, Known, Ended
    <2>3. EndsForGood
      BY <2>1, <2>2, Zenon DEF EndsForGood, TypeOK
    <2>4. \A w \in Threads : st'[w] = "waiting" => st[w] = "waiting"
      BY <2>1, Zenon DEF TypeOK
    <2>5. ASSUME NEW w \in Threads, st'[w] = "waiting", NEW x \in asked'[w]
          PROVE  x \in waiting_on'[w] \/ st'[x] \in Ended
      <3>1. x \in Threads /\ (x \in waiting_on[w] \/ st[x] \in Ended)
        BY <2>1, <2>4, <2>5, Zenon DEF OrderInv, TypeOK
      <3>2. QED
        BY <2>1, <2>2, <2>3, <3>1, ZenonT(30) DEF EndsForGood
    <2>6. /\ pc' # "internal" /\ (pc' = "returned" => threads' = {})
          /\ \A u \in ready' : st'[u] \in {"start", "unpaused"}
          /\ \A u \in waiters' : st'[u] = "waiting"
          /\ \A u \in Threads : u \in threads' <=> st'[u] \notin Ended \cup {"unborn"}
      BY <2>1, <2>2, ZenonT(30) DEF OrderInv, TypeOK
    <2>7. \A u \in Threads : <<u, Alarm>> \in events =>
              u # t /\ st[u] \in Suspended \cup {"run"} /\ "alarm" \in Calls
      BY <2>2, Zenon DEF OrderInv, Ended, Suspended
    <2>8. /\ \A u \in Threads : <<u, Alarm>> \in events' =>
                st'[u] \in Suspended \cup {"run"} /\ "alarm" \in Calls'
          /\ \A u \in Threads : st'[u] \in {"waiting", "unpaused"} => "alarm" \notin Calls'
      BY <2>1, <2>7 DEF OrderInv, TypeOK
    <2>9. QED
      BY <2>3, <2>5, <2>6, <2>8, Zenon DEF OrderInv
  <1>19. CASE UNCHANGED vars
    BY <1>19, OrderQuiet, Zenon DEF vars, OrderInv
  <1>20. QED
    BY Zenon, <1>1, <1>2, <1>3, <1>4, <1>5, <1>7, <1>8, <1>9, <1>10, <1>11, <1>12, <1>13, <1>14,
       <1>15, <1>16, <1>17, <1>18, <1>19
       DEF Next, Loop, Call, Stop, Collect

\* What an orderly program keeps, in one invariant.
OrderedInv == Orderly => OwnInv /\ OrderInv

LEMMA Ordered == Spec => [](TypeOK /\ IdleInv /\ OrderedInv)
  <1>1. Init => IdleInv /\ OrderedInv
    <2>1. SUFFICES ASSUME Init PROVE IdleInv /\ OwnInv /\ OrderInv
      BY Zenon DEF OrderedInv
    <2>2. IdleInv
      BY <2>1, Zenon DEF Init, IdleInv, BlocksOnlyWhenIdle
    <2>3. OwnInv
      BY <2>1, KernelAssumption, Zenon DEF Init, OwnInv, EventsOwned
    <2>4. OrderInv
      BY <2>1, KernelAssumption DEF Init, OrderInv, Ended
    <2>5. QED
      BY <2>2, <2>3, <2>4
  <1>2. TypeOK /\ IdleInv /\ OrderedInv /\ [Next]_vars => IdleInv' /\ OrderedInv'
    <2>1. SUFFICES ASSUME TypeOK, IdleInv, OrderedInv, [Next]_vars, Orderly'
                   PROVE  OwnInv' /\ OrderInv'
      BY IdleStep, Zenon DEF OrderedInv
    <2>2. Orderly
      BY <2>1, Zenon DEF Next, vars, Orderly, Calls
    <2>3. "unpause_any" \notin Calls
      BY <2>2 DEF Orderly
    <2>4. QED
      BY <2>1, <2>2, <2>3, OwnStep, OrderStep, Zenon DEF OrderedInv
  <1>3. QED
    BY <1>1, <1>2, TypeCorrect, PTL DEF Spec

\* In an orderly program no callback finds a coroutine without the main thread at
\* index 1, so "ratchet internal error." is never raised.
THEOREM CallbacksFindTheirThread == Spec => []NoInternalError
  <1>1. OrderedInv => NoInternalError
    BY DEF OrderedInv, OrderInv, NoInternalError
  <1>2. QED
    BY <1>1, Ordered, PTL

\* When loop() returns to an orderly program, every thread it created has ended,
\* no table holds one and libevent holds no event, alarms included.
THEOREM LoopReturnsWhenDone == Spec => []ReturnsWhenDone
  <1>1. TypeOK /\ OrderedInv => ReturnsWhenDone
    <2>1. SUFFICES ASSUME TypeOK, OwnInv, OrderInv, pc = "returned"
                   PROVE  /\ \A t \in Threads : st[t] \in Ended \cup {"unborn"}
                          /\ events = {} /\ ready = {} /\ waiters = {}
      BY Zenon DEF OrderedInv, ReturnsWhenDone
    <2>2. \A t \in Threads : st[t] \in Ended \cup {"unborn"}
      BY <2>1 DEF OrderInv
    <2>3. \A x \in {"start", "unpaused", "run"} \cup Suspended : x \notin Ended \cup {"unborn"}
      BY Zenon DEF Suspended, Ended
    <2>4. ready = {} /\ waiters = {}
      BY <2>1, <2>2, <2>3, Zenon DEF OrderInv, TypeOK, Suspended
    <2>5. \A t \in Threads, s \in Sources \cup {Alarm} : <<t, s>> \notin events
      BY <2>1, <2>2, <2>3, Zenon DEF OrderInv, OwnInv, EventsOwned, Suspended
    <2>6. events = {}
      BY <2>1, <2>5 DEF TypeOK, Events
    <2>7. QED
      BY <2>2, <2>4, <2>6, Zenon
  <1>2. QED
    BY <1>1, Ordered, PTL

\* A thread of an orderly program that finished, failed, was killed or was ended by
\* its alarm never runs again.
THEOREM EndsAreFinal == Spec => EndedStaysEnded
  <1>1. TypeOK /\ IdleInv /\ OrderedInv /\ [Next]_vars => [Orderly => EndsForGood]_vars
    BY OrderStep, Zenon DEF OrderedInv
  <1>2. QED
    BY <1>1, Ordered, PTL DEF Spec, EndedStaysEnded

-----------------------------------------------------------------------------
(***************************************************************************)
(* wait_all().                                                             *)
(***************************************************************************)

\* Only start_threads_done_waiting() resumes a thread in wait_all().
LEMMA WaiterResumed ==
  ASSUME TypeOK, OwnInv, OrderInv, [Next]_vars,
         NEW w \in Threads, st[w] = "waiting", cur' = w
  PROVE  VisitWaiter(w) /\ RunThread(w, {})
  <1> USE KernelAssumption
  <1>1. cur # w /\ w # NoThread /\ cur' \notin {cur, NoThread}
    BY Zenon DEF OwnInv
  <1>2. ASSUME NEW t \in Threads, NEW E, RunThread(t, E) PROVE t = w
    BY <1>1, <1>2, Zenon DEF RunThread
  <1>3. ASSUME NEW t \in Threads, StartReady(t) PROVE FALSE
    <2>1. t = w /\ t \in ready
      BY <1>2, <1>3, Zenon DEF StartReady
    <2>2. QED
      BY <2>1, Zenon DEF OrderInv
  <1>4. ASSUME NEW t \in Threads, NEW s \in Sources \cup {Alarm}, Dispatch(t, s) PROVE FALSE
    <2>1. <<t, s>> \in events
      BY <1>4, Zenon DEF Dispatch, TypeOK
    <2>2. CASE EventTriggered(t, s) \/ MultiTriggered(t, s)
      <3>1. t = w /\ s \in Sources
        BY <1>2, <2>2, Zenon DEF EventTriggered, MultiTriggered, Sources
      <3>2. QED
        BY <2>1, <3>1, Zenon DEF OwnInv, EventsOwned
    <2>3. CASE AlarmTriggered(t, s) \/ CallbackError(t, s)
      BY <1>1, <2>3, Zenon DEF AlarmTriggered, CallbackError, InternalError
    <2>4. QED
      BY <1>4, <2>2, <2>3, Zenon DEF Dispatch
  <1>5. ASSUME NEW t \in Threads, VisitWaiter(t) PROVE t = w /\ RunThread(t, {})
    BY <1>1, <1>2, <1>5, Zenon DEF VisitWaiter
  <1>6. CASE LoopTop \/ ReadyDone \/ WaitingDone \/ Poll \/ DispatchDone \/ LoopAgain
    BY <1>1, <1>6, Zenon DEF LoopTop, ReadyDone, WaitingDone, Poll, DispatchDone, LoopAgain
  <1>7. ASSUME NEW c \in Threads, Call(c) \/ Stop(c) PROVE FALSE
    BY <1>1, <1>7, ZenonT(30) DEF Call, Attach, Unpause, InternalError, Kill, SetAlarm, Break,
                      Stop, Block, Pause, WaitAll, YieldThread, Finish, Fail, IllegalYield
  <1>8. CASE Collect \/ UNCHANGED vars
    BY <1>1, <1>8, Zenon DEF Collect, EventGC, ThreadGC, vars
  <1>9. QED
    BY <1>3, <1>4, <1>5, <1>6, <1>7, <1>8, Zenon DEF Next, Loop

\* In an orderly program wait_all() returns only when every thread it was given has
\* ended and left the "threads" table.
THEOREM WaitAllReturnsComplete == Spec => WaitAllComplete
  <1> DEFINE Complete == \A w \in Threads : st[w] = "waiting" /\ cur' = w =>
                           \A u \in asked[w] : u \notin threads' /\ st'[u] \in Ended
  <1>1. TypeOK /\ IdleInv /\ OrderedInv /\ [Next]_vars => [Orderly => Complete]_vars
    <2>1. SUFFICES ASSUME TypeOK, IdleInv, OwnInv, OrderInv, Orderly, [Next]_vars,
                          NEW w \in Threads, st[w] = "waiting", cur' = w,
                          NEW u \in asked[w]
                   PROVE  u \notin threads' /\ st'[u] \in Ended
      BY Zenon DEF OrderedInv
    <2>2. VisitWaiter(w) /\ RunThread(w, {})
      BY <2>1, WaiterResumed, Zenon
    <2>3. waiting_on[w] = {}
      BY <2>1, <2>2, KernelAssumption, Zenon DEF VisitWaiter, OwnInv
    <2>4. u \in Threads /\ st[u] \in Ended
      BY <2>1, <2>3, Zenon DEF OrderInv, TypeOK
    <2>5. OrderInv' /\ st'[u] \in Ended
      BY <2>1, <2>4, OrderStep, Zenon DEF EndsForGood
    <2>6. QED
      BY <2>4, <2>5, Zenon DEF OrderInv
  <1>2. QED
    BY <1>1, Ordered, PTL DEF Spec, WaitAllComplete

\* A step that ends no thread and starts no wait_all().
LEMMA SelfQuiet ==
  ASSUME SelfInv, threads \subseteq threads', waiters' \subseteq waiters,
         \A w \in waiters' : waiting_on'[w] \subseteq waiting_on[w],
         \A t \in Threads : st'[t] = "killed" => st[t] = "killed"
  PROVE  SelfInv'
  BY Zenon DEF SelfInv, AwaitsLive

\* A step that ends t.
LEMMA SelfEnd ==
  ASSUME TypeOK, SelfInv, NEW t \in Threads, NEW E, EndThreadPersist({t}, E),
         waiters' \subseteq waiters,
         \A u \in Threads : st'[u] = "killed" => st[u] = "killed"
  PROVE  SelfInv'
  BY Zenon DEF SelfInv, AwaitsLive, EndThreadPersist, TypeOK

LEMMA SelfRun ==
  ASSUME TypeOK, SelfInv, NEW t \in Threads, NEW E, RunThread(t, E), waiters' \subseteq waiters
  PROVE  SelfInv'
  <1>1. \A u \in Threads : st'[u] = "killed" => st[u] = "killed"
    BY Zenon DEF RunThread, TypeOK
  <1>2. CASE UNCHANGED <<threads, waiting_on>>
    BY <1>1, <1>2, SelfQuiet, Zenon
  <1>3. CASE EndThreadPersist({t}, E)
    BY <1>1, <1>3, SelfEnd, Zenon
  <1>4. QED
    BY <1>2, <1>3, Zenon DEF RunThread

LEMMA SelfStep ==
  ASSUME Orderly, Calls \cap {"kill", "alarm"} = {},
         TypeOK, OwnInv, OrderInv, SelfInv, [Next]_vars
  PROVE  SelfInv'
  <1> USE KernelAssumption
  <1> DEFINE Same == \A t \in Threads : st'[t] = "killed" => st[t] = "killed"
  <1>1. CASE LoopTop \/ ReadyDone \/ WaitingDone \/ Poll \/ DispatchDone \/ LoopAgain
    BY <1>1, SelfQuiet, Zenon DEF LoopTop, ReadyDone, WaitingDone, Poll, DispatchDone, LoopAgain, tableVars
  <1>2. ASSUME NEW t \in Threads, StartReady(t) \/ VisitWaiter(t) PROVE SelfInv'
    <2>1. CASE RunThread(t, {}) /\ waiters' \subseteq waiters
      BY <2>1, SelfRun, Zenon
    <2>2. CASE UNCHANGED <<threads, waiters, waiting_on, st>>
      BY <2>2, SelfQuiet, Zenon
    <2>3. QED
      BY <1>2, <2>1, <2>2, Zenon DEF StartReady, VisitWaiter
  <1>3. ASSUME NEW t \in Threads, NEW s \in Sources \cup {Alarm}, Dispatch(t, s)
        PROVE  SelfInv'
    <2>1. <<t, s>> \in events /\ waiters' = waiters
      BY <1>3, Zenon DEF Dispatch, TypeOK
    <2>2. CASE EventTriggered(t, s) \/ MultiTriggered(t, s)
      BY <2>1, <2>2, SelfRun, Zenon DEF EventTriggered, MultiTriggered
    <2>3. CASE AlarmTriggered(t, s)
      BY <2>1, <2>3, Zenon DEF AlarmTriggered, OrderInv
    <2>4. CASE CallbackError(t, s)
      <3>1. Same /\ UNCHANGED <<threads, waiting_on>>
        BY <2>4, Zenon DEF CallbackError, InternalError, TypeOK
      <3>2. QED
        BY <2>1, <3>1, SelfQuiet, Zenon
    <2>5. QED
      BY <1>3, <2>2, <2>3, <2>4, Zenon DEF Dispatch
  <1>4. ASSUME NEW c \in Threads, Call(c) PROVE SelfInv'
    <2>1. Same /\ threads \subseteq threads' /\ UNCHANGED <<waiters, waiting_on>>
      <3>1. ASSUME NEW u \in Threads, Attach(c, u) PROVE Same /\ threads \subseteq threads'
        BY <3>1 DEF Attach, TypeOK
      <3>2. ASSUME NEW u \in Threads, Unpause(c, u) PROVE Same /\ threads' = threads
        BY <3>2, SMTT(30) DEF Unpause, InternalError, TypeOK
      <3>3. ASSUME NEW T \in SUBSET Threads, Kill(c, T) PROVE FALSE
        BY <3>3 DEF Kill, Running, Orderly
      <3>4. CASE SetAlarm(c) \/ Break(c)
        BY <3>4, Zenon DEF SetAlarm, Break, tableVars
      <3>5. QED
        BY <1>4, <3>1, <3>2, <3>3, <3>4, Zenon DEF Call, Attach, Unpause, SetAlarm, Break, tableVars
    <2>2. QED
      BY <2>1, SelfQuiet, Zenon
  <1>5. ASSUME NEW c \in Threads, Stop(c) PROVE SelfInv'
    <2>1. ASSUME NEW x \in Suspended, NEW S, YieldThread(c, x, S)
          PROVE  Same /\ threads' = threads
      BY <2>1, Zenon DEF YieldThread, Suspended, TypeOK
    <2>2. CASE (\E w \in WaitSources : Block(c, w)) \/ Pause(c)
      BY <2>1, <2>2, SelfQuiet, Zenon DEF Block, Pause, Suspended
    <2>3. ASSUME NEW S \in SUBSET Threads, WaitAll(c, S) PROVE SelfInv'
      <3>1. /\ Same /\ threads' = threads /\ waiters' = waiters \cup {c}
            /\ waiting_on' = [waiting_on EXCEPT ![c] = {u \in S : st[u] \notin {"done", "dead"}}]
            /\ \A u \in S : Known(u)
        BY <2>1, <2>3, ZenonT(30) DEF WaitAll, Suspended
      <3>2. \A u \in S : st[u] \notin {"done", "dead"} => u \in threads
        BY <3>1, ZenonT(30) DEF OrderInv, SelfInv, Known, Ended
      <3>3. QED
        BY <3>1, <3>2 DEF SelfInv, AwaitsLive, TypeOK
    <2>4. CASE Finish(c) \/ Fail(c)
      <3>1. Same /\ EndThreadPersist({c}, {}) /\ waiters' = waiters
        BY <2>4, Zenon DEF Finish, Fail, TypeOK
      <3>2. QED
        BY <3>1, SelfEnd, Zenon
    <2>5. CASE IllegalYield(c)
      BY <2>5, Zenon DEF IllegalYield, Running, Orderly
    <2>6. QED
      BY <1>5, <2>2, <2>3, <2>4, <2>5, Zenon DEF Stop
  <1>6. CASE Collect
    <2>1. ASSUME NEW t \in Threads, NEW s \in Sources, EventGC(t, s) PROVE SelfInv'
      BY <2>1, SelfQuiet, ZenonT(30) DEF EventGC, tableVars
    <2>2. ASSUME NEW t \in Threads, ThreadGC(t) PROVE SelfInv'
      <3>1. /\ Same /\ threads' = threads /\ waiters' \subseteq waiters
            /\ \A w \in Threads : waiting_on'[w] \subseteq waiting_on[w]
        BY <2>2, Zenon DEF ThreadGC, TypeOK
      <3>2. QED
        BY <3>1, SelfQuiet, Zenon DEF TypeOK
    <2>3. QED
      BY <1>6, <2>1, <2>2, Zenon DEF Collect
  <1>7. CASE UNCHANGED vars
    BY <1>7, SelfQuiet, Zenon DEF vars
  <1>8. QED
    BY <1>1, <1>2, <1>3, <1>4, <1>5, <1>6, <1>7, Zenon DEF Next, Loop

\* In an orderly program without kill() and alarms, wait_all() waits only on
\* threads that "threads" still holds, so each of them can still end.
THEOREM WaitsAreOnLiveThreads == Spec => []WaitsOnLive
  <1> DEFINE Own == Orderly /\ Calls \cap {"kill", "alarm"} = {}
             Inv == Own => SelfInv
  <1>1. Init => Inv
    BY DEF Init, SelfInv, AwaitsLive
  <1>2. TypeOK /\ OrderedInv /\ Inv /\ [Next]_vars => Inv'
    <2>1. SUFFICES ASSUME TypeOK, OrderedInv, Inv, [Next]_vars, Own' PROVE SelfInv'
      BY Zenon
    <2>2. Own
      BY <2>1 DEF Next, vars, Orderly, Calls
    <2>3. QED
      BY <2>1, <2>2, SelfStep, Zenon DEF OrderedInv
  <1>3. Inv => WaitsOnLive
    BY DEF SelfInv, WaitsOnLive
  <1> HIDE DEF Inv
  <1>4. QED
    BY <1>1, <1>2, <1>3, Ordered, PTL DEF Spec

=============================================================================
