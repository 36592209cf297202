------------------------------ MODULE MCKernel ------------------------------
(* Instances of Kernel for TLC. *)
EXTENDS Kernel, TLC

\* Threads that attach, block on a descriptor, pause, unpause, wait for
\* each other and fail; an error leaves loop().
WaitProgram ==
    [calls |-> {"attach", "rw", "pause", "unpause", "wait_all", "fail"},
     handler |-> FALSE, size |-> 3]

\* Threads that are killed or ended by an alarm while they block or pause.
KillProgram ==
    [calls |-> {"attach", "rw", "multi", "signal", "pause", "kill", "alarm",
                "break", "fail"},
     handler |-> TRUE, size |-> 2]

\* Threads killed while others wait for them or unpause them.
MixedProgram ==
    [calls |-> {"attach", "pause", "unpause", "wait_all", "kill"},
     handler |-> TRUE, size |-> 3]

\* Threads with timers that wait for each other and are killed.
TimerProgram ==
    [calls |-> {"attach", "timer", "wait_all", "kill", "fail"},
     handler |-> TRUE, size |-> 3]

\* Threads unpaused while they wait, killed while they are ready, ended by an alarm
\* without an error handler, or yielding something foreign.
UnruledPrograms ==
    {[calls |-> C, handler |-> FALSE, size |-> 2] :
        C \in {{"attach", "wait_all", "unpause_any"},
              {"attach", "rw", "alarm", "kill_any"},
              {"attach", "rw", "unpause_any", "illegal_yield"}}}

KernelPrograms ==
    {WaitProgram, KillProgram, MixedProgram, TimerProgram} \cup UnruledPrograms

KillReadyPrograms ==
    {[calls |-> {"attach", "kill_any"}, handler |-> TRUE, size |-> 2]}

AlarmWaitPrograms ==
    {[calls |-> {"attach", "timer", "alarm", "wait_all"}, handler |-> TRUE, size |-> 2]}

=============================================================================
