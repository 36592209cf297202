----------------------------- MODULE ExecProofs -----------------------------
(***************************************************************************)
(* Proofs about Exec for every set of exec objects, every amount of data   *)
(* and every pipe capacity.                                                *)
(***************************************************************************)
EXTENDS Exec, TLAPS

(***************************************************************************)
(* What makes OutputComplete inductive.  What a child wrote is in its pipe *)
(* or was read from it; as long as no chunk begins with a NUL octet        *)
(* communicate() drops a file from its list only when the file is at its   *)
(* end, and its child then writes nothing any more.                        *)
(* Only the threads asleep in wait() are registered for SIGCHLD, so nothing*)
(* else resumes a thread that reads.                                       *)
(***************************************************************************)
Kept(p) == IF p \in Silent THEN {"out"} ELSE Outputs

Asleep == \A p \in registered : pc[p] = "sigwait"

Started == \A p \in Procs : child[p] = "none" <=> pc[p] \in {"unused", "new"}

WaitersWait == \A p \in Waiters : pc[p] \notin {"write", "close", "read"}

OutputKept ==
    \A p \in Procs \ Binary : \A f \in Kept(p) : got[p][f] + pipe[p][f] = wrote[p][f]

EndOfFile ==
    \A p \in Procs \ (Waiters \cup Binary), f \in Outputs :
        (pc[p] = "read" /\ f \notin files[p]) \/ pc[p] \notin Reading
            => pipe[p][f] = 0 /\ child[p] # "running"

OutputInv == Asleep /\ Started /\ WaitersWait /\ OutputKept /\ EndOfFile

(***************************************************************************)
(* What makes InputComplete inductive.  No data is lost between            *)
(* communicate() and the child's stdout, and a child that exits by itself  *)
(* only at the end of its stdin does so after communicate() closed it.     *)
(***************************************************************************)
InputKept ==
    \A p \in Procs : data[p] = left[p] + pipe[p]["in"] + hold[p] + wrote[p]["out"]

StdinOpen == \A p \in Procs \ Waiters : pc[p] \in {"write", "close"} => open[p]

AllWritten ==
    \A p \in Procs \ Waiters :
        pc[p] \notin {"unused", "new", "write", "error", "gone"} => left[p] = 0

ExitAtEnd ==
    \A p \in Communicators \ (Quitters \cup Killed) :
        child[p] \in {"zombie", "reaped"} =>
            pipe[p]["in"] = 0 /\ hold[p] = 0 /\ pc[p] \notin {"write", "close"}

InputInv == InputKept /\ StdinOpen /\ AllWritten /\ ExitAtEnd

(***************************************************************************)
(* What makes StatusOwn inductive.  An object knows its child from start() *)
(* until wait() has a status for it.                                       *)
(***************************************************************************)
Unstarted == \A p \in Procs : pc[p] \in {"unused", "new"} => status[p] = None

KnownOrWaited ==
    \A p \in Procs : pc[p] \notin {"unused", "new", "gone"} => known[p] \/ status[p] # None

KnownUntilDone ==
    \A p \in Procs \ Twice : pc[p] \notin {"unused", "new", "done", "gone"} => known[p]

StatusInv == Asleep /\ Unstarted /\ KnownOrWaited /\ KnownUntilDone /\ StatusOwn

-----------------------------------------------------------------------------
(***************************************************************************)
(* The branches of the actions that have several, each with what it leaves *)
(* alone.                                                                  *)
(***************************************************************************)
WriteFrame ==
    UNCHANGED <<data, open, files, got, known, status, timed_out, signalVars, child, hold, wrote, holders>>

\* stdin:write() that gets everything out, yields or fails moves the thread only;
\* one that writes k buffers stays in the loop.
Moves(p) ==
    /\ UNCHANGED <<left, pipe>>
    /\ \/ UNCHANGED pc
       \/ left[p] = 0 /\ pc' = [pc EXCEPT ![p] = "close"]
       \/ child[p] # "running" /\ pc' = [pc EXCEPT ![p] = "error"]

Writes(p, k) ==
    /\ child[p] = "running" /\ pipe[p]["in"] + k <= Cap
    /\ left' = [left EXCEPT ![p] = @ - k]
    /\ pipe' = [pipe EXCEPT ![p]["in"] = @ + k]
    /\ UNCHANGED pc

LEMMA WriteCases ==
  ASSUME NEW p \in Procs, Write(p)
  PROVE  /\ pc[p] = "write" /\ running' \in {p, None} /\ WriteFrame
         /\ Moves(p) \/ \E k \in 1..left[p] : Writes(p, k)
  BY DEF Write, Goto, WriteFrame, Moves, Writes

ReadFrame ==
    UNCHANGED <<data, left, open, known, status, timed_out, signalVars, child, hold, wrote, holders>>

\* communicate() reads k buffers, drops them for the NUL octet they begin with, or
\* meets the end of a file.
Reads(p, f, k) ==
    /\ pipe' = [pipe EXCEPT ![p][f] = @ - k]
    /\ got' = IF p \in Silent /\ f = "err" THEN got ELSE [got EXCEPT ![p][f] = @ + k]
    /\ UNCHANGED <<running, pc, files>>

Drops(p, f, k) ==
    /\ p \in Binary
    /\ pipe' = [pipe EXCEPT ![p][f] = @ - k]
    /\ Leaves(p, f)
    /\ UNCHANGED got

Ends(p, f) ==
    /\ pipe[p][f] = 0 /\ child[p] # "running"
    /\ Leaves(p, f)
    /\ UNCHANGED <<pipe, got>>

LEMMA ReadCases ==
  ASSUME TypeOK, NEW p \in Procs, NEW f \in Outputs, Read(p, f)
  PROVE  /\ pc[p] = "read" /\ f \in files[p] /\ ReadFrame
         /\ \/ Ends(p, f)
            \/ \E k \in 1..pipe[p][f] : Reads(p, f, k)
            \/ \E k \in 1..pipe[p][f] : Drops(p, f, k)
  <1>1. pipe[p][f] \in Nat
    BY DEF TypeOK, Outputs
  <1>2. pc[p] = "read" /\ f \in files[p] /\ ReadFrame
    BY Zenon DEF Read, ReadFrame
  <1>3. CASE \E k \in 1..pipe[p][f] : Reads(p, f, k)
    BY <1>2, <1>3, Zenon
  <1>4. CASE \E k \in 1..pipe[p][f] : Drops(p, f, k)
    BY <1>2, <1>4, Zenon
  <1>5. CASE pipe[p][f] = 0 /\ Leaves(p, f) /\ UNCHANGED <<pipe, got>>
    <2>1. child[p] # "running"
      BY <1>1, <1>5 DEF Read, Readable
    <2>2. QED
      BY <1>2, <1>5, <2>1, Zenon DEF Ends
  <1>6. QED
    BY <1>3, <1>4, <1>5, Zenon DEF Read, Reads, Drops

\* A file that leaves the list moves at most its thread, from reading to wait().
LEMMA LeavesMoves ==
  ASSUME TypeOK, NEW p \in Procs, NEW f \in Outputs, pc[p] = "read", Leaves(p, f)
  PROVE  /\ pc' \in [Procs -> Phases]
         /\ pc'[p] \in {"read", "wait"}
         /\ \A q \in Procs : q # p => pc'[q] = pc[q] /\ files'[q] = files[q]
         /\ pc'[p] = "wait" => files'[p] = {}
         /\ files' \in [Procs -> SUBSET Outputs] /\ files'[p] = files[p] \ {f}
  <1>1. pc \in [Procs -> Phases] /\ files \in [Procs -> SUBSET Outputs]
    BY Zenon DEF TypeOK
  <1>2. files' = [files EXCEPT ![p] = @ \ {f}]
    BY Zenon DEF Leaves
  <1>3. \/ files'[p] # {} /\ pc' = pc
        \/ files'[p] = {} /\ pc' = [pc EXCEPT ![p] = "wait"]
    BY Zenon DEF Leaves, Goto
  <1>4. QED
    BY <1>1, <1>2, <1>3 DEF Phases

WaitFrame == UNCHANGED <<data, left, got, timed_out, signalVars, pipe, hold, wrote, holders>>

\* wait() has the status of a child q, or it goes on, times out or fails.
Reaps(p, q) ==
    /\ child[q] = "zombie"
    /\ child' = [child EXCEPT ![q] = "reaped"]
    /\ status' = [status EXCEPT ![p] = q]
    /\ CleanUp(p)
    /\ pc' = [pc EXCEPT ![p] = "done"]

Returns(p, phase) ==
    /\ pc' = [pc EXCEPT ![p] = phase]
    /\ UNCHANGED <<open, files, known, status, child>>

LEMMA WaitCases ==
  ASSUME NEW p \in Procs, Wait(p)
  PROVE  /\ pc[p] = "wait" /\ running' \in {running, None} /\ WaitFrame
         /\ \/ \E phase \in {"timedout", "checked", "error"} : Returns(p, phase)
            \/ \E q \in Waited(p) : Reaps(p, q)
  BY DEF Wait, Goto, WaitFrame, Reaps, Returns

-----------------------------------------------------------------------------
(***************************************************************************)
(* Type correctness.                                                       *)
(***************************************************************************)

\* A program that has created its objects and started none is well-formed.
LEMMA InitType == Init => TypeOK
  <1> SUFFICES ASSUME Init PROVE TypeOK
    OBVIOUS
  <1>1. PICK S \in Programs : pc = [p \in Procs |-> IF p \in S THEN "new" ELSE "unused"]
    BY DEF Init
  <1>2. pc \in [Procs -> Phases]
    BY <1>1 DEF Phases
  <1>3. /\ running \in Procs \cup {None}
        /\ data \in [Procs -> 0..MaxData] /\ left \in [Procs -> 0..MaxData]
        /\ open \in [Procs -> BOOLEAN]
        /\ files \in [Procs -> SUBSET Outputs]
        /\ got \in [Procs -> [Outputs -> Nat]]
        /\ known \in [Procs -> BOOLEAN]
        /\ status \in [Procs -> Procs \cup {None}]
        /\ timed_out \in [Procs -> BOOLEAN]
    BY DEF Init
  <1>4. /\ active \subseteq registered /\ registered \subseteq Procs
        /\ caught \in BOOLEAN /\ group \in BOOLEAN
        /\ child \in [Procs -> {"none", "running", "zombie", "reaped"}]
        /\ holders \in [Procs -> SUBSET Procs]
    BY Zenon DEF Init
  <1>5. /\ pipe \in [Procs -> [{"in", "out", "err"} -> 0..Cap]]
        /\ hold \in [Procs -> 0..1]
        /\ wrote \in [Procs -> [Outputs -> Nat]]
    BY ExecAssumption DEF Init
  <1>6. QED
    BY <1>2, <1>3, <1>4, <1>5 DEF TypeOK

\* So is it after every step of a thread, of the loop and of a child.
LEMMA NextType ==
  ASSUME TypeOK, [Next]_vars
  PROVE  TypeOK'
  <1>1. ASSUME NEW p \in Procs, Start(p) PROVE TypeOK'
    BY <1>1, ExecAssumption DEF Start, Goto, threadVars, signalVars, childVars, TypeOK,
       Phases, Outputs
  <1>2. ASSUME NEW p \in Procs, Write(p) PROVE TypeOK'
    <2>1. pc[p] = "write" /\ running' \in {p, None} /\ WriteFrame
      BY <1>2, WriteCases
    <2>2. CASE Moves(p)
      <3>1. pc' \in [Procs -> Phases]
        BY <2>2, Zenon DEF Moves, TypeOK, Phases
      <3>2. running' \in Procs \cup {None}
        BY <2>1, Zenon
      <3>3. UNCHANGED <<data, left, open, files, got, known, status, timed_out,
                        registered, active, caught, group, childVars>>
        BY <2>1, <2>2, Zenon DEF Moves, WriteFrame, signalVars, childVars
      <3>4. QED
        BY <3>1, <3>2, <3>3, Zenon DEF TypeOK, childVars
    <2>3. ASSUME NEW k \in 1..left[p], Writes(p, k) PROVE TypeOK'
      BY <2>1, <2>3, ExecAssumption DEF Writes, WriteFrame,
         threadVars, signalVars, childVars, TypeOK, Phases, Outputs
    <2>4. QED
      BY <1>2, <2>2, <2>3, WriteCases
  <1>3. ASSUME NEW p \in Procs, CloseStdin(p) PROVE TypeOK'
    BY <1>3, ExecAssumption DEF CloseStdin, Goto, threadVars, signalVars, childVars,
       TypeOK, Phases, Outputs
  <1>4. ASSUME NEW p \in Procs, Wait(p) PROVE TypeOK'
    <2>1. pc[p] = "wait" /\ running' \in {running, None} /\ WaitFrame
      BY <1>4, WaitCases
    <2>2. ASSUME NEW phase \in {"timedout", "checked", "error"}, Returns(p, phase)
          PROVE  TypeOK'
      BY <2>1, <2>2, ExecAssumption DEF Returns, WaitFrame,
         threadVars, signalVars, childVars, TypeOK, Phases, Outputs
    <2>3. ASSUME NEW q \in Waited(p), Reaps(p, q) PROVE TypeOK'
      BY <2>1, <2>3, ExecAssumption DEF Reaps, Waited, CleanUp, WaitFrame,
         threadVars, signalVars, childVars, TypeOK, Phases, Outputs
    <2>4. QED
      BY <1>4, <2>2, <2>3, WaitCases
  <1>5. ASSUME NEW p \in Procs, Sigwait(p) PROVE TypeOK'
    BY <1>5, ExecAssumption DEF Sigwait, Goto, threadVars, signalVars, childVars,
       TypeOK, Phases, Outputs
  <1>6. ASSUME NEW p \in Procs, NEW f \in Outputs, Read(p, f)
        PROVE  TypeOK'
    <2>1. pc[p] = "read" /\ f \in files[p] /\ ReadFrame
      BY <1>6, ReadCases
    <2>2. ASSUME Leaves(p, f), got' \in [Procs -> [Outputs -> Nat]],
                 pipe' \in [Procs -> [{"in", "out", "err"} -> 0..Cap]]
          PROVE  TypeOK'
      <3>1. pc' \in [Procs -> Phases] /\ files' \in [Procs -> SUBSET Outputs]
        BY <2>1, <2>2, LeavesMoves
      <3>2. running' \in Procs \cup {None}
        BY <2>2, Zenon DEF Leaves, TypeOK
      <3>3. UNCHANGED <<data, left, open, known, status, timed_out, registered, active, caught,
                        group, child, hold, wrote, holders>>
        BY <2>1, Zenon DEF ReadFrame, signalVars
      <3>4. QED
        BY <2>2, <3>1, <3>2, <3>3, Zenon DEF TypeOK
    <2>3. CASE Ends(p, f)
      BY <2>2, <2>3, Zenon DEF Ends, TypeOK
    <2>4. ASSUME NEW k \in 1..pipe[p][f], Drops(p, f, k) PROVE TypeOK'
      <3>1. pipe' \in [Procs -> [{"in", "out", "err"} -> 0..Cap]]
        BY <2>4, ExecAssumption DEF Drops, TypeOK, Outputs
      <3>2. QED
        BY <2>2, <2>4, <3>1, Zenon DEF Drops, TypeOK
    <2>5. ASSUME NEW k \in 1..pipe[p][f], Reads(p, f, k) PROVE TypeOK'
      BY <2>1, <2>5, ExecAssumption DEF Reads, ReadFrame,
         threadVars, signalVars, childVars, TypeOK, Phases, Outputs
    <2>6. QED
      BY <1>6, <2>3, <2>4, <2>5, ReadCases, Zenon
  <1>7. ASSUME NEW p \in Procs, ChildRead(p) PROVE TypeOK'
    BY <1>7, ExecAssumption DEF ChildRead, threadVars, signalVars, childVars, TypeOK,
       Phases, Outputs
  <1>8. ASSUME NEW p \in Procs, ChildWrite(p) PROVE TypeOK'
    BY <1>8, ExecAssumption DEF ChildWrite, Emit, threadVars, signalVars, childVars,
       TypeOK, Phases, Outputs
  <1>9. ASSUME NEW p \in Procs, ChildError(p) PROVE TypeOK'
    BY <1>9, ExecAssumption DEF ChildError, Emit, threadVars, signalVars, childVars,
       TypeOK, Phases, Outputs
  <1>10. ASSUME NEW p \in Procs, ChildExit(p) PROVE TypeOK'
    BY <1>10, ExecAssumption DEF ChildExit, AtEnd, Sigchld,
       threadVars, signalVars, childVars, TypeOK, Phases, Outputs
  <1>11. ASSUME NEW p \in Procs, WaitAgain(p) PROVE TypeOK'
    BY <1>11, ExecAssumption DEF WaitAgain, Goto, threadVars, signalVars, childVars,
       TypeOK, Phases, Outputs
  <1>12. ASSUME NEW p \in Procs, Collect(p) PROVE TypeOK'
    BY <1>12, ExecAssumption DEF Collect, CleanUp, Goto,
       threadVars, signalVars, childVars, TypeOK, Phases, Outputs
  <1>13. ASSUME NEW p \in Procs, Kill(p) PROVE TypeOK'
    <2>1. CASE child' = [child EXCEPT ![p] = "zombie"] /\ Sigchld /\ UNCHANGED group
      BY <1>13, <2>1 DEF Kill, Sigchld, threadVars, TypeOK
    <2>2. CASE group' = TRUE /\ UNCHANGED <<child, caught>>
      BY <1>13, <2>2 DEF Kill, threadVars, TypeOK
    <2>3. QED
      BY <1>13, <2>1, <2>2, Zenon DEF Kill
  <1>14. ASSUME NEW p \in Procs, NEW timeout \in BOOLEAN,
                SignalTriggered(p, timeout)
        PROVE  TypeOK'
    BY <1>14, ExecAssumption DEF SignalTriggered, Goto,
       threadVars, signalVars, childVars, TypeOK, Phases, Outputs
  <1>15. CASE Activate
    BY <1>15, Zenon DEF Activate, threadVars, signalVars, childVars, TypeOK
  <1>16. CASE UNCHANGED vars
    BY <1>16 DEF vars, threadVars, signalVars, childVars, TypeOK, Phases, Outputs
  <1>17. QED
    BY <1>1, <1>2, <1>3, <1>4, <1>5, <1>6, <1>7, <1>8, <1>9, <1>10, <1>11, <1>12, <1>13,
       <1>14, <1>15, <1>16 DEF Next, Thread, Child

\* Exec objects, pipes and children stay well-formed: what is in a pipe stays
\* within its capacity, and a status is the status of an object's child.
THEOREM ExecTypeCorrect == Spec => []TypeOK
  BY InitType, NextType, PTL DEF Spec

-----------------------------------------------------------------------------
(***************************************************************************)
(* What communicate() reads.                                               *)
(***************************************************************************)

\* Nothing has been written before the first start().
LEMMA InitOutput == Init => OutputInv
  BY ExecAssumption DEF Init, OutputInv, Asleep, Started, WaitersWait, OutputKept, EndOfFile,
     Kept, Outputs, Reading, Waiters

\* A step that only moves a thread keeps the invariant, unless it lets the thread
\* sleep, start, or go on from its reading.
LEMMA OutputMoves ==
  ASSUME OutputInv, NEW p \in Procs,
         UNCHANGED <<files, got, registered, child, pipe, wrote>>,
         \A q \in Procs : q # p => pc'[q] = pc[q],
         registered \subseteq Procs,
         p \notin registered,
         pc[p] \notin {"unused", "new"}, pc'[p] \notin {"unused", "new"},
         p \in Waiters => pc'[p] \notin {"write", "close", "read"},
         pc[p] \in Reading => pc'[p] \in Reading \ {"read"}
  PROVE  OutputInv'
  <1>1. Asleep' /\ Started' /\ WaitersWait' /\ OutputKept'
    BY DEF OutputInv, Asleep, Started, WaitersWait, OutputKept, Waiters
  <1>2. EndOfFile'
    <2> SUFFICES ASSUME NEW q \in Procs \ (Waiters \cup Binary), NEW f \in Outputs,
                        (pc'[q] = "read" /\ f \notin files'[q]) \/ pc'[q] \notin Reading
                 PROVE  pipe'[q][f] = 0 /\ child'[q] # "running"
      BY Zenon DEF EndOfFile
    <2>1. (pc[q] = "read" /\ f \notin files[q]) \/ pc[q] \notin Reading
      BY DEF Reading
    <2>2. QED
      BY <2>1, Zenon DEF OutputInv, EndOfFile
  <1>3. QED
    BY <1>1, <1>2, Zenon DEF OutputInv

\* No step of a thread or of a child loses what a child wrote to a file
\* communicate() keeps, and none ends the reading of a file before its end.
LEMMA NextOutput ==
  ASSUME TypeOK, OutputInv, [Next]_vars
  PROVE  OutputInv'
  <1>1. ASSUME NEW p \in Procs, Start(p) PROVE OutputInv'
    BY <1>1, ExecAssumption DEF Start, Goto, threadVars, signalVars, childVars, TypeOK,
       Phases, Outputs, OutputInv, Waiters, Kept, Reading, Asleep, Started, WaitersWait,
       OutputKept, EndOfFile
  <1>2. ASSUME NEW p \in Procs, Write(p) PROVE OutputInv'
    <2>1. pc[p] = "write" /\ running' \in {p, None} /\ WriteFrame
      BY <1>2, WriteCases
    <2>2. CASE Moves(p)
      <3>1. UNCHANGED <<files, got, registered, child, pipe, wrote>>
        BY <2>1, <2>2, Zenon DEF Moves, WriteFrame, signalVars
      <3>2. pc \in [Procs -> Phases] /\ registered \subseteq Procs
        BY Zenon DEF TypeOK
      <3>3. pc' = pc \/ pc' = [pc EXCEPT ![p] = "close"] \/ pc' = [pc EXCEPT ![p] = "error"]
        BY <2>2, Zenon DEF Moves
      <3>4. /\ \A q \in Procs : q # p => pc'[q] = pc[q]
            /\ pc'[p] \in {"write", "close", "error"}
        BY <2>1, <3>2, <3>3
      <3>5. p \notin registered /\ p \notin Waiters
        BY <2>1 DEF OutputInv, Asleep, WaitersWait
      <3>6. QED
        BY <2>1, <3>1, <3>2, <3>4, <3>5, OutputMoves DEF Reading
    <2>3. ASSUME NEW k \in 1..left[p], Writes(p, k) PROVE OutputInv'
      BY <2>1, <2>3, ExecAssumption DEF Writes, WriteFrame,
         threadVars, signalVars, childVars, TypeOK, Phases, Outputs, OutputInv, Waiters,
         Kept, Reading, Asleep, Started, WaitersWait, OutputKept, EndOfFile
    <2>4. QED
      BY <1>2, <2>2, <2>3, WriteCases
  <1>3. ASSUME NEW p \in Procs, CloseStdin(p) PROVE OutputInv'
    BY <1>3, ExecAssumption DEF CloseStdin, Goto, threadVars, signalVars, childVars,
       TypeOK, Phases, Outputs, OutputInv, Waiters, Kept, Reading, Asleep, Started,
       WaitersWait, OutputKept, EndOfFile
  <1>4. ASSUME NEW p \in Procs, Wait(p) PROVE OutputInv'
    <2>1. pc[p] = "wait" /\ running' \in {running, None} /\ WaitFrame
      BY <1>4, WaitCases
    <2>2. ASSUME NEW phase \in {"timedout", "checked", "error"}, Returns(p, phase)
          PROVE  OutputInv'
      BY <2>1, <2>2, ExecAssumption DEF Returns, WaitFrame,
         threadVars, signalVars, childVars, TypeOK, Phases, Outputs, OutputInv, Waiters,
         Kept, Reading, Asleep, Started, WaitersWait, OutputKept, EndOfFile
    <2>3. ASSUME NEW q \in Waited(p), Reaps(p, q) PROVE OutputInv'
      BY <2>1, <2>3, ExecAssumption DEF Reaps, Waited, CleanUp, WaitFrame,
         threadVars, signalVars, childVars, TypeOK, Phases, Outputs, OutputInv, Waiters,
         Kept, Reading, Asleep, Started, WaitersWait, OutputKept, EndOfFile
    <2>4. QED
      BY <1>4, <2>2, <2>3, WaitCases
  <1>5. ASSUME NEW p \in Procs, Sigwait(p) PROVE OutputInv'
    BY <1>5, ExecAssumption DEF Sigwait, Goto, threadVars, signalVars, childVars,
       TypeOK, Phases, Outputs, OutputInv, Waiters, Kept, Reading, Asleep, Started,
       WaitersWait, OutputKept, EndOfFile
  <1>6. ASSUME NEW p \in Procs, NEW f \in Outputs, Read(p, f)
        PROVE  OutputInv'
    <2>1. pc[p] = "read" /\ f \in files[p] /\ ReadFrame
      BY <1>6, ReadCases
    <2>2. UNCHANGED <<registered, child, wrote>> /\ registered \subseteq Procs
      BY <2>1, Zenon DEF ReadFrame, signalVars, TypeOK
    <2>3. ASSUME Leaves(p, f), OutputKept', EndOfFile' PROVE OutputInv'
      <3>1. pc'[p] \in {"read", "wait"} /\ \A q \in Procs : q # p => pc'[q] = pc[q]
        BY <2>1, <2>3, LeavesMoves
      <3>2. Asleep' /\ Started' /\ WaitersWait'
        BY <2>1, <2>2, <3>1 DEF OutputInv, Asleep, Started, WaitersWait, Waiters
      <3>3. QED
        BY <2>3, <3>2, Zenon DEF OutputInv
    <2>4. CASE Ends(p, f)
      <3>1. Leaves(p, f) /\ UNCHANGED <<pipe, got>>
        BY <2>4, Zenon DEF Ends
      <3>2. OutputKept'
        BY <2>2, <3>1, Zenon DEF OutputInv, OutputKept
      <3>3. EndOfFile'
        <4> SUFFICES ASSUME NEW q \in Procs \ (Waiters \cup Binary), NEW g \in Outputs,
                            (pc'[q] = "read" /\ g \notin files'[q]) \/ pc'[q] \notin Reading
                     PROVE  pipe[q][g] = 0 /\ child[q] # "running"
          BY <2>2, <3>1, Zenon DEF EndOfFile
        <4>1. CASE q # p
          <5>1. pc'[q] = pc[q] /\ files'[q] = files[q]
            BY <2>1, <3>1, <4>1, LeavesMoves, Zenon
          <5>2. QED
            BY <5>1, Zenon DEF OutputInv, EndOfFile
        <4>2. CASE q = p /\ g = f
          BY <2>4, <4>2, Zenon DEF Ends
        <4>3. CASE q = p /\ g # f
          <5>1. files'[p] = files[p] \ {f} /\ (pc'[p] = "wait" => files'[p] = {})
            BY <2>1, <3>1, LeavesMoves
          <5>2. pc'[p] \in {"read", "wait"}
            BY <2>1, <3>1, LeavesMoves
          <5>3. g \notin files[p]
            BY <4>3, <5>1, <5>2 DEF Reading
          <5>4. QED
            BY <2>1, <4>3, <5>3, Zenon DEF OutputInv, EndOfFile
        <4>4. QED
          BY <4>1, <4>2, <4>3, Zenon
      <3>4. QED
        BY <2>3, <3>1, <3>2, <3>3, Zenon
    <2>5. ASSUME NEW k \in 1..pipe[p][f], Drops(p, f, k) PROVE OutputInv'
      <3>1. p \in Binary /\ Leaves(p, f) /\ UNCHANGED got
        BY <2>5, Zenon DEF Drops
      <3>2. \A q \in Procs : q # p => pipe'[q] = pipe[q] /\ pc'[q] = pc[q] /\ files'[q] = files[q]
        <4>1. \A q \in Procs : q # p => pipe'[q] = pipe[q]
          BY <2>5 DEF Drops, TypeOK
        <4>2. \A q \in Procs : q # p => pc'[q] = pc[q] /\ files'[q] = files[q]
          BY <2>1, <3>1, LeavesMoves, Zenon
        <4>3. QED
          BY <4>1, <4>2, Zenon
      <3>3. \A q \in Procs \ Binary : q # p
        BY <3>1, Zenon
      <3>4. OutputKept'
        BY <2>2, <3>1, <3>2, <3>3, Zenon DEF OutputInv, OutputKept
      <3>5. EndOfFile'
        BY <2>2, <3>2, <3>3 DEF OutputInv, EndOfFile
      <3>6. QED
        BY <2>3, <3>1, <3>4, <3>5, Zenon
    <2>6. ASSUME NEW k \in 1..pipe[p][f], Reads(p, f, k) PROVE OutputInv'
      <3>1. UNCHANGED <<pc, files>>
        BY <2>6, Zenon DEF Reads
      <3>2. Asleep' /\ Started' /\ WaitersWait'
        BY <2>2, <3>1, Zenon DEF OutputInv, Asleep, Started, WaitersWait
      <3>3. OutputKept'
        BY <2>2, <2>6, ExecAssumption DEF Reads, TypeOK, Outputs, OutputInv, OutputKept, Kept
      <3>4. EndOfFile'
        <4>1. \A q \in Procs, g \in Outputs : q # p \/ g # f => pipe'[q][g] = pipe[q][g]
          BY <2>6 DEF Reads, TypeOK, Outputs
        <4> SUFFICES ASSUME NEW q \in Procs \ (Waiters \cup Binary), NEW g \in Outputs,
                            (pc'[q] = "read" /\ g \notin files'[q]) \/ pc'[q] \notin Reading
                     PROVE  pipe'[q][g] = 0 /\ child'[q] # "running"
          BY Zenon DEF EndOfFile
        <4>2. pipe[q][g] = 0 /\ child[q] # "running"
          BY <3>1, Zenon DEF OutputInv, EndOfFile
        <4>3. q # p \/ g # f
          BY <2>1, <3>1 DEF Reading
        <4>4. QED
          BY <2>2, <4>1, <4>2, <4>3, Zenon
      <3>5. QED
        BY <3>2, <3>3, <3>4, Zenon DEF OutputInv
    <2>7. QED
      BY <1>6, <2>4, <2>5, <2>6, ReadCases, Zenon
  <1>7. ASSUME NEW p \in Procs, ChildRead(p) PROVE OutputInv'
    BY <1>7, ExecAssumption DEF ChildRead, threadVars, signalVars, childVars, TypeOK,
       Phases, Outputs, OutputInv, Waiters, Kept, Reading, Asleep, Started, WaitersWait,
       OutputKept, EndOfFile
  <1>8. ASSUME NEW p \in Procs, ChildWrite(p) PROVE OutputInv'
    BY <1>8, ExecAssumption DEF ChildWrite, Emit, threadVars, signalVars, childVars,
       TypeOK, Phases, Outputs, OutputInv, Waiters, Kept, Reading, Asleep, Started,
       WaitersWait, OutputKept, EndOfFile
  <1>9. ASSUME NEW p \in Procs, ChildError(p) PROVE OutputInv'
    <2>1. /\ pipe' = [pipe EXCEPT ![p]["err"] = @ + 1]
          /\ wrote' = [wrote EXCEPT ![p]["err"] = @ + 1]
          /\ child[p] = "running" /\ UNCHANGED <<threadVars, signalVars, child, holders>>
      BY <1>9 DEF ChildError, Emit
    <2>2. OutputKept'
      BY <2>1 DEF threadVars, TypeOK, Outputs, OutputInv, OutputKept, Kept
    <2>3. QED
      BY <2>1, <2>2 DEF threadVars, signalVars, TypeOK, Outputs, OutputInv, Asleep, Started,
         WaitersWait, EndOfFile, Waiters, Reading
  <1>10. ASSUME NEW p \in Procs, ChildExit(p) PROVE OutputInv'
    BY <1>10, ExecAssumption DEF ChildExit, AtEnd, Sigchld,
       threadVars, signalVars, childVars, TypeOK, Phases, Outputs, OutputInv, Waiters,
       Kept, Reading, Asleep, Started, WaitersWait, OutputKept, EndOfFile
  <1>11. ASSUME NEW p \in Procs, WaitAgain(p) PROVE OutputInv'
    BY <1>11, ExecAssumption DEF WaitAgain, Goto, threadVars, signalVars, childVars,
       TypeOK, Phases, Outputs, OutputInv, Waiters, Kept, Reading, Asleep, Started,
       WaitersWait, OutputKept, EndOfFile
  <1>12. ASSUME NEW p \in Procs, Collect(p) PROVE OutputInv'
    BY <1>12, ExecAssumption DEF Collect, CleanUp, Goto,
       threadVars, signalVars, childVars, TypeOK, Phases, Outputs, OutputInv, Waiters,
       Kept, Reading, Asleep, Started, WaitersWait, OutputKept, EndOfFile
  <1>13. ASSUME NEW p \in Procs, Kill(p) PROVE OutputInv'
    BY <1>13, ExecAssumption DEF Kill, Sigchld, threadVars, signalVars, childVars,
       TypeOK, Phases, Outputs, OutputInv, Waiters, Kept, Reading, Asleep, Started,
       WaitersWait, OutputKept, EndOfFile
  <1>14. ASSUME NEW p \in Procs, NEW timeout \in BOOLEAN,
                SignalTriggered(p, timeout)
        PROVE  OutputInv'
    BY <1>14, ExecAssumption DEF SignalTriggered, Goto,
       threadVars, signalVars, childVars, TypeOK, Phases, Outputs, OutputInv, Waiters,
       Kept, Reading, Asleep, Started, WaitersWait, OutputKept, EndOfFile
  <1>15. CASE Activate
    BY <1>15, ExecAssumption DEF Activate, threadVars, signalVars, childVars, TypeOK,
       Phases, Outputs, OutputInv, Waiters, Kept, Reading, Asleep, Started, WaitersWait,
       OutputKept, EndOfFile
  <1>16. CASE UNCHANGED vars
    BY <1>16 DEF vars, threadVars, signalVars, childVars, TypeOK, Phases, Outputs,
       OutputInv, Waiters, Kept, Reading, Asleep, Started, WaitersWait, OutputKept,
       EndOfFile
  <1>17. QED
    BY <1>1, <1>2, <1>3, <1>4, <1>5, <1>6, <1>7, <1>8, <1>9, <1>10, <1>11, <1>12, <1>13,
       <1>14, <1>15, <1>16 DEF Next, Thread, Child

\* What communicate() returns is everything its child wrote to the files it keeps,
\* if the child writes no NUL octets.
KeptComplete ==
    \A p \in (Communicators \cup Silent) \ Binary :
        pc[p] \notin Reading => \A f \in Kept(p) : got[p][f] = wrote[p][f]

\* communicate() reads every file it keeps to its end before it waits: with data
\* both files, without data (communicate() then reads stderr into the wrong stack
\* slot) stdout.  What a child that writes NUL octets loses is left out.
THEOREM ExecKeptComplete == Spec => []KeptComplete
  <1>1. TypeOK /\ OutputInv => KeptComplete
    BY ExecAssumption
    DEF TypeOK, OutputInv, OutputKept, EndOfFile, KeptComplete, Kept, Outputs, Waiters
  <1>2. QED
    BY <1>1, InitType, NextType, InitOutput, NextOutput, PTL DEF Spec

\* Where every communicate() is given data, nothing a child writes is lost,
\* however its writes and its exit interleave with the reads, unless the child
\* writes NUL octets.
THEOREM ExecOutputComplete ==
  ASSUME Silent = {}
  PROVE  Spec => []OutputComplete
  <1>1. TypeOK /\ KeptComplete => OutputComplete
    <2> SUFFICES ASSUME TypeOK, KeptComplete, NEW p \in Communicators \ Binary, pc[p] \notin Reading
                 PROVE  got[p] = wrote[p]
      BY DEF OutputComplete
    <2>1. got[p] \in [Outputs -> Nat] /\ wrote[p] \in [Outputs -> Nat]
      BY ExecAssumption DEF TypeOK
    <2>2. \A f \in Outputs : got[p][f] = wrote[p][f]
      BY Zenon DEF KeptComplete, Kept
    <2>3. QED
      BY <2>1, <2>2
  <1>2. QED
    BY <1>1, ExecTypeCorrect, ExecKeptComplete, PTL

-----------------------------------------------------------------------------
(***************************************************************************)
(* What communicate() writes.                                              *)
(***************************************************************************)

\* Before start() all the data is still to be written.
LEMMA InitInput == Init => InputInv
  <1> SUFFICES ASSUME Init PROVE InputInv
    OBVIOUS
  <1>1. data \in [Procs -> 0..MaxData] /\ left = data
    BY DEF Init
  <1>2. InputKept
    BY <1>1, ExecAssumption DEF Init, InputKept, Outputs
  <1>3. PICK S \in Programs : pc = [p \in Procs |-> IF p \in S THEN "new" ELSE "unused"]
    BY DEF Init
  <1>4. QED
    BY <1>2, <1>3, ExecAssumption DEF Init, InputInv, StdinOpen, AllWritten, ExitAtEnd

\* No step loses data on its way through the child.
LEMMA NextInput ==
  ASSUME TypeOK, OutputInv, InputInv, [Next]_vars
  PROVE  InputInv'
  <1>1. ASSUME NEW p \in Procs, Start(p) PROVE InputInv'
    BY <1>1, ExecAssumption DEF Start, Goto, threadVars, signalVars, childVars, TypeOK,
       Outputs, OutputInv, Asleep, Started, InputInv, Waiters, InputKept, StdinOpen,
       AllWritten, ExitAtEnd
  <1>2. ASSUME NEW p \in Procs, Write(p) PROVE InputInv'
    <2>1. pc[p] = "write" /\ running' \in {p, None} /\ WriteFrame
      BY <1>2, WriteCases
    <2>2. CASE Moves(p)
      <3>1. CASE UNCHANGED pc
        BY <2>1, <2>2, <3>1, ExecAssumption DEF Moves, WriteFrame, threadVars, signalVars,
           childVars, TypeOK, OutputInv, Started, InputInv, Waiters, InputKept, StdinOpen,
           AllWritten, ExitAtEnd
      <3>2. CASE left[p] = 0 /\ pc' = [pc EXCEPT ![p] = "close"]
        BY <2>1, <2>2, <3>2, ExecAssumption DEF Moves, WriteFrame, threadVars, signalVars,
           childVars, TypeOK, OutputInv, Started, InputInv, Waiters, InputKept, StdinOpen,
           AllWritten, ExitAtEnd
      <3>3. CASE child[p] # "running" /\ pc' = [pc EXCEPT ![p] = "error"]
        BY <2>1, <2>2, <3>3, ExecAssumption DEF Moves, WriteFrame, threadVars, signalVars,
           childVars, TypeOK, OutputInv, Started, InputInv, Waiters, InputKept, StdinOpen,
           AllWritten, ExitAtEnd
      <3>4. QED
        BY <2>2, <3>1, <3>2, <3>3 DEF Moves
    <2>3. ASSUME NEW k \in 1..left[p], Writes(p, k) PROVE InputInv'
      BY <2>1, <2>3, ExecAssumption DEF Writes, WriteFrame,
         threadVars, signalVars, childVars, TypeOK, Outputs, OutputInv, Asleep, Started,
         InputInv, Waiters, InputKept, StdinOpen, AllWritten, ExitAtEnd
    <2>4. QED
      BY <1>2, <2>2, <2>3, WriteCases
  <1>3. ASSUME NEW p \in Procs, CloseStdin(p) PROVE InputInv'
    BY <1>3, ExecAssumption DEF CloseStdin, Goto, threadVars, signalVars, childVars,
       TypeOK, Outputs, OutputInv, Asleep, Started, InputInv, Waiters, InputKept,
       StdinOpen, AllWritten, ExitAtEnd
  <1>4. ASSUME NEW p \in Procs, Wait(p) PROVE InputInv'
    <2>1. pc[p] = "wait" /\ running' \in {running, None} /\ WaitFrame
      BY <1>4, WaitCases
    <2>2. ASSUME NEW phase \in {"timedout", "checked", "error"}, Returns(p, phase)
          PROVE  InputInv'
      BY <2>1, <2>2, ExecAssumption DEF Returns, WaitFrame,
         threadVars, signalVars, childVars, TypeOK, Outputs, OutputInv, Asleep, Started,
         InputInv, Waiters, InputKept, StdinOpen, AllWritten, ExitAtEnd
    <2>3. ASSUME NEW q \in Waited(p), Reaps(p, q) PROVE InputInv'
      BY <2>1, <2>3, ExecAssumption DEF Reaps, Waited, CleanUp, WaitFrame,
         threadVars, signalVars, childVars, TypeOK, Outputs, OutputInv, Asleep, Started,
         InputInv, Waiters, InputKept, StdinOpen, AllWritten, ExitAtEnd
    <2>4. QED
      BY <1>4, <2>2, <2>3, WaitCases
  <1>5. ASSUME NEW p \in Procs, Sigwait(p) PROVE InputInv'
    BY <1>5, ExecAssumption DEF Sigwait, Goto, threadVars, signalVars, childVars,
       TypeOK, Outputs, OutputInv, Asleep, Started, InputInv, Waiters, InputKept,
       StdinOpen, AllWritten, ExitAtEnd
  <1>6. ASSUME NEW p \in Procs, NEW f \in Outputs, Read(p, f)
        PROVE  InputInv'
    <2>1. pc[p] = "read" /\ f \in files[p] /\ ReadFrame
      BY <1>6, ReadCases
    <2>2. ASSUME \A q \in Procs : pc'[q] = pc[q] \/ (pc[q] = "read" /\ pc'[q] = "wait"),
                 \A q \in Procs : pipe'[q]["in"] = pipe[q]["in"]
          PROVE  InputInv'
      <3>1. UNCHANGED <<data, left, open, child, hold, wrote>>
        BY <2>1, Zenon DEF ReadFrame
      <3>2. InputKept' /\ StdinOpen'
        BY <2>2, <3>1 DEF InputInv, InputKept, StdinOpen
      <3>3. AllWritten'
        BY <2>2, <3>1 DEF InputInv, AllWritten
      <3>4. ExitAtEnd'
        BY <2>2, <3>1, ExecAssumption DEF InputInv, ExitAtEnd
      <3>5. QED
        BY <3>2, <3>3, <3>4, Zenon DEF InputInv
    <2>3. ASSUME Leaves(p, f)
          PROVE  \A q \in Procs : pc'[q] = pc[q] \/ (pc[q] = "read" /\ pc'[q] = "wait")
      <3>1. pc'[p] \in {"read", "wait"} /\ \A q \in Procs : q # p => pc'[q] = pc[q]
        BY <2>1, <2>3, LeavesMoves
      <3>2. QED
        BY <2>1, <3>1, Zenon
    <2>4. CASE Ends(p, f)
      BY <2>2, <2>3, <2>4, Zenon DEF Ends
    <2>5. ASSUME NEW k, pipe' = [pipe EXCEPT ![p][f] = @ - k]
          PROVE  \A q \in Procs : pipe'[q]["in"] = pipe[q]["in"]
      BY <2>5 DEF TypeOK, Outputs
    <2>6. ASSUME NEW k \in 1..pipe[p][f], Drops(p, f, k) PROVE InputInv'
      BY <2>2, <2>3, <2>5, <2>6, Zenon DEF Drops
    <2>7. ASSUME NEW k \in 1..pipe[p][f], Reads(p, f, k) PROVE InputInv'
      BY <2>2, <2>5, <2>7, Zenon DEF Reads
    <2>8. QED
      BY <1>6, <2>4, <2>6, <2>7, ReadCases, Zenon
  <1>7. ASSUME NEW p \in Procs, ChildRead(p) PROVE InputInv'
    BY <1>7, ExecAssumption DEF ChildRead, threadVars, signalVars, childVars, TypeOK,
       Outputs, OutputInv, Asleep, Started, InputInv, Waiters, InputKept, StdinOpen,
       AllWritten, ExitAtEnd
  <1>8. ASSUME NEW p \in Procs, ChildWrite(p) PROVE InputInv'
    <2>1. /\ hold[p] = 1 /\ hold' = [hold EXCEPT ![p] = 0]
          /\ pipe' = [pipe EXCEPT ![p]["out"] = @ + 1]
          /\ wrote' = [wrote EXCEPT ![p]["out"] = @ + 1]
          /\ child[p] = "running" /\ UNCHANGED <<threadVars, signalVars, child, holders>>
      BY <1>8 DEF ChildWrite, Emit
    <2>2. InputKept'
      BY <2>1 DEF threadVars, TypeOK, Outputs, InputInv, InputKept
    <2>3. QED
      BY <2>1, <2>2, ExecAssumption
      DEF threadVars, TypeOK, Outputs, InputInv, StdinOpen, AllWritten, ExitAtEnd, Waiters
  <1>9. ASSUME NEW p \in Procs, ChildError(p) PROVE InputInv'
    BY <1>9, ExecAssumption DEF ChildError, Emit, threadVars, signalVars, childVars,
       TypeOK, Outputs, OutputInv, Asleep, Started, InputInv, Waiters, InputKept,
       StdinOpen, AllWritten, ExitAtEnd
  <1>10. ASSUME NEW p \in Procs, ChildExit(p) PROVE InputInv'
    BY <1>10, ExecAssumption DEF ChildExit, AtEnd, Sigchld,
       threadVars, signalVars, childVars, TypeOK, Outputs, OutputInv, Asleep, Started,
       InputInv, Waiters, InputKept, StdinOpen, AllWritten, ExitAtEnd
  <1>11. ASSUME NEW p \in Procs, WaitAgain(p) PROVE InputInv'
    BY <1>11, ExecAssumption DEF WaitAgain, Goto, threadVars, signalVars, childVars,
       TypeOK, Outputs, OutputInv, Asleep, Started, InputInv, Waiters, InputKept,
       StdinOpen, AllWritten, ExitAtEnd
  <1>12. ASSUME NEW p \in Procs, Collect(p) PROVE InputInv'
    BY <1>12, ExecAssumption DEF Collect, CleanUp, Goto,
       threadVars, signalVars, childVars, TypeOK, Outputs, OutputInv, Asleep, Started,
       InputInv, Waiters, InputKept, StdinOpen, AllWritten, ExitAtEnd
  <1>13. ASSUME NEW p \in Procs, Kill(p) PROVE InputInv'
    BY <1>13, ExecAssumption DEF Kill, Sigchld, threadVars, signalVars, childVars,
       TypeOK, Outputs, OutputInv, Asleep, Started, InputInv, Waiters, InputKept,
       StdinOpen, AllWritten, ExitAtEnd
  <1>14. ASSUME NEW p \in Procs, NEW timeout \in BOOLEAN,
                SignalTriggered(p, timeout)
        PROVE  InputInv'
    BY <1>14, ExecAssumption DEF SignalTriggered, Goto,
       threadVars, signalVars, childVars, TypeOK, Outputs, OutputInv, Asleep, Started,
       InputInv, Waiters, InputKept, StdinOpen, AllWritten, ExitAtEnd
  <1>15. CASE Activate
    BY <1>15, ExecAssumption DEF Activate, threadVars, signalVars, childVars, TypeOK,
       Outputs, OutputInv, Asleep, Started, InputInv, Waiters, InputKept, StdinOpen,
       AllWritten, ExitAtEnd
  <1>16. CASE UNCHANGED vars
    BY <1>16 DEF vars, threadVars, signalVars, childVars, TypeOK, Outputs, OutputInv,
       Asleep, Started, InputInv, Waiters, InputKept, StdinOpen, AllWritten, ExitAtEnd
  <1>17. QED
    BY <1>1, <1>2, <1>3, <1>4, <1>5, <1>6, <1>7, <1>8, <1>9, <1>10, <1>11, <1>12, <1>13,
       <1>14, <1>15, <1>16 DEF Next, Thread, Child

\* The data given to communicate() reaches a child that reads to the end of its
\* stdin once and completely, over any number of short writes and full pipes.
THEOREM ExecInputComplete == Spec => []InputComplete
  <1>1. TypeOK /\ OutputInv /\ InputInv => InputComplete
    <2> SUFFICES ASSUME TypeOK, OutputInv, InputInv,
                        NEW p \in Communicators \ (Quitters \cup Killed),
                        pc[p] \notin Reading, child[p] # "running"
                 PROVE  wrote[p]["out"] = data[p]
      BY Zenon DEF InputComplete
    <2>1. p \in Procs \ Waiters
      BY ExecAssumption DEF Waiters
    <2>2. child[p] \in {"none", "running", "zombie", "reaped"} /\ child[p] # "none"
      BY <2>1, Zenon DEF TypeOK, OutputInv, Started, Reading
    <2>3. left[p] = 0
      BY <2>1, Zenon DEF InputInv, AllWritten, Reading
    <2>4. pipe[p]["in"] = 0 /\ hold[p] = 0
      BY <2>2, Zenon DEF InputInv, ExitAtEnd
    <2>5. data[p] = left[p] + pipe[p]["in"] + hold[p] + wrote[p]["out"]
      BY <2>1, Zenon DEF InputInv, InputKept
    <2>6. wrote[p]["out"] \in Nat
      BY <2>1 DEF TypeOK, Outputs
    <2>7. QED
      BY <2>3, <2>4, <2>5, <2>6
  <1>2. QED
    BY <1>1, InitType, NextType, InitOutput, NextOutput, InitInput, NextInput, PTL DEF Spec

-----------------------------------------------------------------------------
(***************************************************************************)
(* What wait() returns.                                                    *)
(***************************************************************************)

\* Before start() no object has a status.
LEMMA InitStatus == Init => StatusInv
  BY ExecAssumption, SMTT(30) DEF Init, StatusInv, Asleep, Unstarted, KnownOrWaited, KnownUntilDone,
     StatusOwn

\* No step makes an object forget a child it has no status for.
LEMMA NextStatus ==
  ASSUME TypeOK, StatusInv, [Next]_vars
  PROVE  StatusInv'
  <1>1. ASSUME NEW p \in Procs, Start(p) PROVE StatusInv'
    BY <1>1, ExecAssumption, SMTT(30) DEF Start, Goto, threadVars, signalVars, childVars, TypeOK,
       StatusInv, Waiters, Asleep, Unstarted, KnownOrWaited, KnownUntilDone, StatusOwn
  <1>2. ASSUME NEW p \in Procs, Write(p) PROVE StatusInv'
    <2>1. pc[p] = "write" /\ running' \in {p, None} /\ WriteFrame
      BY <1>2, WriteCases
    <2>2. CASE Moves(p)
      <3>1. CASE UNCHANGED pc
        BY <2>1, <2>2, <3>1, ExecAssumption DEF Moves, WriteFrame, threadVars, signalVars,
           childVars, TypeOK, StatusInv, Asleep, Unstarted, KnownOrWaited, KnownUntilDone, StatusOwn
      <3>2. CASE left[p] = 0 /\ pc' = [pc EXCEPT ![p] = "close"]
        BY <2>1, <2>2, <3>2, ExecAssumption DEF Moves, WriteFrame, threadVars, signalVars,
           childVars, TypeOK, StatusInv, Asleep, Unstarted, KnownOrWaited, KnownUntilDone, StatusOwn
      <3>3. CASE child[p] # "running" /\ pc' = [pc EXCEPT ![p] = "error"]
        BY <2>1, <2>2, <3>3, ExecAssumption DEF Moves, WriteFrame, threadVars, signalVars,
           childVars, TypeOK, StatusInv, Asleep, Unstarted, KnownOrWaited, KnownUntilDone, StatusOwn
      <3>4. QED
        BY <2>2, <3>1, <3>2, <3>3 DEF Moves
    <2>3. ASSUME NEW k \in 1..left[p], Writes(p, k) PROVE StatusInv'
      BY <2>1, <2>3, ExecAssumption DEF Writes, WriteFrame,
         threadVars, signalVars, childVars, TypeOK, StatusInv, Waiters, Asleep,
         Unstarted, KnownOrWaited, KnownUntilDone, StatusOwn
    <2>4. QED
      BY <1>2, <2>2, <2>3, WriteCases
  <1>3. ASSUME NEW p \in Procs, CloseStdin(p) PROVE StatusInv'
    BY <1>3, ExecAssumption DEF CloseStdin, Goto, threadVars, signalVars, childVars,
       TypeOK, StatusInv, Waiters, Asleep, Unstarted, KnownOrWaited, KnownUntilDone,
       StatusOwn
  <1>4. ASSUME NEW p \in Procs, Wait(p) PROVE StatusInv'
    <2>1. pc[p] = "wait" /\ running' \in {running, None} /\ WaitFrame
      BY <1>4, WaitCases
    <2>2. ASSUME NEW phase \in {"timedout", "checked", "error"}, Returns(p, phase)
          PROVE  StatusInv'
      BY <2>1, <2>2, ExecAssumption DEF Returns, WaitFrame,
         threadVars, signalVars, childVars, TypeOK, StatusInv, Waiters, Asleep,
         Unstarted, KnownOrWaited, KnownUntilDone, StatusOwn
    <2>3. ASSUME NEW q \in Waited(p), Reaps(p, q) PROVE StatusInv'
      <3>1. \A r \in Procs \ Twice : status'[r] \in {None, r}
        <4>1. p \notin Twice => q = p
          BY <2>1, <2>3 DEF Waited, StatusInv, KnownUntilDone
        <4>2. QED
          BY <2>3, <4>1 DEF Reaps, TypeOK, StatusInv, StatusOwn
      <3>2. q \in Procs /\ q # None
        BY ExecAssumption DEF Waited
      <3>3. StatusOwn'
        <4>1. ASSUME group PROVE \E r \in Killed : status'[r] # None /\ ~known'[r]
          <5>1. PICK r \in Killed : status[r] # None /\ ~known[r]
            BY <4>1 DEF StatusInv, StatusOwn
          <5>2. status'[r] # None /\ ~known'[r]
            BY <2>3, <3>2, <5>1, ExecAssumption DEF Reaps, CleanUp, TypeOK
          <5>3. QED
            BY <5>2
        <4>2. QED
          BY <2>1, <3>1, <4>1 DEF WaitFrame, signalVars, StatusOwn
      <3>4. QED
        BY <2>1, <2>3, <3>2, <3>3, ExecAssumption
        DEF Reaps, CleanUp, WaitFrame, threadVars, signalVars, childVars, TypeOK, StatusInv,
            Asleep, Unstarted, KnownOrWaited, KnownUntilDone
    <2>4. QED
      BY <1>4, <2>2, <2>3, WaitCases
  <1>5. ASSUME NEW p \in Procs, Sigwait(p) PROVE StatusInv'
    BY <1>5, ExecAssumption DEF Sigwait, Goto, threadVars, signalVars, childVars,
       TypeOK, StatusInv, Waiters, Asleep, Unstarted, KnownOrWaited, KnownUntilDone,
       StatusOwn
  <1>6. ASSUME NEW p \in Procs, NEW f \in Outputs, Read(p, f)
        PROVE  StatusInv'
    <2>1. pc[p] = "read" /\ f \in files[p] /\ ReadFrame
      BY <1>6, ReadCases
    <2>2. UNCHANGED <<known, status, registered, group>>
      BY <2>1, Zenon DEF ReadFrame, signalVars
    <2>3. \A q \in Procs : pc'[q] = pc[q] \/ (pc[q] = "read" /\ pc'[q] = "wait")
      <3>1. CASE Leaves(p, f)
        <4>1. pc'[p] \in {"read", "wait"} /\ \A q \in Procs : q # p => pc'[q] = pc[q]
          BY <2>1, <3>1, LeavesMoves
        <4>2. QED
          BY <2>1, <4>1, Zenon
      <3>2. QED
        BY <1>6, <3>1, ReadCases, Zenon DEF Ends, Drops, Reads
    <2>4. registered \subseteq Procs
      BY Zenon DEF TypeOK
    <2>5. Asleep' /\ Unstarted'
      BY <2>2, <2>3, <2>4 DEF StatusInv, Asleep, Unstarted
    <2>6. KnownOrWaited' /\ KnownUntilDone'
      BY <2>2, <2>3 DEF StatusInv, KnownOrWaited, KnownUntilDone
    <2>7. QED
      BY <2>2, <2>5, <2>6, Zenon DEF StatusInv, StatusOwn
  <1>7. ASSUME NEW p \in Procs, ChildRead(p) PROVE StatusInv'
    BY <1>7, ExecAssumption DEF ChildRead, threadVars, signalVars, childVars, TypeOK,
       StatusInv, Waiters, Asleep, Unstarted, KnownOrWaited, KnownUntilDone, StatusOwn
  <1>8. ASSUME NEW p \in Procs, ChildWrite(p) PROVE StatusInv'
    BY <1>8, ExecAssumption DEF ChildWrite, Emit, threadVars, signalVars, childVars,
       TypeOK, StatusInv, Waiters, Asleep, Unstarted, KnownOrWaited, KnownUntilDone,
       StatusOwn
  <1>9. ASSUME NEW p \in Procs, ChildError(p) PROVE StatusInv'
    BY <1>9, ExecAssumption DEF ChildError, Emit, threadVars, signalVars, childVars,
       TypeOK, StatusInv, Waiters, Asleep, Unstarted, KnownOrWaited, KnownUntilDone,
       StatusOwn
  <1>10. ASSUME NEW p \in Procs, ChildExit(p) PROVE StatusInv'
    BY <1>10, ExecAssumption DEF ChildExit, AtEnd, Sigchld,
       threadVars, signalVars, childVars, TypeOK, StatusInv, Waiters, Asleep, Unstarted,
       KnownOrWaited, KnownUntilDone, StatusOwn
  <1>11. ASSUME NEW p \in Procs, WaitAgain(p) PROVE StatusInv'
    BY <1>11, ExecAssumption DEF WaitAgain, Goto, threadVars, signalVars, childVars,
       TypeOK, StatusInv, Waiters, Asleep, Unstarted, KnownOrWaited, KnownUntilDone,
       StatusOwn
  <1>12. ASSUME NEW p \in Procs, Collect(p) PROVE StatusInv'
    BY <1>12, ExecAssumption DEF Collect, CleanUp, Goto,
       threadVars, signalVars, childVars, TypeOK, StatusInv, Waiters, Asleep, Unstarted,
       KnownOrWaited, KnownUntilDone, StatusOwn
  <1>13. ASSUME NEW p \in Procs, Kill(p) PROVE StatusInv'
    BY <1>13, ExecAssumption DEF Kill, Sigchld, threadVars, signalVars, childVars,
       TypeOK, StatusInv, Waiters, Asleep, Unstarted, KnownOrWaited, KnownUntilDone,
       StatusOwn
  <1>14. ASSUME NEW p \in Procs, NEW timeout \in BOOLEAN,
                SignalTriggered(p, timeout)
        PROVE  StatusInv'
    BY <1>14, ExecAssumption DEF SignalTriggered, Goto,
       threadVars, signalVars, childVars, TypeOK, StatusInv, Waiters, Asleep, Unstarted,
       KnownOrWaited, KnownUntilDone, StatusOwn
  <1>15. CASE Activate
    BY <1>15, ExecAssumption DEF Activate, threadVars, signalVars, childVars, TypeOK,
       StatusInv, Waiters, Asleep, Unstarted, KnownOrWaited, KnownUntilDone, StatusOwn
  <1>16. CASE UNCHANGED vars
    BY <1>16 DEF vars, threadVars, signalVars, childVars, TypeOK, StatusInv, Waiters,
       Asleep, Unstarted, KnownOrWaited, KnownUntilDone, StatusOwn
  <1>17. QED
    BY <1>1, <1>2, <1>3, <1>4, <1>5, <1>6, <1>7, <1>8, <1>9, <1>10, <1>11, <1>12, <1>13,
       <1>14, <1>15, <1>16 DEF Next, Thread, Child

\* wait() returns the status of the object's own child, and kill() reaches it,
\* until a first wait() has returned.
THEOREM ExecStatusOwn == Spec => []StatusOwn
  <1>1. StatusInv => StatusOwn
    BY DEF StatusInv
  <1>2. QED
    BY <1>1, InitType, NextType, InitStatus, NextStatus, PTL DEF Spec

=============================================================================
