---------------------------- MODULE Process_proofs ----------------------------
(***************************************************************************)
(* The structure of a process is freed once, after the process has gone,   *)
(* and by somebody: proved for every number of processes that wait for     *)
(* their own children only.                                                *)
(***************************************************************************)
EXTENDS Process, Lists_proofs

Waiting == {"waitLock", "condWait", "reap"}
Leaving == {"leaveExiting", "leaveDying"}
Ended == Leaving \cup {"gone"}

\* Process p can reach the structure of its child c.
Knows(p, c) ==
  \/ Contains(childList[p], c)
  \/ target[p] = c
  \/ pc[p] = "started" /\ asked[p] = c

\* How the status, the frees and the parent of a process follow its life.
Life ==
  \A c \in Procs :
    /\ status[c] = "alive" <=> pc[c] # "gone"
    /\ frees[c] > 0 => pc[c] = "gone"
    /\ status[c] = "dying" => frees[c] > 0
    /\ pc[c] \in {"unborn", "loading", "leaveDying"} => ptid[c] = NULL

\* What a parent has at each place: a child it waits for is no longer in its
\* list, and one that it is still starting is not there yet.
Places ==
  \A p \in Procs :
    /\ Once(childList[p])
    /\ pc[p] \in Waiting <=> target[p] # NULL
    /\ pc[p] = "reap" => status[target[p]] = "exiting"
    /\ pc[p] = "started" => asked[p] # NULL
    /\ pc[p] \in Ended => childList[p] = <<>>
    /\ \A c \in Procs : Contains(childList[p], c) =>
         target[p] # c /\ ~(pc[p] = "started" /\ asked[p] = c)

\* The parent and nobody else reaches a structure, as long as it is not freed.
Family ==
  \A p, c \in Procs : Knows(p, c) <=> ptid[c] = p /\ frees[c] = 0

\* Without -mlfqs a process keeps its exit_lock until it has set its status.
Quiet ==
  ~mlfqs => \A c \in Procs :
    /\ pc[c] \in {"orphan"} \cup Leaving => exitLock[c] = c
    /\ pc[c] = "leaveExiting" => ptid[c] # NULL
    /\ status[c] = "exiting" /\ frees[c] = 0 => ptid[c] # NULL
    /\ pc[c] = "condWait" => pc[target[c]] \notin {"leaveExiting", "gone"}

IInv == TypeOK /\ Life /\ Places /\ Family /\ Quiet
-----------------------------------------------------------------------------

\* A new process has no parent yet; its creator waits for it.
LEMMA ExecuteStep ==
  ASSUME IInv, NEW p \in Procs, NEW c \in Procs, Execute(p, c)
  PROVE  IInv'
<1>1. TypeOK'
  BY DEF IInv, TypeOK, Execute
<1>2. Life'
  BY DEF IInv, TypeOK, Life, Execute
<1>3. Places'
  <2>1. /\ pc[p] = "run" /\ pc[c] = "unborn" /\ c # p
        /\ pc' = [pc EXCEPT ![p] = "startWait", ![c] = "loading"]
        /\ UNCHANGED <<childList, target, status>>
    BY DEF Execute
  <2>2. \A q \in Procs : /\ pc'[q] \in Waiting <=> pc[q] \in Waiting
                         /\ pc'[q] \in Ended <=> pc[q] \in Ended
                         /\ pc'[q] = "reap" <=> pc[q] = "reap"
                         /\ pc'[q] = "started" => pc[q] = "started" /\ asked'[q] = asked[q]
    BY <2>1 DEF Execute, IInv, TypeOK, Waiting, Leaving, Ended
  <2> SUFFICES ASSUME NEW q \in Procs
               PROVE  /\ Once(childList[q])
                      /\ pc'[q] \in Waiting <=> target[q] # NULL
                      /\ pc'[q] = "reap" => status[target[q]] = "exiting"
                      /\ pc'[q] = "started" => asked'[q] # NULL
                      /\ pc'[q] \in Ended => childList[q] = <<>>
                      /\ \A d \in Procs : Contains(childList[q], d) =>
                           target[q] # d /\ ~(pc'[q] = "started" /\ asked'[q] = d)
    BY <2>1 DEF Places
  <2> QED BY <2>2 DEF IInv, Places
<1>4. Family'
  BY DEF IInv, TypeOK, Family, Knows, Execute
<1>5. Quiet'
  BY DEF IInv, TypeOK, Life, Places, Family, Quiet, Waiting, Leaving, Ended, Execute
<1> QED BY <1>1, <1>2, <1>3, <1>4, <1>5 DEF IInv

\* The child learns its parent before the parent adds it to its list.
LEMMA StartStep ==
  ASSUME IInv, NEW p \in Procs, NEW c \in Procs, Start(p, c)
  PROVE  IInv'
<1>1. /\ ptid[c] = NULL /\ frees[c] = 0 /\ c # p
      /\ \A q \in Procs : ~Knows(q, c)
  <2>1. pc[p] = "startWait" /\ pc[c] = "loading"
    BY DEF Start
  <2>2. ptid[c] = NULL /\ ~(frees[c] > 0) /\ frees[c] \in {0, 1}
    BY <2>1 DEF IInv, TypeOK, Life
  <2>3. \A q \in Procs : Knows(q, c) => ptid[c] = q
    BY DEF IInv, Family
  <2> QED BY <2>1, <2>2, <2>3, ProcessAssumption
<1>2. /\ pc[p] = "startWait" /\ pc[c] = "loading" /\ asked[p] = c
      /\ UNCHANGED <<mlfqs, status, childList, exitLock, asked, target, frees>>
  BY DEF Start
<1>3. pc \in [Procs -> {"unborn", "loading", "run", "startWait", "started", "waitLock",
                       "condWait", "reap", "exitLock", "orphan", "leaveExiting",
                       "leaveDying", "gone"}]
  BY DEF IInv, TypeOK
<1>4. \A q \in Procs : target[q] = NULL \/ target[q] \in Procs
  BY DEF IInv, TypeOK
<1>5. CASE ptid' = [ptid EXCEPT ![c] = p] /\ pc' = [pc EXCEPT ![p] = "started", ![c] = "run"]
  <2>1. TypeOK'
    BY <1>5 DEF Start, IInv, TypeOK
  <2>2. Life'
    BY <1>1, <1>5, ProcessAssumption DEF Start, IInv, TypeOK, Life
  <2>3. Places'
    <3>1. \A q \in Procs : /\ pc'[q] \in Waiting <=> pc[q] \in Waiting
                           /\ pc'[q] \in Ended <=> pc[q] \in Ended
                           /\ pc'[q] = "reap" <=> pc[q] = "reap"
                           /\ pc'[q] = "started" => pc[q] = "started" \/ q = p
      BY <1>2, <1>3, <1>5 DEF Waiting, Leaving, Ended
    <3> QED BY <1>1, <1>2, <3>1, ProcessAssumption DEF IInv, Places, Knows
  <2>4. Family'
    BY <1>1, <1>5, ProcessAssumption DEF Start, IInv, TypeOK, Family, Knows
  <2>5. Quiet'
    <3>1. \A q \in Procs : /\ pc'[q] \in {"orphan"} \cup Leaving <=> pc[q] \in {"orphan"} \cup Leaving
                           /\ pc'[q] = "leaveExiting" <=> pc[q] = "leaveExiting"
                           /\ pc'[q] = "condWait" <=> pc[q] = "condWait"
                           /\ pc'[q] = "gone" <=> pc[q] = "gone"
      BY <1>2, <1>3, <1>5 DEF Leaving
    <3>2. \A q \in Procs : ptid[q] # NULL => ptid'[q] # NULL
      BY <1>5, ProcessAssumption DEF IInv, TypeOK
    <3>3. \A q \in Procs : pc[q] = "condWait" => target[q] \in Procs
      BY <1>4 DEF IInv, Places, Waiting
    <3> QED BY <1>2, <3>1, <3>2, <3>3 DEF IInv, Quiet
  <2> QED BY <2>1, <2>2, <2>3, <2>4, <2>5 DEF IInv
<1>6. CASE UNCHANGED ptid /\ pc' = [pc EXCEPT ![p] = "run", ![c] = "exitLock"]
  <2>1. TypeOK'
    BY <1>6 DEF Start, IInv, TypeOK
  <2>2. Life'
    BY <1>1, <1>6, ProcessAssumption DEF Start, IInv, TypeOK, Life
  <2>3. Places'
    <3>1. \A q \in Procs : /\ pc'[q] \in Waiting <=> pc[q] \in Waiting
                           /\ pc'[q] \in Ended <=> pc[q] \in Ended
                           /\ pc'[q] = "reap" <=> pc[q] = "reap"
                           /\ pc'[q] = "started" => pc[q] = "started"
      BY <1>2, <1>3, <1>6 DEF Waiting, Leaving, Ended
    <3> QED BY <1>1, <1>2, <3>1, ProcessAssumption DEF IInv, Places
  <2>4. Family'
    BY <1>1, <1>6, ProcessAssumption DEF Start, IInv, TypeOK, Family, Knows
  <2>5. Quiet'
    <3>1. \A q \in Procs : /\ pc'[q] \in {"orphan"} \cup Leaving <=> pc[q] \in {"orphan"} \cup Leaving
                           /\ pc'[q] = "leaveExiting" <=> pc[q] = "leaveExiting"
                           /\ pc'[q] = "condWait" <=> pc[q] = "condWait"
                           /\ pc'[q] = "gone" <=> pc[q] = "gone"
      BY <1>2, <1>3, <1>6 DEF Leaving
    <3>2. \A q \in Procs : ptid[q] # NULL => ptid'[q] # NULL
      BY <1>6, ProcessAssumption DEF IInv, TypeOK
    <3>3. \A q \in Procs : pc[q] = "condWait" => target[q] \in Procs
      BY <1>4 DEF IInv, Places, Waiting
    <3> QED BY <1>2, <3>1, <3>2, <3>3 DEF IInv, Quiet
  <2> QED BY <2>1, <2>2, <2>3, <2>4, <2>5 DEF IInv
<1> QED BY <1>5, <1>6 DEF Start

\* The child that process_execute waited for goes into the list.
LEMMA AdoptStep ==
  ASSUME IInv, NEW p \in Procs, Adopt(p)
  PROVE  IInv'
<1>1. /\ asked[p] \in Procs /\ Append(childList[p], asked[p]) \in Seq(Procs)
      /\ Once(Append(childList[p], asked[p]))
      /\ \A x : Contains(Append(childList[p], asked[p]), x) <=> Contains(childList[p], x) \/ x = asked[p]
  BY AppendOnce, ProcessAssumption DEF Adopt, IInv, TypeOK, Places
<1>2. TypeOK'
  BY <1>1 DEF IInv, TypeOK, Adopt, Goto, Touch
<1>3. Life'
  BY <1>1 DEF IInv, Life, Adopt, Goto
<1>4. Places'
  BY <1>1 DEF IInv, TypeOK, Places, Waiting, Leaving, Ended, Adopt, Goto
<1>5. Family'
  BY <1>1 DEF IInv, TypeOK, Family, Knows, Adopt, Goto
<1>6. Quiet'
  BY <1>1 DEF IInv, Quiet, Leaving, Adopt, Goto
<1> QED BY <1>2, <1>3, <1>4, <1>5, <1>6 DEF IInv

\* The child moves from the list to the locals of process_wait.
LEMMA WaitStep ==
  ASSUME ArbitraryWaits = FALSE, IInv, NEW p \in Procs, NEW c \in Procs, Wait(p, c)
  PROVE  IInv'
<1>1. /\ Contains(childList[p], c)
      /\ ChildrenWithout(p, c) \in Seq(Procs) /\ Once(ChildrenWithout(p, c))
      /\ \A x : Contains(ChildrenWithout(p, c), x) <=> Contains(childList[p], x) /\ x # c
  BY WithoutOnce, ProcessAssumption DEF Wait, IInv, TypeOK, Places, ChildrenWithout
<1>2. TypeOK'
  BY <1>1 DEF IInv, TypeOK, Wait, Goto
<1>3. Life'
  BY <1>1 DEF IInv, Life, Wait, Goto
<1>4. Places'
  BY <1>1 DEF IInv, TypeOK, Places, Waiting, Leaving, Ended, Wait, Goto
<1>5. Family'
  <2>1. /\ pc[p] = "run" /\ target[p] = NULL
        /\ pc' = [pc EXCEPT ![p] = "waitLock"]
        /\ target' = [target EXCEPT ![p] = c]
        /\ childList' = [childList EXCEPT ![p] = ChildrenWithout(p, c)]
        /\ UNCHANGED <<ptid, frees>>
    BY <1>1 DEF Wait, Goto, IInv, TypeOK, Places, Waiting
  <2>2. ASSUME NEW q \in Procs, NEW d \in Procs, q # p
        PROVE  Knows(q, d)' <=> Knows(q, d)
    BY <2>1, <2>2 DEF Wait, Knows, IInv, TypeOK
  <2>3. ASSUME NEW d \in Procs
        PROVE  Knows(p, d)' <=> Knows(p, d)
    BY <1>1, <2>1, ProcessAssumption DEF Knows, IInv, TypeOK
  <2> QED BY <2>1, <2>2, <2>3 DEF IInv, Family
<1>6. Quiet'
  BY <1>1 DEF IInv, Quiet, Leaving, Wait, Goto
<1> QED BY <1>2, <1>3, <1>4, <1>5, <1>6 DEF IInv

\* The parent goes on only if the child has set its status, and the child it
\* sleeps for has still to exit.
LEMMA CheckExitingStep ==
  ASSUME IInv, NEW p \in Procs, CheckExiting(p)
  PROVE  IInv'
<1>1. TypeOK'
  BY DEF IInv, TypeOK, CheckExiting, Goto, Touch
<1>2. Life'
  BY DEF IInv, Life, CheckExiting, Goto
<1>3. Places'
  BY DEF IInv, Places, Waiting, Leaving, Ended, CheckExiting, Goto
<1>4. Family'
  BY DEF IInv, Family, Knows, CheckExiting, Goto
<1>5. Quiet'
  BY DEF IInv, TypeOK, Life, Places, Family, Quiet, Knows, Waiting, Leaving, CheckExiting, Goto
<1> QED BY <1>1, <1>2, <1>3, <1>4, <1>5 DEF IInv

\* The parent frees the only structure it still refers to in process_wait.
LEMMA ReapStep ==
  ASSUME IInv, NEW p \in Procs, Reap(p)
  PROVE  IInv'
<1>1. TypeOK'
  BY DEF IInv, TypeOK, Places, Family, Knows, Waiting, Reap, Goto, Touch, Free
<1>2. Life'
  BY DEF IInv, Life, Places, Reap, Goto, Free
<1>3. Places'
  BY ProcessAssumption DEF IInv, TypeOK, Places, Waiting, Leaving, Ended, Reap, Goto
<1>4. Family'
  BY ProcessAssumption DEF IInv, TypeOK, Places, Family, Knows, Reap, Goto, Free
<1>5. Quiet'
  BY DEF IInv, TypeOK, Quiet, Leaving, Reap, Goto, Free
<1> QED BY <1>1, <1>2, <1>3, <1>4, <1>5 DEF IInv

\* A process that begins to exit keeps its children.
LEMMA ExitStep ==
  ASSUME IInv, NEW p \in Procs, Exit(p)
  PROVE  IInv'
<1>1. TypeOK'
  BY DEF IInv, TypeOK, Exit, Goto
<1>2. Life'
  BY DEF IInv, Life, Exit, Goto
<1>3. Places'
  BY DEF IInv, Places, Waiting, Leaving, Ended, Exit, Goto
<1>4. Family'
  BY DEF IInv, Family, Knows, Exit, Goto
<1>5. Quiet'
  BY DEF IInv, Quiet, Leaving, Exit, Goto
<1> QED BY <1>1, <1>2, <1>3, <1>4, <1>5 DEF IInv

\* The loop over the children runs under the process's own exit_lock.
LEMMA TakeExitLockStep ==
  ASSUME IInv, NEW p \in Procs, TakeExitLock(p)
  PROVE  IInv'
<1>1. TypeOK'
  BY DEF IInv, TypeOK, TakeExitLock, Goto
<1>2. Life'
  BY DEF IInv, Life, TakeExitLock, Goto
<1>3. Places'
  BY DEF IInv, Places, Waiting, Leaving, Ended, TakeExitLock, Goto
<1>4. Family'
  BY DEF IInv, Family, Knows, TakeExitLock, Goto
<1>5. Quiet'
  BY DEF IInv, TypeOK, Quiet, TakeExitLock, Goto
<1> QED BY <1>1, <1>2, <1>3, <1>4, <1>5 DEF IInv

\* A child that loses its parent is freed if it has set its status, and frees
\* itself otherwise.
LEMMA OrphanStep ==
  ASSUME IInv, NEW p \in Procs, Orphan(p)
  PROVE  IInv'
<1>1. /\ Head(childList[p]) \in Procs /\ Contains(childList[p], Head(childList[p]))
      /\ Tail(childList[p]) \in Seq(Procs) /\ Once(Tail(childList[p]))
      /\ \A x : Contains(Tail(childList[p]), x) <=> Contains(childList[p], x) /\ x # Head(childList[p])
  BY TailOnce DEF Orphan, IInv, TypeOK, Places
<1>2. frees[Head(childList[p])] = 0
  BY <1>1 DEF IInv, Family, Knows
<1>3. TypeOK'
  <2>1. /\ ptid' = [ptid EXCEPT ![Head(childList[p])] = NULL]
        /\ childList' = [childList EXCEPT ![p] = Tail(childList[p])]
        /\ UNCHANGED <<mlfqs, pc, status, exitLock, asked, target>>
    BY DEF Orphan
  <2>2. ptid' \in [Procs -> Procs \cup {NULL}] /\ childList' \in [Procs -> Seq(Procs)]
    BY <1>1, <2>1 DEF IInv, TypeOK
  <2>3. useAfterFree' \in BOOLEAN
    BY DEF Orphan, Touch
  <2>4. \/ frees' = frees
        \/ frees' = [frees EXCEPT ![Head(childList[p])] = frees[Head(childList[p])] + 1]
    BY DEF Orphan, Free
  <2>5. frees' \in [Procs -> {0, 1}]
    <3> DEFINE h == Head(childList[p])
    <3>1. h \in Procs /\ frees[h] = 0 /\ (frees' = frees \/ frees' = [frees EXCEPT ![h] = frees[h] + 1])
      BY <1>1, <1>2, <2>4
    <3>2. frees \in [Procs -> {0, 1}]
      BY DEF IInv, TypeOK
    <3> HIDE DEF h
    <3>3. frees[h] + 1 = 1
      BY <3>1
    <3> QED BY <3>1, <3>2, <3>3
  <2> QED BY <2>1, <2>2, <2>3, <2>5 DEF IInv, TypeOK
<1>4. Life'
  BY <1>1 DEF IInv, TypeOK, Life, Orphan, Free, FreesOrphan
<1>5. Places'
  BY <1>1 DEF IInv, Places, Orphan
<1>6. Family'
  BY <1>1, ProcessAssumption DEF IInv, TypeOK, Places, Family, Knows, Orphan, Free
<1>7. Quiet'
  BY <1>1, ProcessAssumption DEF IInv, TypeOK, Quiet, Leaving, Orphan, Free, FreesOrphan
<1> QED BY <1>3, <1>4, <1>5, <1>6, <1>7 DEF IInv

\* The process knows from its parent whether it must free itself, and wakes it.
LEMMA SignalParentStep ==
  ASSUME IInv, NEW p \in Procs, SignalParent(p)
  PROVE  IInv'
<1>1. TypeOK'
  BY DEF IInv, TypeOK, SignalParent
<1>2. Life'
  BY DEF IInv, Life, SignalParent
<1>3. Places'
  BY DEF IInv, Places, Waiting, Leaving, Ended, SignalParent
<1>4. Family'
  BY DEF IInv, Family, Knows, SignalParent
<1>5. Quiet'
  BY DEF IInv, TypeOK, Places, Quiet, Waiting, Leaving, SignalParent
<1> QED BY <1>1, <1>2, <1>3, <1>4, <1>5 DEF IInv

\* The status and the release of the lock appear at once.
LEMMA ReleaseAndLeaveStep ==
  ASSUME IInv, NEW p \in Procs, ReleaseAndLeave(p)
  PROVE  IInv'
<1>1. /\ pc[p] \in Leaving /\ status[p] = "alive" /\ frees[p] = 0
  BY DEF ReleaseAndLeave, IInv, TypeOK, Life, Leaving
<1>2. /\ pc' = [pc EXCEPT ![p] = "gone"]
      /\ status' = [status EXCEPT ![p] = IF pc[p] = "leaveExiting" THEN "exiting" ELSE "dying"]
      /\ IF pc[p] = "leaveExiting" THEN UNCHANGED frees ELSE frees' = [frees EXCEPT ![p] = @ + 1]
      /\ exitLock' = [exitLock EXCEPT ![p] = NULL]
      /\ UNCHANGED <<mlfqs, ptid, childList, asked, target, useAfterFree>>
  BY DEF ReleaseAndLeave, Leave, Free, Goto
<1>3. /\ pc[p] \in Leaving /\ status[p] = "alive" /\ frees[p] = 0
      /\ pc' = [pc EXCEPT ![p] = "gone"]
      /\ \/ /\ pc[p] = "leaveExiting"
            /\ status' = [status EXCEPT ![p] = "exiting"]
            /\ frees' = frees
         \/ /\ pc[p] = "leaveDying"
            /\ status' = [status EXCEPT ![p] = "dying"]
            /\ frees' = [frees EXCEPT ![p] = 1]
  <2>1. CASE pc[p] = "leaveExiting"
    BY <1>1, <1>2, <2>1
  <2>2. CASE pc[p] = "leaveDying"
    <3>1. frees' = [frees EXCEPT ![p] = frees[p] + 1]
      BY <1>2, <2>2
    <3>2. frees[p] + 1 = 1
      BY <1>1
    <3> QED BY <1>1, <1>2, <2>2, <3>1, <3>2
  <2> QED BY <1>1, <2>1, <2>2 DEF Leaving
<1>4. TypeOK'
  <2>1. frees' \in [Procs -> {0, 1}]
    BY <1>3 DEF IInv, TypeOK
  <2>2. /\ status' \in [Procs -> {"alive", "exiting", "dying"}]
        /\ exitLock' \in [Procs -> Procs \cup {NULL}]
    BY <1>2 DEF IInv, TypeOK
  <2> QED BY <1>2, <2>1, <2>2 DEF IInv, TypeOK
<1>5. Life'
  BY <1>3 DEF IInv, TypeOK, Life, ReleaseAndLeave
<1>6. Places'
  BY <1>3 DEF IInv, TypeOK, Places, Waiting, Ended, ReleaseAndLeave
<1>7. Family'
  BY <1>3, ProcessAssumption DEF IInv, TypeOK, Life, Family, Knows, ReleaseAndLeave
<1>8. Quiet'
  BY <1>3, ProcessAssumption DEF IInv, TypeOK, Life, Family, Quiet, Knows, Leaving, ReleaseAndLeave
<1> QED BY <1>4, <1>5, <1>6, <1>7, <1>8 DEF IInv

\* Only under -mlfqs is the lock released before the status is set.
LEMMA ReleaseAndYieldStep ==
  ASSUME IInv, NEW p \in Procs, ReleaseAndYield(p)
  PROVE  IInv'
<1>1. TypeOK'
  BY DEF IInv, TypeOK, ReleaseAndYield
<1>2. Life'
  BY DEF IInv, Life, ReleaseAndYield
<1>3. Places'
  BY DEF IInv, Places, ReleaseAndYield
<1>4. Family'
  BY DEF IInv, Family, Knows, ReleaseAndYield
<1>5. Quiet'
  BY DEF IInv, Quiet, ReleaseAndYield
<1> QED BY <1>1, <1>2, <1>3, <1>4, <1>5 DEF IInv

\* The status is set after the lock was released.
LEMMA LeaveLaterStep ==
  ASSUME IInv, NEW p \in Procs, LeaveLater(p)
  PROVE  IInv'
<1>1. /\ pc[p] \in Leaving /\ status[p] = "alive" /\ frees[p] = 0
  BY DEF LeaveLater, IInv, TypeOK, Life, Leaving
<1>2. /\ pc' = [pc EXCEPT ![p] = "gone"]
      /\ status' = [status EXCEPT ![p] = IF pc[p] = "leaveExiting" THEN "exiting" ELSE "dying"]
      /\ IF pc[p] = "leaveExiting" THEN UNCHANGED frees ELSE frees' = [frees EXCEPT ![p] = @ + 1]
      /\ UNCHANGED exitLock
      /\ UNCHANGED <<mlfqs, ptid, childList, asked, target, useAfterFree>>
  BY DEF LeaveLater, Leave, Free, Goto
<1>3. /\ pc[p] \in Leaving /\ status[p] = "alive" /\ frees[p] = 0
      /\ pc' = [pc EXCEPT ![p] = "gone"]
      /\ \/ /\ pc[p] = "leaveExiting"
            /\ status' = [status EXCEPT ![p] = "exiting"]
            /\ frees' = frees
         \/ /\ pc[p] = "leaveDying"
            /\ status' = [status EXCEPT ![p] = "dying"]
            /\ frees' = [frees EXCEPT ![p] = 1]
  <2>1. CASE pc[p] = "leaveExiting"
    BY <1>1, <1>2, <2>1
  <2>2. CASE pc[p] = "leaveDying"
    <3>1. frees' = [frees EXCEPT ![p] = frees[p] + 1]
      BY <1>2, <2>2
    <3>2. frees[p] + 1 = 1
      BY <1>1
    <3> QED BY <1>1, <1>2, <2>2, <3>1, <3>2
  <2> QED BY <1>1, <2>1, <2>2 DEF Leaving
<1>4. TypeOK'
  <2>1. frees' \in [Procs -> {0, 1}]
    BY <1>3 DEF IInv, TypeOK
  <2>2. /\ status' \in [Procs -> {"alive", "exiting", "dying"}]
        /\ exitLock' \in [Procs -> Procs \cup {NULL}]
    BY <1>2 DEF IInv, TypeOK
  <2> QED BY <1>2, <2>1, <2>2 DEF IInv, TypeOK
<1>5. Life'
  BY <1>3 DEF IInv, TypeOK, Life, LeaveLater
<1>6. Places'
  BY <1>3 DEF IInv, TypeOK, Places, Waiting, Ended, LeaveLater
<1>7. Family'
  BY <1>3, ProcessAssumption DEF IInv, TypeOK, Life, Family, Knows, LeaveLater
<1>8. Quiet'
  BY <1>3 DEF IInv, Quiet, LeaveLater
<1> QED BY <1>4, <1>5, <1>6, <1>7, <1>8 DEF IInv

-----------------------------------------------------------------------------
\* One process runs at the start, without a parent or children.
LEMMA InitIInv == Init => IInv
<1> SUFFICES ASSUME Init
             PROVE  IInv
  OBVIOUS
<1>1. TypeOK
  <2>1. <<>> \in Seq(Procs)
    OBVIOUS
  <2>2. childList \in [Procs -> Seq(Procs)]
    BY <2>1 DEF Init
  <2>3. pc \in [Procs -> {"unborn", "loading", "run", "startWait", "started", "waitLock",
                         "condWait", "reap", "exitLock", "orphan", "leaveExiting",
                         "leaveDying", "gone"}]
    BY DEF Init
  <2>4. /\ status \in [Procs -> {"alive", "exiting", "dying"}]
        /\ ptid \in [Procs -> Procs \cup {NULL}]
        /\ exitLock \in [Procs -> Procs \cup {NULL}]
        /\ asked \in [Procs -> Procs \cup {NULL}]
        /\ target \in [Procs -> Procs \cup {NULL}]
        /\ frees \in [Procs -> {0, 1}]
    BY DEF Init
  <2>5. mlfqs \in BOOLEAN /\ useAfterFree \in BOOLEAN
    BY DEF Init
  <2> QED BY <2>2, <2>3, <2>4, <2>5 DEF TypeOK
<1>2. ASSUME NEW p \in Procs, NEW c \in Procs
      PROVE  ~Knows(p, c)
  <2>1. childList[p] = <<>> /\ target[p] = NULL /\ pc[p] \in {"run", "unborn"}
    BY DEF Init
  <2>2. ~Contains(<<>>, c)
    BY EmptyOnce
  <2> QED BY <2>1, <2>2, ProcessAssumption DEF Knows
<1>3. Life /\ Family
  BY <1>2, ProcessAssumption DEF Init, Life, Family
<1>4. Places
  BY EmptyOnce, ProcessAssumption DEF Init, Places, Waiting
<1>5. Quiet
  BY ProcessAssumption DEF Init, Quiet, Leaving
<1> QED BY <1>1, <1>3, <1>4, <1>5 DEF IInv

\* The invariant holds as long as processes wait for their own children only.
THEOREM Invariance ==
  ASSUME ArbitraryWaits = FALSE
  PROVE  Spec => []IInv
<1>1. ASSUME IInv, Next
      PROVE  IInv'
  <2>1. PICK p \in Procs : \/ \E c \in Procs : Execute(p, c) \/ Wait(p, c)
                           \/ Exit(p)
                           \/ Step(p)
    BY <1>1 DEF Next
  <2>2. ASSUME NEW c \in Procs, Execute(p, c)
        PROVE  IInv'
    BY <1>1, <2>2, ExecuteStep
  <2>3. ASSUME NEW c \in Procs, Wait(p, c)
        PROVE  IInv'
    BY <1>1, <2>3, WaitStep
  <2>4. CASE Exit(p)
    BY <1>1, <2>4, ExitStep
  <2>5. CASE Step(p)
    BY <1>1, <2>5, StartStep, AdoptStep, CheckExitingStep, ReapStep, TakeExitLockStep,
       OrphanStep, SignalParentStep, ReleaseAndLeaveStep, ReleaseAndYieldStep, LeaveLaterStep
       DEF Step
  <2> QED BY <2>1, <2>2, <2>3, <2>4, <2>5
<1>2. ASSUME IInv, UNCHANGED vars
      PROVE  IInv'
  BY <1>2 DEF IInv, TypeOK, Life, Places, Family, Quiet, Knows, vars, procVars
<1>3. IInv /\ [Next]_vars => IInv'
  BY <1>1, <1>2
<1> QED BY InitIInv, <1>3, PTL DEF Spec

\* The variables have their types.
THEOREM TypeCorrect ==
  ASSUME ArbitraryWaits = FALSE
  PROVE  Spec => []TypeOK
<1>1. IInv => TypeOK
  BY DEF IInv
<1> QED BY <1>1, Invariance, PTL

\* A structure is freed at most once and not before its thread has left the CPU.
THEOREM FreedOnce ==
  ASSUME ArbitraryWaits = FALSE
  PROVE  Spec => []FreedOnceGone
<1>1. IInv => FreedOnceGone
  BY DEF IInv, TypeOK, Life, FreedOnceGone
<1> QED BY <1>1, Invariance, PTL

\* Without -mlfqs the structure of a process that has gone is freed, or its
\* parent runs and can reach it.
THEOREM NothingLeaks ==
  ASSUME ArbitraryWaits = FALSE
  PROVE  Spec => []NoLeak
<1>1. IInv => NoLeak
  <2> SUFFICES ASSUME IInv, ~mlfqs, NEW c \in Procs, pc[c] = "gone", ~(frees[c] > 0)
               PROVE  \E q \in Procs : /\ pc[q] # "gone"
                                       /\ \/ Contains(childList[q], c)
                                          \/ target[q] = c
                                          \/ pc[q] = "started" /\ asked[q] = c
    BY DEF NoLeak
  <2>1. frees[c] = 0 /\ status[c] = "exiting"
    BY DEF IInv, TypeOK, Life
  <2>2. ptid[c] \in Procs
    BY <2>1 DEF IInv, TypeOK, Quiet
  <2>3. Knows(ptid[c], c)
    BY <2>1, <2>2 DEF IInv, Family
  <2>4. pc[ptid[c]] # "gone"
    <3>1. SUFFICES ASSUME pc[ptid[c]] = "gone"
                   PROVE  FALSE
      OBVIOUS
    <3>2. childList[ptid[c]] = <<>> /\ target[ptid[c]] = NULL
      BY <2>2, <3>1 DEF IInv, Places, Waiting, Ended
    <3> QED BY <2>3, <3>1, <3>2, EmptyOnce, ProcessAssumption DEF Knows
  <2> QED BY <2>2, <2>3, <2>4 DEF Knows
<1> QED BY <1>1, Invariance, PTL

\* Without -mlfqs nobody sleeps for a child that is past its signal.
THEOREM NoneStranded ==
  ASSUME ArbitraryWaits = FALSE
  PROVE  Spec => []NoStrandedParent
<1>1. IInv => NoStrandedParent
  BY DEF IInv, Quiet, NoStrandedParent
<1> QED BY <1>1, Invariance, PTL
===============================================================================
