------------------------------- MODULE Process -------------------------------
(***************************************************************************)
(* Processes as parents and children: process_execute, start_process,      *)
(* process_wait and process_exit of userprog/process.c.  The structure of  *)
(* a thread outlives the thread if a parent may still ask for its exit     *)
(* status; the parent and the child decide under the child's exit_lock     *)
(* which of them frees it.                                                 *)
(***************************************************************************)
EXTENDS Lists

CONSTANTS
  Procs,          \* process structures
  Root,           \* the first process, which nobody waits for
  ArbitraryWaits, \* whether processes wait for tids that are not their children
  NULL

ASSUME ProcessAssumption ==
  /\ Root \in Procs
  /\ NULL \notin Procs
  /\ ArbitraryWaits \in BOOLEAN

VARIABLES
  mlfqs,       \* thread_mlfqs, set at boot: without it all processes have
               \* PRI_DEFAULT, with it a wakened thread can outrank its waker
  pc,          \* where each process is in the functions above
  status,      \* struct thread: status, as far as exiting is concerned
  ptid,        \* struct thread: ptid
  childList,   \* struct thread: child_list
  exitLock,    \* holder of struct thread: exit_lock
  asked,       \* argument of process_wait or result of thread_create
  target,      \* the child that process_wait has picked
  frees,       \* times each structure was freed
  useAfterFree \* whether a structure was accessed after it was freed

procVars == <<pc, status, ptid, childList, exitLock, asked, target>>
vars == <<mlfqs, procVars, frees, useAfterFree>>

-----------------------------------------------------------------------------
Init ==
  /\ mlfqs \in BOOLEAN
  /\ pc = [p \in Procs |-> IF p = Root THEN "run" ELSE "unborn"]
  /\ status = [p \in Procs |-> "alive"]
  /\ ptid = [p \in Procs |-> NULL]
  /\ childList = [p \in Procs |-> <<>>]
  /\ exitLock = [p \in Procs |-> NULL]
  /\ asked = [p \in Procs |-> NULL]
  /\ target = [p \in Procs |-> NULL]
  /\ frees = [p \in Procs |-> 0]
  /\ useAfterFree = FALSE

Goto(p, loc) == pc' = [pc EXCEPT ![p] = loc]

\* palloc_free_page of a thread structure.
Free(c) == frees' = [frees EXCEPT ![c] = @ + 1]

\* An access to the structure of c.
Touch(c) == useAfterFree' = (useAfterFree \/ frees[c] > 0)

-----------------------------------------------------------------------------
(* process_execute and start_process *)

Execute(p, c) ==
  /\ pc[p] = "run"
  /\ pc[c] = "unborn"
  /\ pc' = [pc EXCEPT ![p] = "startWait", ![c] = "loading"]
  /\ asked' = [asked EXCEPT ![p] = c]
  /\ UNCHANGED <<mlfqs, status, ptid, childList, exitLock, target, frees, useAfterFree>>

\* start_process up to its sema_up: load succeeds and the child learns its
\* parent, or it fails and the child exits without one.
Start(p, c) ==
  /\ pc[p] = "startWait"
  /\ asked[p] = c
  /\ pc[c] = "loading"
  /\ \/ /\ ptid' = [ptid EXCEPT ![c] = p]
        /\ pc' = [pc EXCEPT ![p] = "started", ![c] = "run"]
     \/ /\ pc' = [pc EXCEPT ![p] = "run", ![c] = "exitLock"]
        /\ UNCHANGED ptid
  /\ UNCHANGED <<mlfqs, status, childList, exitLock, asked, target, frees, useAfterFree>>

\* process_execute goes on: the child, which may have exited by now, is added
\* to the child list.
Adopt(p) ==
  /\ pc[p] = "started"
  /\ Goto(p, "run")
  /\ childList' = [childList EXCEPT ![p] = Append(@, asked[p])]
  /\ Touch(asked[p])
  /\ UNCHANGED <<mlfqs, status, ptid, exitLock, asked, target, frees>>

-----------------------------------------------------------------------------
(* process_wait *)

\* Mutant: list_remove is forgotten.
ChildrenKept(p, c) == childList[p]

\* The children of p after process_wait has picked c.
ChildrenWithout(p, c) ==
  IF Contains(childList[p], c) THEN Without(childList[p], c) ELSE childList[p]

\* The search: when no child has the tid the loop leaves the last child of the
\* list in `child', and only an empty list gives NULL and the result -1.
Wait(p, c) ==
  LET list == childList[p]
  IN  /\ pc[p] = "run"
      /\ ArbitraryWaits \/ Contains(list, c)
      /\ list # <<>>
      /\ asked' = [asked EXCEPT ![p] = c]
      /\ target' = [target EXCEPT ![p] = IF Contains(list, c) THEN c ELSE Last(list)]
      /\ childList' = [childList EXCEPT ![p] = ChildrenWithout(p, c)]
      /\ Goto(p, "waitLock")
      /\ UNCHANGED <<mlfqs, status, ptid, exitLock, frees, useAfterFree>>

\* Mutant: the status is read without the exit_lock.
CheckExitingUnlocked(p) ==
  LET c == target[p]
  IN  /\ pc[p] = "waitLock"
      /\ Goto(p, IF status[c] = "exiting" THEN "reap" ELSE "condWait")
      /\ Touch(c)
      /\ UNCHANGED <<mlfqs, status, ptid, childList, exitLock, asked, target, frees>>

\* Mutant: the parent goes on without waiting for the child.
CheckExitingNot(p) ==
  LET c == target[p]
  IN  /\ pc[p] = "waitLock"
      /\ exitLock[c] = NULL
      /\ Goto(p, "reap")
      /\ Touch(c)
      /\ UNCHANGED <<mlfqs, status, ptid, childList, exitLock, asked, target, frees>>

\* With the exit_lock of the child: go on if it is exiting, wait for its signal
\* (which releases the lock) if it is not.
CheckExiting(p) ==
  LET c == target[p]
  IN  /\ pc[p] = "waitLock"
      /\ exitLock[c] = NULL
      /\ Goto(p, IF status[c] = "exiting" THEN "reap" ELSE "condWait")
      /\ Touch(c)
      /\ UNCHANGED <<mlfqs, status, ptid, childList, exitLock, asked, target, frees>>

\* The exit status is read and the structure freed.
Reap(p) ==
  /\ pc[p] = "reap"
  /\ Goto(p, "run")
  /\ Touch(target[p])
  /\ Free(target[p])
  /\ target' = [target EXCEPT ![p] = NULL]
  /\ asked' = [asked EXCEPT ![p] = NULL]
  /\ UNCHANGED <<mlfqs, status, ptid, childList, exitLock>>

-----------------------------------------------------------------------------
(* process_exit and the end of thread_exit *)

Exit(p) ==
  /\ pc[p] = "run"
  /\ Goto(p, "exitLock")
  /\ UNCHANGED <<mlfqs, status, ptid, childList, exitLock, asked, target, frees, useAfterFree>>

TakeExitLock(p) ==
  /\ pc[p] = "exitLock"
  /\ exitLock[p] = NULL
  /\ exitLock' = [exitLock EXCEPT ![p] = p]
  /\ Goto(p, "orphan")
  /\ UNCHANGED <<mlfqs, status, ptid, childList, asked, target, frees, useAfterFree>>

\* Mutant: nobody frees the structure of an orphan that has exited.
FreesOrphanNever(c) == FALSE

\* Whether the structure of an orphan is freed by its parent.
FreesOrphan(c) == status[c] = "exiting"

\* One turn of the loop over the children, under the child's exit_lock.  The
\* lock and the list element are in the structure that may just have been freed.
\* A build with assertions fills the freed page with 0xcc and panics in
\* lock_release; the loop goes on here as it does with NDEBUG.
Orphan(p) ==
  LET c == Head(childList[p])
  IN  /\ pc[p] = "orphan"
      /\ childList[p] # <<>>
      /\ exitLock[c] = NULL
      /\ ptid' = [ptid EXCEPT ![c] = NULL]
      /\ IF FreesOrphan(c)
         THEN Free(c) /\ useAfterFree' = TRUE
         ELSE Touch(c) /\ UNCHANGED frees
      /\ childList' = [childList EXCEPT ![p] = Tail(@)]
      /\ UNCHANGED <<mlfqs, pc, status, exitLock, asked, target>>

\* cond_signal to the parent, if it has not exited.
SignalParent(p) ==
  /\ pc[p] = "orphan"
  /\ childList[p] = <<>>
  /\ pc' = [q \in Procs |->
       IF q = p THEN IF ptid[p] # NULL THEN "leaveExiting" ELSE "leaveDying"
       ELSE IF ptid[p] # NULL /\ pc[q] = "condWait" /\ target[q] = p THEN "waitLock"
       ELSE pc[q]]
  /\ UNCHANGED <<mlfqs, status, ptid, childList, exitLock, asked, target, frees, useAfterFree>>

\* The new status, and for a dying thread the schedule that frees it.
Leave(p, leaving) ==
  /\ status' = [status EXCEPT ![p] = IF leaving = "leaveExiting" THEN "exiting" ELSE "dying"]
  /\ IF leaving = "leaveExiting" THEN UNCHANGED frees ELSE Free(p)
  /\ Goto(p, "gone")

\* With interrupts off: release the lock, set the status and switch away.
ReleaseAndLeave(p) ==
  /\ pc[p] \in {"leaveExiting", "leaveDying"}
  /\ exitLock[p] = p
  /\ exitLock' = [exitLock EXCEPT ![p] = NULL]
  /\ Leave(p, pc[p])
  /\ UNCHANGED <<mlfqs, ptid, childList, asked, target, useAfterFree>>

\* lock_release switches to a thread that waits for the lock and outranks p.
ReleaseAndYield(p) ==
  /\ pc[p] \in {"leaveExiting", "leaveDying"}
  /\ exitLock[p] = p
  /\ mlfqs
  /\ \E q \in Procs : \/ pc[q] = "waitLock" /\ target[q] = p
                      \/ pc[q] = "orphan" /\ childList[q] # <<>> /\ Head(childList[q]) = p
  /\ exitLock' = [exitLock EXCEPT ![p] = NULL]
  /\ UNCHANGED <<mlfqs, pc, status, ptid, childList, asked, target, frees, useAfterFree>>

LeaveLater(p) ==
  /\ pc[p] \in {"leaveExiting", "leaveDying"}
  /\ exitLock[p] # p
  /\ Leave(p, pc[p])
  /\ UNCHANGED <<mlfqs, ptid, childList, exitLock, asked, target, useAfterFree>>

Step(p) ==
  \/ \E c \in Procs : Start(p, c)
  \/ Adopt(p)
  \/ CheckExiting(p)
  \/ Reap(p)
  \/ TakeExitLock(p)
  \/ Orphan(p)
  \/ SignalParent(p)
  \/ ReleaseAndLeave(p)
  \/ ReleaseAndYield(p)
  \/ LeaveLater(p)

Next ==
  \E p \in Procs : \/ \E c \in Procs : Execute(p, c) \/ Wait(p, c)
                   \/ Exit(p)
                   \/ Step(p)

Spec == Init /\ [][Next]_vars

\* Runnable threads run, and programs end.
FairSpec == Spec /\ \A p \in Procs : WF_vars(Step(p)) /\ WF_vars(Exit(p))

-----------------------------------------------------------------------------
(* Properties.                                                             *)

TypeOK ==
  /\ mlfqs \in BOOLEAN
  /\ pc \in [Procs -> {"unborn", "loading", "run", "startWait", "started", "waitLock",
                       "condWait", "reap", "exitLock", "orphan", "leaveExiting",
                       "leaveDying", "gone"}]
  /\ status \in [Procs -> {"alive", "exiting", "dying"}]
  /\ ptid \in [Procs -> Procs \cup {NULL}]
  /\ childList \in [Procs -> Seq(Procs)]
  /\ exitLock \in [Procs -> Procs \cup {NULL}]
  /\ asked \in [Procs -> Procs \cup {NULL}]
  /\ target \in [Procs -> Procs \cup {NULL}]
  /\ frees \in [Procs -> {0, 1}]
  /\ useAfterFree \in BOOLEAN

\* "It's safe to free the child since it's no longer running and will never be
\* rescheduled" (process_wait): nobody frees a structure before its thread has
\* left the CPU for good, and nobody frees it twice.
FreedOnceGone ==
  \A p \in Procs : frees[p] > 0 => frees[p] = 1 /\ pc[p] = "gone"

\* No structure is left behind: that of a process that has gone is freed, or a
\* process that still runs will come across it.  (Under -mlfqs a parent can come across
\* the child before the child has set its last status, and leave it behind.)
NoLeak ==
  ~mlfqs => \A p \in Procs : pc[p] = "gone" =>
    \/ frees[p] > 0
    \/ \E q \in Procs : /\ pc[q] # "gone"
                        /\ \/ Contains(childList[q], p)
                           \/ target[q] = p
                           \/ pc[q] = "started" /\ asked[q] = p

\* A parent sleeps for a child only while the child can still signal it, as long
\* as no thread outranks another.
NoStrandedParent ==
  ~mlfqs => \A p \in Procs : pc[p] = "condWait" => pc[target[p]] \notin {"leaveExiting", "gone"}

\* "Waits for thread TID to die and returns its exit status" (process_wait): a
\* parent that waits for a child goes on once the child has ended.
WaitReturns ==
  \A p \in Procs : (pc[p] \in {"waitLock", "condWait", "reap"}) ~> (pc[p] = "run")

\* process_wait does return when all processes have the same priority.
WaitReturnsAmongEquals ==
  \A p \in Procs :
    (~mlfqs /\ pc[p] \in {"waitLock", "condWait", "reap"}) ~> (pc[p] = "run")

\* "If TID is invalid or if it was not a child of the calling process ...
\* returns -1 immediately, without waiting" (process_wait).
WaitsForAsked ==
  \A p \in Procs : pc[p] \in {"waitLock", "condWait", "reap"} => target[p] = asked[p]

\* "It's safe to free an exited child's stack" (process_exit): no structure is
\* used after it was freed.
NoUseAfterFree == ~useAfterFree
=============================================================================
