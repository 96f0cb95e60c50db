------------------------------ MODULE FtTimer ------------------------------
(***************************************************************************)
(* The timer service of ikcc_service (ft_timer.c).  Armed timers wait in   *)
(* timer_vec0.  The tick thread counts jiffies and moves expired timers to *)
(* run_queue, posting run_sem for each; the handle thread waits for        *)
(* run_sem, then pops and runs timers until run_queue is empty.  A timer's *)
(* function may call add_timer again, as in the example at the head of the *)
(* file.  The lists are changed under timer_vec0.lock, which the tick      *)
(* thread holds for a whole scan; but add_timer and del_timer first ask    *)
(* WITHOUT the lock whether the timer is linked at all.                    *)
(***************************************************************************)
EXTENDS Integers, Sequences

CONSTANTS
  Timer,     \* the timers, all initialised with init_timer
  None,      \* the NULL that POP_FROMQUEUE yields for an empty queue
  Rearming,  \* timers whose function calls add_timer on the timer itself
  Restarted, \* timers that a user thread adds again while they are armed
  NoFunc,    \* timers added without a function
  Timeouts,  \* values of timeout*FT_TIMER_HZ/1000, in jiffies
  MaxAdds    \* bound on the calls of add_timer for one timer

ASSUME TimerAssumption ==
  /\ None \notin Timer
  /\ Rearming \subseteq Timer /\ Restarted \subseteq Timer /\ NoFunc \subseteq Timer
  /\ Timeouts \subseteq Nat
  /\ MaxAdds \in Nat

VARIABLES
  timer_vec0, run_queue, run_sem, timer_tick,
  expires,     \* time_expires of each timer
  tick, scan,  \* tick thread: "wait" or "scan", and its position in timer_vec0
  moving,      \* the timer the tick thread has taken out and not yet put in
  handle, pos, \* handle thread: its stage, and the timer it has popped
  call,        \* the call of add_timer or del_timer that a thread is in
  adds, runs   \* history: insertions and executions of each timer

vars == <<timer_vec0, run_queue, run_sem, timer_tick, expires, tick, scan, moving,
          handle, pos, call, adds, runs>>

\* A call is about to unlink the timer, or about to insert it.
Thread == {"user", "handle"}
NoCall == [op |-> "none", t |-> None, at |-> "none"]
Call == {NoCall} \cup [op : {"add", "del"}, t : Timer, at : {"unlink", "insert"}]

TypeOK ==
  /\ timer_vec0 \in Seq(Timer) /\ run_queue \in Seq(Timer)
  /\ run_sem \in Nat /\ timer_tick \in Nat
  /\ expires \in [Timer -> Nat]
  /\ tick \in {"wait", "scan"} /\ scan \in Nat \ {0}
  /\ moving \in Timer \cup {None} /\ (moving # None => tick = "scan")
  /\ handle \in {"wait", "pop1", "pop2", "run"}
  /\ pos \in Timer \cup {None} /\ (handle = "run" => pos \in Timer)
  /\ call \in [Thread -> Call]
  /\ adds \in [Timer -> Nat] /\ runs \in [Timer -> Nat]

In(s, t) == \E i \in 1..Len(s) : s[i] = t

\* s without its i-th element, and without the (first) occurrence of t.
RemoveNth(s, i) == SubSeq(s, 1, i - 1) \o SubSeq(s, i + 1, Len(s))
Unlink(s, t) == IF In(s, t) THEN RemoveNth(s, CHOOSE i \in 1..Len(s) : s[i] = t) ELSE s

Init ==
  /\ timer_vec0 = <<>> /\ run_queue = <<>> /\ run_sem = 1 /\ timer_tick = 0
  /\ expires = [t \in Timer |-> 0]
  /\ tick = "wait" /\ scan = 1 /\ moving = None
  /\ handle = "wait" /\ pos = None /\ call = [th \in Thread |-> NoCall]
  /\ adds = [t \in Timer |-> 0] /\ runs = [t \in Timer |-> 0]

\* A timer is linked at most once: add_timer never calls list_add on a timer that is
\* linked already, which would leave both lists with dangling ends.
LinkedOnce ==
  LET both == timer_vec0 \o run_queue
  IN \A i, j \in 1..Len(both) : both[i] = both[j] => i = j

\* timer_vec0.lock is free, and the lists can be walked.  What the process does with
\* damaged lists is not modelled.
Unlocked == tick # "scan" /\ LinkedOnce

-----------------------------------------------------------------------------
(* add_timer and del_timer.                                                *)

\* The timer is linked (list.prev is not NULL).  init_timer links a timer to itself;
\* unlinking such a timer changes nothing, and is left out.
__timer_pending(t) == In(timer_vec0, t) \/ In(run_queue, t)

\* A thread calls add_timer or del_timer: the test without the lock decides whether
\* __del_timer takes the lock at all.
Enter(th, op, t) ==
  /\ call' = [call EXCEPT ![th] =
       IF __timer_pending(t) THEN [op |-> op, t |-> t, at |-> "unlink"]
       ELSE IF op = "add" THEN [op |-> op, t |-> t, at |-> "insert"]
       ELSE NoCall]

\* Where a timer can be on its way from add_timer to its function.
Armed(t) == __timer_pending(t) \/ moving = t \/ (handle = "run" /\ pos = t)

\* What the user thread does with its timers: one that its own function re-arms is
\* added once, as in the example of ft_timer.c; only Restarted timers are added
\* while they are armed.
MayAdd(t) ==
  /\ adds[t] < MaxAdds
  /\ adds[t] = 0 \/ (t \notin Rearming /\ (t \in Restarted \/ ~Armed(t)))

add_timer ==
  /\ call["user"] = NoCall
  /\ \E t \in Timer : MayAdd(t) /\ Enter("user", "add", t)
  /\ UNCHANGED <<timer_vec0, run_queue, run_sem, timer_tick, expires, tick, scan, moving,
                 handle, pos, adds, runs>>

del_timer ==
  /\ call["user"] = NoCall
  /\ \E t \in Timer : Enter("user", "del", t)
  /\ UNCHANGED <<timer_vec0, run_queue, run_sem, timer_tick, expires, tick, scan, moving,
                 handle, pos, adds, runs>>

\* The critical section of __del_timer, which tests again: unlink the timer from
\* whichever list it is in.  run_sem keeps the count of one taken out of run_queue.
__del_timer(th) ==
  /\ call[th].at = "unlink" /\ Unlocked
  /\ timer_vec0' = Unlink(timer_vec0, call[th].t)
  /\ run_queue' = Unlink(run_queue, call[th].t)
  /\ call' = [call EXCEPT ![th] = IF @.op = "add" THEN [@ EXCEPT !.at = "insert"] ELSE NoCall]
  /\ UNCHANGED <<run_sem, timer_tick, expires, tick, scan, moving, handle, pos, adds, runs>>

\* The critical section of add_timer.
Insert(th) ==
  /\ call[th].at = "insert" /\ Unlocked
  /\ \E d \in Timeouts : expires' = [expires EXCEPT ![call[th].t] = timer_tick + d]
  /\ timer_vec0' = <<call[th].t>> \o timer_vec0
  /\ adds' = [adds EXCEPT ![call[th].t] = @ + 1]
  /\ call' = [call EXCEPT ![th] = NoCall]
  /\ UNCHANGED <<run_queue, run_sem, timer_tick, tick, scan, moving, handle, pos, runs>>

-----------------------------------------------------------------------------
(* The tick thread.  Time only passes while a timer is armed: the jiffies    *)
(* counted while timer_vec0 is empty would shift every later expiry equally. *)

Tick ==
  /\ Unlocked /\ timer_vec0 # <<>>
  /\ timer_tick' = timer_tick + 1
  /\ tick' = "scan" /\ scan' = 1
  /\ UNCHANGED <<timer_vec0, run_queue, run_sem, expires, moving, handle, pos, call, adds, runs>>

\* The test of the scan.
Expired(t) == timer_tick > expires[t]

\* Mutant: the lock is not released at the end of the scan.
ScanKeepsLock ==
  /\ tick = "scan" /\ moving = None
  /\ \/ scan > Len(timer_vec0) /\ UNCHANGED <<tick, scan>>
     \/ /\ scan <= Len(timer_vec0) /\ ~Expired(timer_vec0[scan])
        /\ scan' = scan + 1 /\ UNCHANGED tick
  /\ UNCHANGED <<timer_vec0, run_queue, run_sem, timer_tick, expires, moving, handle, pos,
                 call, adds, runs>>

\* A turn of the scan that finds nothing to move; at the end the lock is released.
Scan ==
  /\ tick = "scan" /\ moving = None
  /\ \/ scan > Len(timer_vec0) /\ tick' = "wait" /\ UNCHANGED scan
     \/ /\ scan <= Len(timer_vec0) /\ ~Expired(timer_vec0[scan])
        /\ scan' = scan + 1 /\ UNCHANGED tick
  /\ UNCHANGED <<timer_vec0, run_queue, run_sem, timer_tick, expires, moving, handle, pos,
                 call, adds, runs>>

\* Mutant: the expired timer is not unlinked.
CopyExpired ==
  /\ tick = "scan" /\ moving = None
  /\ scan <= Len(timer_vec0) /\ Expired(timer_vec0[scan])
  /\ moving' = timer_vec0[scan]
  /\ scan' = scan + 1
  /\ UNCHANGED <<timer_vec0, run_queue, run_sem, timer_tick, expires, tick, handle, pos,
                 call, adds, runs>>

\* list_del of an expired timer: until it is in run_queue, list.prev is NULL.
TakeExpired ==
  /\ tick = "scan" /\ moving = None
  /\ scan <= Len(timer_vec0) /\ Expired(timer_vec0[scan])
  /\ moving' = timer_vec0[scan]
  /\ timer_vec0' = RemoveNth(timer_vec0, scan)
  /\ UNCHANGED <<run_queue, run_sem, timer_tick, expires, tick, scan, handle, pos,
                 call, adds, runs>>

\* Mutant: run_sem is not posted.
MoveUnposted ==
  /\ moving # None
  /\ run_queue' = Append(run_queue, moving) /\ moving' = None
  /\ UNCHANGED <<timer_vec0, run_sem, timer_tick, expires, tick, scan, handle, pos, call, adds, runs>>

\* PUSH_ENQUEUE and SEM_POST.
MoveToRunQueue ==
  /\ moving # None
  /\ run_queue' = Append(run_queue, moving) /\ moving' = None
  /\ run_sem' = run_sem + 1
  /\ UNCHANGED <<timer_vec0, timer_tick, expires, tick, scan, handle, pos, call, adds, runs>>

-----------------------------------------------------------------------------
(* The handle thread.                                                      *)

\* SEM_WAIT on run_sem.
SemWait ==
  /\ handle = "wait" /\ run_sem > 0
  /\ run_sem' = run_sem - 1
  /\ handle' = "pop1"
  /\ UNCHANGED <<timer_vec0, run_queue, timer_tick, expires, tick, scan, moving, pos, call, adds, runs>>

\* Mutant: the timer is read but stays in run_queue.
PopKeeps ==
  /\ handle \in {"pop1", "pop2"} /\ Unlocked /\ call["handle"] = NoCall
  /\ IF run_queue = <<>>
     THEN pos' = None /\ handle' = "wait" /\ UNCHANGED run_queue
     ELSE /\ pos' = Head(run_queue) /\ UNCHANGED run_queue
          /\ handle' = IF Head(run_queue) \in NoFunc THEN "wait" ELSE "run"
  /\ UNCHANGED <<timer_vec0, run_sem, timer_tick, expires, tick, scan, moving, call, adds, runs>>

\* POP_FROMQUEUE, before ("pop1") and inside ("pop2") the loop, once the function
\* called has returned.  A timer without a function ends the loop as an empty queue
\* does.
Pop ==
  /\ handle \in {"pop1", "pop2"} /\ Unlocked /\ call["handle"] = NoCall
  /\ IF run_queue = <<>>
     THEN pos' = None /\ handle' = "wait" /\ UNCHANGED run_queue
     ELSE /\ pos' = Head(run_queue) /\ run_queue' = Tail(run_queue)
          /\ handle' = IF Head(run_queue) \in NoFunc THEN "wait" ELSE "run"
  /\ UNCHANGED <<timer_vec0, run_sem, timer_tick, expires, tick, scan, moving, call, adds, runs>>

\* pos->func is called; that of a re-arming timer calls add_timer.
Run ==
  /\ handle = "run" /\ handle' = "pop2"
  /\ runs' = [runs EXCEPT ![pos] = @ + 1]
  /\ IF pos \in Rearming /\ adds[pos] < MaxAdds
     THEN Enter("handle", "add", pos)
     ELSE UNCHANGED call
  /\ UNCHANGED <<timer_vec0, run_queue, run_sem, timer_tick, expires, tick, scan, moving, pos, adds>>

HandleThread == SemWait \/ Pop \/ Run
TickThread == Tick \/ Scan \/ TakeExpired \/ MoveToRunQueue
Calls == (\E th \in Thread : __del_timer(th)) \/ (\E th \in Thread : Insert(th))

Next == HandleThread \/ TickThread \/ add_timer \/ del_timer \/ Calls

Spec == Init /\ [][Next]_vars

(* Both threads of the service run for ever, and a thread that has entered     *)
(* add_timer or del_timer leaves it.  timer_vec0.lock is released after every  *)
(* scan, so a thread that waits for it gets it.                                *)
FairSpec ==
  /\ Spec
  /\ WF_vars(TickThread)
  /\ SF_vars(SemWait) /\ SF_vars(Pop) /\ WF_vars(Run)
  /\ \A th \in Thread : SF_vars(__del_timer(th) \/ Insert(th))

-----------------------------------------------------------------------------
(* Properties.  LinkedOnce, above, is one of them.                         *)

\* No wakeup is lost: while timers wait in run_queue, the handle thread is in its
\* loop or run_sem lets it in, although one wait drains many posts, and del_timer
\* and timers without a function leave the count and the queue out of step.
NoLostWakeup == run_queue # <<>> => run_sem > 0 \/ handle # "wait"

\* The counting behind it: run_sem covers every queued timer, but for the one the
\* handle thread is about to pop.
SemCovers == Len(run_queue) <= run_sem + (IF handle = "pop1" THEN 1 ELSE 0)

\* "Each added timer is executed only once" (header of ft_timer.c): executions, and
\* those still to come, never outnumber the calls of add_timer.
RunsOncePerAdd == \A t \in Timer : runs[t] + (IF Armed(t) THEN 1 ELSE 0) <= adds[t]

\* An armed timer does not stay armed: it is run, or deleted.
ArmedTimerRuns == \A t \in Timer : Armed(t) ~> ~Armed(t)
=============================================================================
