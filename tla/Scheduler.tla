----------------------------- MODULE Scheduler -----------------------------
(***************************************************************************)
(* The scheduler (scheduler.c, wait_queue.c) on its single processor: ring-3 *)
(* processes preempted round robin by the timer, kernel work of fixed        *)
(* priorities, the idle task whose callback runs the kernel's own step, wait *)
(* queues, and the exit that is finished once the departing stack is left.   *)
(*                                                                           *)
(* What the processor is doing is part of the state (cpu), with the          *)
(* interrupt flag and what the timer interrupted (saved).  The system call   *)
(* path and the resume path are syscall_dispatch_frame and                   *)
(* x86_64_resume_user_context; the runtime step is ios_kernel_runtime_step,  *)
(* which both the idle callback and the tick callback call.                  *)
(***************************************************************************)
EXTENDS Integers, Sequences, FiniteSets

CONSTANTS MaxTasks,         \* IOS_SCHEDULER_MAX_TASKS
          MaxPriority,      \* kernel priorities are 1..MaxPriority
          Queue,            \* wait queues of the kernel's objects
          NoQueue,          \* NULL, of a wait queue
          MaxWakes,         \* bound: wake-ups of kernel work
          MayExit           \* whether processes exit

ASSUME SchedulerAssumption ==
    /\ MaxTasks \in Nat \ {0}
    /\ MaxPriority \in Nat \ {0}
    /\ NoQueue \notin Queue
    /\ MaxWakes \in Nat
    /\ MayExit \in BOOLEAN

Slot == 0 .. MaxTasks - 1
Idle == MaxTasks            \* &idle_task
None == MaxTasks + 1        \* NULL
Task == Slot \cup {Idle}
UserPriority == 0           \* IOS_SCHEDULER_USER_PRIORITY
Priority == UserPriority .. MaxPriority
TaskRecord == [state : {"unused", "runnable", "running", "blocked", "exited"},
               kind : {"none", "user", "work", "idle"}, priority : Priority]

VARIABLES tasks,            \* [Task -> TaskRecord]
          wait_queue,       \* task->wait_queue
          queue,            \* [Queue -> Seq(Slot)]: head to tail
          current_task,
          deferred_exit_task,
          last_selected,    \* [Priority -> Slot]
          exited,           \* processes process_mark_exited has finished
          cpu,              \* what the processor executes
          saved,            \* what the timer interrupted
          interrupts,       \* the interrupt flag
          work_task,        \* the kernel work whose function is running
          wakes             \* wake-ups of kernel work so far

switching == <<current_task, last_selected>>
processor == <<cpu, saved, interrupts, work_task>>
vars == <<tasks, wait_queue, queue, switching, deferred_exit_task, exited,
          processor, wakes>>

State(t) == tasks[t].state
Kind(t) == tasks[t].kind
UserTasks == {s \in Slot : Kind(s) = "user"}
WorkTasks == {s \in Slot : Kind(s) = "work"}

-----------------------------------------------------------------------------
Unused == [state |-> "unused", kind |-> "none", priority |-> UserPriority]

(* scheduler_initialize *)
Init ==
    /\ tasks = [t \in Task |-> IF t = Idle
                 THEN [state |-> "runnable", kind |-> "idle", priority |-> UserPriority]
                 ELSE Unused]
    /\ wait_queue = [s \in Slot |-> NoQueue]
    /\ queue = [q \in Queue |-> <<>>]
    /\ current_task = None
    /\ deferred_exit_task = None
    /\ last_selected = [p \in Priority |-> 0]
    /\ exited = {}
    /\ cpu = "boot" /\ saved = "boot"
    /\ interrupts = FALSE
    /\ work_task = None
    /\ wakes = 0

(* allocate_task: the first unused slot.                                     *)
FirstUnused(s) ==
    /\ State(s) = "unused"
    /\ \A r \in Slot : r < s => State(r) # "unused"

scheduler_add_process ==
    /\ cpu = "boot"
    /\ \E s \in Slot :
         /\ FirstUnused(s)
         /\ tasks' = [tasks EXCEPT ![s] = [state |-> "runnable", kind |-> "user",
                                           priority |-> UserPriority]]
    /\ UNCHANGED <<wait_queue, queue, switching, deferred_exit_task, exited, processor, wakes>>

scheduler_add_kernel_work ==
    /\ cpu = "boot"
    /\ \E s \in Slot, p \in Priority \ {UserPriority} :
         /\ FirstUnused(s)
         /\ tasks' = [tasks EXCEPT ![s] = [state |-> "blocked", kind |-> "work",
                                           priority |-> p]]
    /\ UNCHANGED <<wait_queue, queue, switching, deferred_exit_task, exited, processor, wakes>>

(* ios_kernel_runtime_run: interrupts on, then the scheduler's loop.         *)
ios_kernel_runtime_run ==
    /\ cpu = "boot"
    /\ cpu' = "run"
    /\ interrupts' = TRUE
    /\ UNCHANGED <<tasks, wait_queue, queue, switching, deferred_exit_task, exited,
                   saved, work_task, wakes>>

-----------------------------------------------------------------------------
(* Selection.  ts is the task table after the departing task's new state.    *)

Ready(ts, p) == {s \in Slot : ts[s].state = "runnable" /\ ts[s].priority = p}
ReadyUsers(ts) == {s \in Slot : ts[s].state = "runnable" /\ ts[s].kind = "user"}

(* Faulty: the search begins at the slot last selected.                      *)
Distance_from_selected(s, p) == (s - last_selected[p]) % MaxTasks

(* How far s lies behind the slot last selected, going round.                *)
Distance(s, p) == (s - last_selected[p] - 1) % MaxTasks

RoundRobin(candidates, p) ==
    CHOOSE s \in candidates : \A r \in candidates : Distance(s, p) <= Distance(r, p)

(* The task select_runnable returns, the last_selected entry it leaves, and  *)
(* the caller's two assignments to the task and current_task.                *)
select_runnable(ts) ==
    LET levels == {p \in Priority : Ready(ts, p) # {}}
        top == CHOOSE p \in levels : \A r \in levels : r <= p
        selected == IF levels = {} THEN Idle ELSE RoundRobin(Ready(ts, top), top)
    IN  /\ tasks' = [ts EXCEPT ![selected].state = "running"]
        /\ current_task' = selected
        /\ last_selected' = IF levels = {} THEN last_selected
                            ELSE [last_selected EXCEPT ![top] = selected]

Departed ==
    IF current_task # None /\ State(current_task) = "running"
    THEN [tasks EXCEPT ![current_task].state = "runnable"]
    ELSE tasks

scheduler_select_next == select_runnable(Departed)

-----------------------------------------------------------------------------
(* scheduler_idle_loop: run the current task, select the next, for ever.     *)

LoopSelects ==
    /\ \/ cpu = "select"
       \/ cpu = "run" /\ current_task = None
    /\ scheduler_select_next
    /\ cpu' = "run"
    /\ UNCHANGED <<wait_queue, queue, deferred_exit_task, exited, saved, interrupts, work_task, wakes>>

(* The idle callback runs the kernel's step and then halts.                  *)
RunIdle ==
    /\ cpu = "run" /\ current_task = Idle
    /\ cpu' = "step"
    /\ UNCHANGED <<tasks, wait_queue, queue, switching, deferred_exit_task, exited,
                   saved, interrupts, work_task, wakes>>

IdleHalts ==
    /\ cpu = "step"
    /\ cpu' = "halted"
    /\ UNCHANGED <<tasks, wait_queue, queue, switching, deferred_exit_task, exited,
                   saved, interrupts, work_task, wakes>>

(* iretq loads the process's flags, whose interrupt bit is always set.       *)
RunUser ==
    /\ cpu = "run" /\ current_task \in UserTasks
    /\ cpu' = "user"
    /\ interrupts' = TRUE
    /\ UNCHANGED <<tasks, wait_queue, queue, switching, deferred_exit_task, exited,
                   saved, work_task, wakes>>

RunWork ==
    /\ cpu = "run" /\ current_task \in WorkTasks
    /\ cpu' = "work"
    /\ work_task' = current_task
    /\ UNCHANGED <<tasks, wait_queue, queue, switching, deferred_exit_task, exited,
                   saved, interrupts, wakes>>

(* The work function returns: its task sleeps until it is woken again.       *)
WorkReturns ==
    /\ cpu = "work"
    /\ tasks' = IF State(work_task) = "running"
                THEN [tasks EXCEPT ![work_task].state = "blocked"] ELSE tasks
    /\ current_task' = None
    /\ work_task' = None
    /\ cpu' = "select"
    /\ UNCHANGED <<wait_queue, queue, last_selected, deferred_exit_task, exited,
                   saved, interrupts, wakes>>

-----------------------------------------------------------------------------
(* Blocking and waking.                                                      *)

scheduler_block_current(q) ==
    /\ current_task \in Slot
    /\ State(current_task) = "running"
    /\ wait_queue[current_task] = NoQueue
    /\ wait_queue' = [wait_queue EXCEPT ![current_task] = q]
    /\ queue' = [queue EXCEPT ![q] = Append(@, current_task)]
    /\ select_runnable([tasks EXCEPT ![current_task].state = "blocked"])

(* A system call of the current process blocks on an object.                 *)
SyscallBlocks ==
    /\ cpu = "syscall"
    /\ \E q \in Queue : scheduler_block_current(q)
    /\ cpu' = "resume"
    /\ UNCHANGED <<deferred_exit_task, exited, saved, interrupts, work_task, wakes>>

InKernel == cpu \in {"step", "tick", "syscall", "work"}

(* Faulty: the woken task keeps naming the queue it was taken from.          *)
wait_queue_wake_one_linked(q) ==
    /\ queue[q] # <<>>
    /\ queue' = [queue EXCEPT ![q] = Tail(@)]
    /\ tasks' = IF State(queue[q][1]) = "blocked"
                THEN [tasks EXCEPT ![queue[q][1]].state = "runnable"] ELSE tasks
    /\ UNCHANGED wait_queue

wait_queue_wake_one(q) ==
    LET task == queue[q][1]
    IN  /\ queue[q] # <<>>
        /\ queue' = [queue EXCEPT ![q] = Tail(@)]
        /\ wait_queue' = [wait_queue EXCEPT ![task] = NoQueue]
        /\ tasks' = IF State(task) = "blocked"
                    THEN [tasks EXCEPT ![task].state = "runnable"] ELSE tasks

(* Kernel code makes an object ready and wakes the first task waiting on it. *)
WakeWaiter ==
    /\ InKernel
    /\ \E q \in Queue : wait_queue_wake_one(q)
    /\ UNCHANGED <<switching, deferred_exit_task, exited, processor, wakes>>

wait_queue_remove(q, task) == SelectSeq(q, LAMBDA t : t # task)

scheduler_wake_task(task) ==
    /\ State(task) = "blocked"
    /\ tasks' = [tasks EXCEPT ![task].state = "runnable"]
    /\ wait_queue' = [wait_queue EXCEPT ![task] = NoQueue]
    /\ queue' = [q \in Queue |-> IF q = wait_queue[task]
                                 THEN wait_queue_remove(queue[q], task) ELSE queue[q]]

(* Kernel code has work for a kernel task.                                   *)
WakeWork ==
    /\ InKernel
    /\ wakes < MaxWakes
    /\ wakes' = wakes + 1
    /\ \E task \in WorkTasks : scheduler_wake_task(task)
    /\ UNCHANGED <<switching, deferred_exit_task, exited, processor>>

-----------------------------------------------------------------------------
(* System calls run with interrupts masked (FMASK).                          *)

SyscallEnters ==
    /\ cpu = "user"
    /\ cpu' = "syscall"
    /\ interrupts' = FALSE
    /\ UNCHANGED <<tasks, wait_queue, queue, switching, deferred_exit_task, exited,
                   saved, work_task, wakes>>

SyscallReturns ==
    /\ cpu = "syscall"
    /\ cpu' = "resume"
    /\ UNCHANGED <<tasks, wait_queue, queue, switching, deferred_exit_task, exited,
                   saved, interrupts, work_task, wakes>>

scheduler_exit_current ==
    /\ MayExit
    /\ cpu = "syscall"
    /\ current_task \in UserTasks
    /\ deferred_exit_task = None
    /\ wait_queue' = [wait_queue EXCEPT ![current_task] = NoQueue]
    /\ queue' = [q \in Queue |-> IF q = wait_queue[current_task]
                                 THEN wait_queue_remove(queue[q], current_task) ELSE queue[q]]
    /\ deferred_exit_task' = current_task
    /\ select_runnable([tasks EXCEPT ![current_task].state = "exited"])
    /\ cpu' = "resume"
    /\ UNCHANGED <<exited, saved, interrupts, work_task, wakes>>

(* Faulty: an exit is finished only when another process resumes.            *)
x86_64_resume_user_context_user_only ==
    /\ cpu = "resume"
    /\ IF current_task \in UserTasks
       THEN /\ cpu' = "user" /\ interrupts' = TRUE
            /\ deferred_exit_task' = None
            /\ exited' = exited \cup ({deferred_exit_task} \ {None})
       ELSE cpu' = "run" /\ UNCHANGED <<interrupts, deferred_exit_task, exited>>
    /\ UNCHANGED <<tasks, wait_queue, queue, switching, saved, work_task, wakes>>

(* Off the departing stack the exit is finished; then the process that is    *)
(* current resumes, or the bootstrap stack enters the scheduler's loop, with *)
(* the interrupt flag as the system call left it.                            *)
x86_64_resume_user_context ==
    /\ cpu = "resume"
    /\ deferred_exit_task' = None
    /\ exited' = exited \cup ({deferred_exit_task} \ {None})
    /\ IF current_task \in UserTasks
       THEN cpu' = "user" /\ interrupts' = TRUE
       ELSE cpu' = "run" /\ UNCHANGED interrupts
    /\ UNCHANGED <<tasks, wait_queue, queue, switching, saved, work_task, wakes>>

-----------------------------------------------------------------------------
(* The timer.  Its gate masks interrupts; the handler calls the tick         *)
(* callback, a whole runtime step, whatever it interrupted.                  *)

TimerInterrupts ==
    /\ interrupts
    /\ cpu \in {"user", "step", "work", "run", "select", "halted"}
    /\ saved' = cpu
    /\ cpu' = "tick"
    /\ interrupts' = FALSE
    /\ UNCHANGED <<tasks, wait_queue, queue, switching, deferred_exit_task, exited,
                   work_task, wakes>>

(* Only ring-3 code is preempted, and only by another process.               *)
scheduler_on_timer_interrupt ==
    LET preempts == saved = "user" /\ current_task \in UserTasks
                    /\ State(current_task) = "running"
        departed == [tasks EXCEPT ![current_task].state = "runnable"]
        selected == RoundRobin(ReadyUsers(departed), UserPriority)
    IN  /\ cpu = "tick"
        /\ interrupts' = TRUE
        /\ cpu' = IF saved = "halted" THEN "select" ELSE saved
        /\ IF preempts
           THEN /\ tasks' = [departed EXCEPT ![selected].state = "running"]
                /\ current_task' = selected
                /\ last_selected' = [last_selected EXCEPT ![UserPriority] = selected]
           ELSE UNCHANGED <<tasks, switching>>
        /\ UNCHANGED <<wait_queue, queue, deferred_exit_task, exited, saved, work_task, wakes>>

Loop == LoopSelects \/ RunIdle \/ IdleHalts \/ RunUser \/ RunWork \/ WorkReturns

Next ==
    \/ scheduler_add_process \/ scheduler_add_kernel_work \/ ios_kernel_runtime_run
    \/ Loop
    \/ SyscallEnters \/ SyscallReturns \/ SyscallBlocks \/ scheduler_exit_current
    \/ x86_64_resume_user_context
    \/ WakeWaiter \/ WakeWork
    \/ TimerInterrupts \/ scheduler_on_timer_interrupt

(* The processor does not stop between two instructions, makes progress      *)
(* between two ticks (hence SF of the loop, which a tick disables for its    *)
(* own duration), and the timer fires again and again while interrupts are   *)
(* on; nothing obliges a process to make a system call or the kernel to wake *)
(* anyone.                                                                   *)
Fairness ==
    /\ WF_vars(ios_kernel_runtime_run)
    /\ SF_vars(Loop)
    /\ WF_vars(SyscallReturns \/ x86_64_resume_user_context)
    /\ WF_vars(scheduler_on_timer_interrupt)
    /\ SF_vars(TimerInterrupts)

Spec == Init /\ [][Next]_vars /\ Fairness

-----------------------------------------------------------------------------
(* Properties.                                                               *)

TypeOK ==
    /\ tasks \in [Task -> TaskRecord]
    /\ wait_queue \in [Slot -> Queue \cup {NoQueue}]
    /\ queue \in [Queue -> Seq(Slot)]
    /\ current_task \in Task \cup {None}
    /\ deferred_exit_task \in Slot \cup {None}
    /\ last_selected \in [Priority -> Slot]
    /\ exited \subseteq Slot
    /\ cpu \in {"boot", "run", "select", "step", "halted", "work", "user",
                "syscall", "resume", "tick"}
    /\ saved \in {"boot", "run", "select", "step", "halted", "work", "user"}
    /\ interrupts \in BOOLEAN
    /\ work_task \in Slot \cup {None}
    /\ wakes \in 0 .. MaxWakes

(* No task is lost: a task marked running is the current one, so every other *)
(* one that may run is runnable and will be found by a selection.            *)
RunningIsCurrent == \A t \in Task : State(t) = "running" <=> current_task = t

(* A task is on the queue its wait_queue names, once, and on no other; it is *)
(* on one only while it is blocked.                                          *)
QueuesAgree ==
    /\ \A s \in Slot : wait_queue[s] # NoQueue =>
         /\ State(s) = "blocked"
         /\ \E i \in DOMAIN queue[wait_queue[s]] : queue[wait_queue[s]][i] = s
    /\ \A q \in Queue : \A i \in DOMAIN queue[q] :
         /\ wait_queue[queue[q][i]] = q
         /\ \A j \in DOMAIN queue[q] : queue[q][i] = queue[q][j] => i = j

(* What the processor was doing before the timer, if the timer interrupted.  *)
Doing == IF cpu = "tick" THEN saved ELSE cpu

(* Ring-3 code and its system calls belong to the current process, a work    *)
(* function to the current kernel task, whatever interrupts it; kernel work  *)
(* waits on no queue, and the idle task can always be selected.              *)
ProcessorAgrees ==
    /\ Doing \in {"user", "syscall"} => current_task \in UserTasks
    /\ Doing = "work" => work_task \in Slot /\ current_task = work_task
    /\ \A s \in WorkTasks : wait_queue[s] = NoQueue
    /\ \A t \in Task : Kind(t) = "idle" <=> t = Idle
    /\ State(Idle) \in {"runnable", "running"}

(* A process that left is finished before anything else runs: its exit is    *)
(* pending only on the way out of the system call, so ring-3 code never runs *)
(* beside an unfinished exit and an exit call never finds another one        *)
(* pending, which it would refuse.                                           *)
ExitFinished ==
    /\ deferred_exit_task # None => cpu = "resume"
    /\ \A s \in UserTasks : State(s) = "exited" => s \in exited \cup {deferred_exit_task}

Hung == cpu = "halted" /\ ~interrupts

(* A runnable process is run, however long the others compute, unless the    *)
(* processor has halted with interrupts masked (scheduler_idle_loop).        *)
RunnableProcessRuns ==
    \A s \in Slot : (Kind(s) = "user" /\ State(s) = "runnable" /\ cpu # "boot")
                      ~> (State(s) = "running" \/ Hung)

(* No task is lost, neither to the selection nor to the wait queues, and the *)
(* processor runs on behalf of the task that is current.                     *)
TasksConsistent == TypeOK /\ RunningIsCurrent /\ QueuesAgree /\ ProcessorAgrees
=============================================================================
