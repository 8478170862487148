-------------------------- MODULE SchedulerProofs --------------------------
(***************************************************************************)
(* Proofs about Scheduler for every size of the task table, every number of *)
(* priorities and every set of wait queues: no task is lost, the processor  *)
(* runs on behalf of the current task, and an exit is finished before       *)
(* anything else runs.                                                      *)
(***************************************************************************)
EXTENDS Scheduler, WellFoundedInduction, TLAPS

(* The inductive invariant.  The consistency of the tables and the exit are *)
(* proved together: an exit may only be pending on the way out of a system  *)
(* call, and it is the current process, on no queue, that makes it.         *)
IInv == TasksConsistent /\ ExitFinished

-----------------------------------------------------------------------------
(* Selection.                                                               *)

(* A non-empty set of naturals has a least element.                         *)
LEMMA Least ==
    ASSUME NEW T \in SUBSET Nat, T # {}
    PROVE  \E x \in T : \A y \in T : x <= y
<1> DEFINE Before == OpToRel(<, Nat)
<1>1. \A x, y \in Nat : y < x => <<y, x>> \in Before
  BY DEF OpToRel
<1>2. IsWellFoundedOn(Before, Nat)
  BY NatLessThanWellFounded
<1> HIDE DEF Before
<1>3. PICK x \in T : \A y \in T : ~ (<<y, x>> \in Before)
  BY <1>2, WFMin
<1>4. ASSUME NEW y \in T PROVE x <= y
  <2>1. x \in Nat /\ y \in Nat /\ ~ (y < x)
    BY <1>1, <1>3
  <2>2. QED
    BY <2>1
<1>5. QED
  BY <1>4

(* The search round the table returns one of the candidates it has.         *)
LEMMA RoundRobinSelects ==
    ASSUME TypeOK, NEW C \in SUBSET Slot, C # {}, NEW p \in Priority
    PROVE  RoundRobin(C, p) \in C
<1> DEFINE D == {Distance(s, p) : s \in C}
<1>1. \A s \in Slot : Distance(s, p) \in Nat
  <2>1. last_selected[p] \in Slot
    BY DEF TypeOK
  <2>2. QED
    BY <2>1, SchedulerAssumption DEF Distance, Slot
<1>2. D \in SUBSET Nat /\ D # {}
  BY <1>1
<1>3. PICK d \in D : \A e \in D : d <= e
  BY <1>2, Least
<1>4. \E s \in C : \A r \in C : Distance(s, p) <= Distance(r, p)
  BY <1>3
<1>5. QED
  BY <1>4 DEF RoundRobin

(* Of a non-empty set of priorities the greatest is chosen.                 *)
LEMMA TopExists ==
    ASSUME NEW L \in SUBSET Priority, L # {}
    PROVE  (CHOOSE p \in L : \A r \in L : r <= p) \in L
<1> DEFINE D == {MaxPriority - p : p \in L}
<1>1. \A p \in L : MaxPriority - p \in Nat /\ p \in Nat
  BY SchedulerAssumption DEF Priority, UserPriority
<1>2. D \in SUBSET Nat /\ D # {}
  BY <1>1
<1>3. PICK d \in D : \A e \in D : d <= e
  BY <1>2, Least
<1>4. PICK p \in L : d = MaxPriority - p
  BY <1>3
<1>5. ASSUME NEW r \in L PROVE r <= p
  <2>1. MaxPriority - p <= MaxPriority - r
    BY <1>3, <1>4
  <2>2. QED
    BY <1>1, <2>1, SchedulerAssumption
<1>6. QED
  BY <1>5

(* A table in which nothing is running, as a selection finds it.            *)
NothingRuns(ts) == ts \in [Task -> TaskRecord] /\ \A t \in Task : ts[t].state # "running"

(* What a selection does: exactly the task it made current is running, that *)
(* task was runnable or is the idle task, and nothing else has changed.     *)
LEMMA Selection ==
    ASSUME TypeOK, NEW ts, NothingRuns(ts), select_runnable(ts)
    PROVE  /\ current_task' \in Task
           /\ current_task' = Idle \/ ts[current_task'].state = "runnable"
           /\ tasks' = [ts EXCEPT ![current_task'].state = "running"]
           /\ tasks' \in [Task -> TaskRecord]
           /\ RunningIsCurrent'
           /\ last_selected' \in [Priority -> Slot]
<1> DEFINE levels == {p \in Priority : Ready(ts, p) # {}}
           top == CHOOSE p \in levels : \A r \in levels : r <= p
           selected == IF levels = {} THEN Idle ELSE RoundRobin(Ready(ts, top), top)
<1>1. /\ tasks' = [ts EXCEPT ![selected].state = "running"]
      /\ current_task' = selected
      /\ last_selected' = IF levels = {} THEN last_selected
                          ELSE [last_selected EXCEPT ![top] = selected]
  BY DEF select_runnable
<1>2. levels # {} => /\ top \in Priority
                     /\ selected \in Ready(ts, top)
  <2> SUFFICES ASSUME levels # {} PROVE top \in Priority /\ selected \in Ready(ts, top)
    OBVIOUS
  <2>1. top \in levels
    <3> HIDE DEF levels
    <3>1. levels \in SUBSET Priority
      BY DEF levels
    <3>2. QED
      BY <3>1, TopExists
  <2>2. top \in Priority /\ Ready(ts, top) # {}
    BY <2>1
  <2>3. Ready(ts, top) \in SUBSET Slot
    BY DEF Ready
  <2> HIDE DEF top
  <2>4. RoundRobin(Ready(ts, top), top) \in Ready(ts, top)
    BY <2>2, <2>3, RoundRobinSelects
  <2>5. QED
    BY <2>2, <2>4
<1> HIDE DEF top
<1>3. levels # {} => selected \in Slot /\ ts[selected].state = "runnable"
  BY <1>2 DEF Ready
<1>4. selected \in Task /\ (selected = Idle \/ ts[selected].state = "runnable")
  BY <1>3 DEF Task
<1>5. last_selected' \in [Priority -> Slot]
  BY <1>1, <1>2, <1>3 DEF TypeOK
<1> HIDE DEF selected, levels
<1>6. tasks' \in [Task -> TaskRecord]
  BY <1>1, <1>4 DEF NothingRuns, TaskRecord
<1>7. RunningIsCurrent'
  BY <1>1, <1>4 DEF RunningIsCurrent, NothingRuns, State, TaskRecord
<1>8. QED
  BY <1>1, <1>4, <1>5, <1>6, <1>7

-----------------------------------------------------------------------------
(* What the steps have in common.                                           *)

(* A step that moves no task and no queue keeps the tables consistent.      *)
LEMMA TablesKept ==
    ASSUME RunningIsCurrent, QueuesAgree,
           UNCHANGED <<tasks, wait_queue, queue, current_task>>
    PROVE  RunningIsCurrent' /\ QueuesAgree'
  BY DEF RunningIsCurrent, QueuesAgree, State

(* A step that moves no queue and leaves the queued tasks blocked keeps the *)
(* queues.                                                                  *)
LEMMA QueuesKept ==
    ASSUME QueuesAgree, UNCHANGED <<wait_queue, queue>>,
           \A s \in Slot : wait_queue[s] # NoQueue => State(s)' = State(s)
    PROVE  QueuesAgree'
  BY DEF QueuesAgree

(* The slots, the idle task and NULL are told apart.                        *)
LEMMA TaskNames ==
    /\ Idle \notin Slot /\ None \notin Task /\ Idle \in Task
    /\ \A s \in Slot : s \in Task /\ s # Idle /\ s # None
  BY SchedulerAssumption DEF Idle, None, Slot, Task

(* A selection from a table that has the kinds of the present one and in    *)
(* which at most the current task, once running, has another state: it      *)
(* leaves every queued or exited task alone, and every kind.                *)
LEMMA SelectionKeeps ==
    ASSUME TasksConsistent, NEW ts, NothingRuns(ts), select_runnable(ts),
           \A t \in Task : ts[t].kind = Kind(t),
           \A t \in Task : t # current_task => ts[t] = tasks[t],
           current_task = Idle => ts[Idle].state = "runnable"
    PROVE  /\ \A t \in Task : Kind(t)' = Kind(t)
           /\ \A t \in Task : ts[t].state \notin {"runnable", "running"} /\ t # Idle
                                => State(t)' = ts[t].state
           /\ \A t \in Task : State(t)' = "exited" => ts[t].state = "exited"
           /\ State(Idle)' \in {"runnable", "running"}
<1>1. /\ current_task' \in Task
      /\ current_task' = Idle \/ ts[current_task'].state = "runnable"
      /\ tasks' = [ts EXCEPT ![current_task'].state = "running"]
      /\ ts \in [Task -> TaskRecord]
  BY Selection DEF TasksConsistent, NothingRuns
<1>2. \A t \in Task : t # current_task' => tasks'[t] = ts[t]
  BY <1>1
<1>3. tasks'[current_task'].state = "running" /\ tasks'[current_task'].kind = ts[current_task'].kind
  BY <1>1 DEF TaskRecord
<1>4. ts[Idle].state = "runnable"
  BY TaskNames DEF TasksConsistent, ProcessorAgrees, RunningIsCurrent, State, NothingRuns
<1>5. QED
  BY <1>1, <1>2, <1>3, <1>4, TaskNames DEF State, Kind

-----------------------------------------------------------------------------
(* The initial states satisfy the invariant.                                *)
LEMMA InitInvariant == Init => IInv
<1> SUFFICES ASSUME Init PROVE IInv
  OBVIOUS
<1> USE SchedulerAssumption
<1>1. 0 \in Priority /\ 0 \in Slot
  BY DEF Priority, UserPriority, Slot
<1>2. tasks \in [Task -> TaskRecord]
  BY <1>1 DEF Init, Unused, TaskRecord, UserPriority
<1>3. TypeOK
  <2>1. queue \in [Queue -> Seq(Slot)]
    BY DEF Init
  <2>2. wait_queue \in [Slot -> Queue \cup {NoQueue}] /\ last_selected \in [Priority -> Slot]
    BY <1>1 DEF Init
  <2>3. interrupts \in BOOLEAN
    BY DEF Init
  <2>4. exited \subseteq Slot /\ wakes \in 0 .. MaxWakes
    BY DEF Init
  <2>5. QED
    BY <1>2, <2>1, <2>2, <2>3, <2>4 DEF Init, TypeOK
<1>4. RunningIsCurrent /\ QueuesAgree
  BY TaskNames DEF Init, RunningIsCurrent, QueuesAgree, State, Unused
<1>5. ProcessorAgrees /\ ExitFinished
  BY TaskNames DEF Init, ProcessorAgrees, ExitFinished, Doing, State, Kind, UserTasks,
                   WorkTasks, Unused
<1>6. QED
  BY <1>3, <1>4, <1>5 DEF IInv, TasksConsistent

(* While the kernel boots it fills the task table.                          *)
LEMMA BootSteps ==
    IInv /\ (scheduler_add_process \/ scheduler_add_kernel_work) => IInv'
<1> SUFFICES ASSUME IInv, scheduler_add_process \/ scheduler_add_kernel_work PROVE IInv'
  OBVIOUS
<1> USE SchedulerAssumption
<1>1. PICK s \in Slot, task \in TaskRecord :
        /\ State(s) = "unused"
        /\ task.state \in {"runnable", "blocked"} /\ task.kind \in {"user", "work"}
        /\ tasks' = [tasks EXCEPT ![s] = task]
  <2>1. CASE scheduler_add_process
    <3>1. [state |-> "runnable", kind |-> "user", priority |-> UserPriority] \in TaskRecord
      BY DEF TaskRecord, Priority, UserPriority
    <3>2. QED
      BY <2>1, <3>1 DEF scheduler_add_process, FirstUnused
  <2>2. CASE scheduler_add_kernel_work
    <3>1. \A p \in Priority :
            [state |-> "blocked", kind |-> "work", priority |-> p] \in TaskRecord
      BY DEF TaskRecord
    <3>2. QED
      BY <2>2, <3>1 DEF scheduler_add_kernel_work, FirstUnused
  <2>3. QED
    BY <2>1, <2>2
<1>2. UNCHANGED <<wait_queue, queue, switching, deferred_exit_task, exited, processor, wakes>>
  BY DEF scheduler_add_process, scheduler_add_kernel_work
<1>3. cpu = "boot"
  BY DEF scheduler_add_process, scheduler_add_kernel_work
<1> USE <1>1, <1>2, <1>3, TaskNames DEF switching, processor
<1>4. tasks \in [Task -> TaskRecord] /\ (\A t \in Task : t # s => tasks'[t] = tasks[t]) /\ tasks'[s] = task
  BY DEF IInv, TasksConsistent, TypeOK
<1>5. TypeOK'
  BY DEF IInv, TasksConsistent, TypeOK
<1>6. RunningIsCurrent'
  BY <1>4 DEF IInv, TasksConsistent, RunningIsCurrent, State
<1>7. QueuesAgree'
  BY <1>4 DEF IInv, TasksConsistent, QueuesAgree, State
<1>8. ProcessorAgrees'
  BY <1>4 DEF IInv, TasksConsistent, ProcessorAgrees, QueuesAgree, Doing, State, Kind, UserTasks, WorkTasks
<1>9. ExitFinished'
  BY <1>4 DEF IInv, ExitFinished, State, Kind, UserTasks
<1>10. QED
  BY <1>5, <1>6, <1>7, <1>8, <1>9 DEF IInv, TasksConsistent

(* Steps that only move the processor.                                      *)
LEMMA ProcessorSteps ==
    ASSUME IInv,
           \/ ios_kernel_runtime_run \/ RunIdle \/ IdleHalts \/ RunUser \/ RunWork
           \/ SyscallEnters \/ SyscallReturns \/ TimerInterrupts
           \/ x86_64_resume_user_context
    PROVE  IInv'
<1> USE DEF ios_kernel_runtime_run, RunIdle, IdleHalts, RunUser, RunWork,
            SyscallEnters, SyscallReturns, TimerInterrupts, x86_64_resume_user_context
<1>1. UNCHANGED <<tasks, wait_queue, queue, switching, wakes>>
  OBVIOUS
<1>2. TypeOK'
  BY <1>1 DEF IInv, TasksConsistent, TypeOK, switching, UserTasks, WorkTasks
<1>3. RunningIsCurrent' /\ QueuesAgree'
  BY <1>1, TablesKept DEF IInv, TasksConsistent, switching
<1>4. ProcessorAgrees'
  <2>1. Doing' \in {"user", "syscall"} => current_task' \in UserTasks'
    BY <1>1 DEF IInv, TasksConsistent, ProcessorAgrees, Doing, switching, UserTasks, Kind
  <2>2. Doing' = "work" => work_task' \in Slot /\ current_task' = work_task'
    BY <1>1 DEF IInv, TasksConsistent, ProcessorAgrees, Doing, switching, WorkTasks
  <2>3. QED
    BY <1>1, <2>1, <2>2
       DEF IInv, TasksConsistent, ProcessorAgrees, switching, WorkTasks, Kind, State
<1>5. ExitFinished'
  BY <1>1 DEF IInv, ExitFinished, TasksConsistent, TypeOK, UserTasks, Kind, State
<1>6. QED
  BY <1>2, <1>3, <1>4, <1>5 DEF IInv, TasksConsistent

(* The scheduler's loop selects after the departed task became runnable.    *)
LEMMA LoopSelectsStep == ASSUME IInv, LoopSelects PROVE IInv'
<1>1. /\ scheduler_select_next
      /\ cpu # "resume" /\ cpu' = "run"
      /\ UNCHANGED <<wait_queue, queue, deferred_exit_task, exited, saved, interrupts, work_task, wakes>>
  BY DEF LoopSelects
<1>2. /\ NothingRuns(Departed)
      /\ \A t \in Task : t # current_task => Departed[t] = tasks[t]
      /\ \A t \in Task : Departed[t].kind = Kind(t)
      /\ \A t \in Task : Departed[t].state # State(t) => State(t) = "running" /\ Departed[t].state = "runnable"
  <2>1. tasks \in [Task -> TaskRecord] /\ RunningIsCurrent /\ current_task \in Task \cup {None}
    BY DEF IInv, TasksConsistent, TypeOK
  <2>2. QED
    BY <2>1, TaskNames DEF NothingRuns, Departed, RunningIsCurrent, State, Kind, TaskRecord
<1>3. select_runnable(Departed)
  BY <1>1 DEF scheduler_select_next
<1>4. current_task = Idle => Departed[Idle].state = "runnable"
  BY <1>2, TaskNames DEF IInv, TasksConsistent, RunningIsCurrent, NothingRuns, State
<1>5. /\ current_task' \in Task /\ tasks' \in [Task -> TaskRecord]
      /\ RunningIsCurrent' /\ last_selected' \in [Priority -> Slot]
  BY <1>2, <1>3, Selection DEF IInv, TasksConsistent
<1>6. /\ \A t \in Task : Kind(t)' = Kind(t)
      /\ \A t \in Task : Departed[t].state \notin {"runnable", "running"} /\ t # Idle
                           => State(t)' = Departed[t].state
      /\ \A t \in Task : State(t)' = "exited" => Departed[t].state = "exited"
      /\ State(Idle)' \in {"runnable", "running"}
  BY <1>2, <1>3, <1>4, SelectionKeeps DEF IInv
<1>7. TypeOK'
  BY <1>1, <1>5 DEF IInv, TasksConsistent, TypeOK
<1>8. QueuesAgree'
  <2>1. \A s \in Slot : wait_queue[s] # NoQueue => State(s)' = State(s)
    BY <1>2, <1>6, TaskNames DEF IInv, TasksConsistent, QueuesAgree
  <2>2. QED
    BY <1>1, <2>1, QueuesKept DEF IInv, TasksConsistent
<1>9. ProcessorAgrees'
  BY <1>1, <1>6, TaskNames DEF IInv, TasksConsistent, ProcessorAgrees, Doing, WorkTasks
<1>10. ExitFinished'
  BY <1>1, <1>2, <1>6, TaskNames DEF IInv, ExitFinished, UserTasks
<1>11. QED
  BY <1>5, <1>7, <1>8, <1>9, <1>10 DEF IInv, TasksConsistent

(* A work function returns to a task that is still the current one.         *)
LEMMA WorkReturnsStep == ASSUME IInv, WorkReturns PROVE IInv'
<1>1. work_task \in Slot /\ current_task = work_task /\ State(work_task) = "running"
  BY TaskNames DEF WorkReturns, IInv, TasksConsistent, ProcessorAgrees, RunningIsCurrent, Doing
<1>2. tasks' = [tasks EXCEPT ![work_task].state = "blocked"] /\ tasks \in [Task -> TaskRecord]
  BY <1>1 DEF WorkReturns, IInv, TasksConsistent, TypeOK
<1>3. /\ \A t \in Task : t # work_task => tasks'[t] = tasks[t]
      /\ tasks'[work_task].state = "blocked" /\ tasks'[work_task].kind = tasks[work_task].kind
      /\ tasks' \in [Task -> TaskRecord]
  BY <1>1, <1>2, TaskNames DEF TaskRecord
<1>4. TypeOK'
  BY <1>3 DEF WorkReturns, IInv, TasksConsistent, TypeOK
<1>5. RunningIsCurrent'
  BY <1>1, <1>3, TaskNames DEF WorkReturns, IInv, TasksConsistent, RunningIsCurrent, State
<1>6. QueuesAgree'
  <2>1. \A s \in Slot : wait_queue[s] # NoQueue => State(s)' = State(s)
    BY <1>1, <1>3, TaskNames DEF IInv, TasksConsistent, QueuesAgree, State
  <2>2. QED
    BY <2>1, QueuesKept DEF WorkReturns, IInv, TasksConsistent
<1>7. \A t \in Task : Kind(t)' = Kind(t)
  BY <1>1, <1>3 DEF Kind
<1>8. ProcessorAgrees'
  BY <1>1, <1>3, <1>7, TaskNames
     DEF WorkReturns, IInv, TasksConsistent, ProcessorAgrees, Doing, WorkTasks, State
<1>9. ExitFinished'
  BY <1>1, <1>3, <1>7, TaskNames DEF WorkReturns, IInv, ExitFinished, UserTasks, State
<1>10. QED
  BY <1>4, <1>5, <1>6, <1>8, <1>9 DEF IInv, TasksConsistent

(* A process that blocks is on no queue before, joins the end of one, and   *)
(* another task is selected.                                                *)
LEMMA SyscallBlocksStep == ASSUME IInv, SyscallBlocks PROVE IInv'
<1>1. PICK q \in Queue : scheduler_block_current(q)
  BY DEF SyscallBlocks
<1> DEFINE ts == [tasks EXCEPT ![current_task].state = "blocked"]
<1>2. /\ cpu = "syscall" /\ cpu' = "resume"
      /\ UNCHANGED <<deferred_exit_task, exited, saved, interrupts, work_task, wakes>>
  BY DEF SyscallBlocks
<1>3. /\ current_task \in Slot /\ State(current_task) = "running"
      /\ wait_queue[current_task] = NoQueue
      /\ wait_queue' = [wait_queue EXCEPT ![current_task] = q]
      /\ queue' = [queue EXCEPT ![q] = Append(@, current_task)]
      /\ select_runnable(ts)
  BY <1>1 DEF scheduler_block_current
<1>4. current_task \in UserTasks
  BY <1>2 DEF IInv, TasksConsistent, ProcessorAgrees, Doing
<1>5. /\ tasks \in [Task -> TaskRecord]
      /\ wait_queue \in [Slot -> Queue \cup {NoQueue}] /\ queue \in [Queue -> Seq(Slot)]
  BY DEF IInv, TasksConsistent, TypeOK
<1>6. /\ \A t \in Task : t # current_task => ts[t] = tasks[t]
      /\ ts[current_task].state = "blocked" /\ ts[current_task].kind = Kind(current_task)
      /\ ts \in [Task -> TaskRecord]
  BY <1>3, <1>5, TaskNames DEF TaskRecord, Kind
<1> HIDE DEF ts
<1>7. NothingRuns(ts) /\ \A t \in Task : ts[t].kind = Kind(t)
  BY <1>3, <1>6 DEF NothingRuns, IInv, TasksConsistent, RunningIsCurrent, State, Kind
<1>8. current_task # Idle
  BY <1>3, TaskNames
<1>9. /\ current_task' \in Task /\ tasks' \in [Task -> TaskRecord]
      /\ RunningIsCurrent' /\ last_selected' \in [Priority -> Slot]
  BY <1>3, <1>7, Selection DEF IInv, TasksConsistent
<1>10. /\ \A t \in Task : Kind(t)' = Kind(t)
       /\ \A t \in Task : ts[t].state \notin {"runnable", "running"} /\ t # Idle
                            => State(t)' = ts[t].state
       /\ \A t \in Task : State(t)' = "exited" => ts[t].state = "exited"
       /\ State(Idle)' \in {"runnable", "running"}
  BY <1>3, <1>6, <1>7, <1>8, SelectionKeeps DEF IInv
<1>11. TypeOK'
  <2>1. queue' \in [Queue -> Seq(Slot)] /\ wait_queue' \in [Slot -> Queue \cup {NoQueue}]
    BY <1>3, <1>5
  <2>2. QED
    BY <1>2, <1>9, <2>1 DEF IInv, TasksConsistent, TypeOK
<1>12. QueuesAgree'
  <2>1. \A r \in Queue : r # q => queue'[r] = queue[r]
    BY <1>3, <1>5
  <2>2. /\ queue[q] \in Seq(Slot) /\ queue'[q] = Append(queue[q], current_task)
    BY <1>3, <1>5
  <2>3. /\ \A s \in Slot : s # current_task => wait_queue'[s] = wait_queue[s]
        /\ wait_queue'[current_task] = q
    BY <1>3, <1>5
  <2>4. /\ DOMAIN queue'[q] = 1 .. Len(queue[q]) + 1 /\ DOMAIN queue[q] = 1 .. Len(queue[q])
        /\ Len(queue[q]) \in Nat
        /\ \A i \in 1 .. Len(queue[q]) : queue'[q][i] = queue[q][i] /\ queue[q][i] \in Slot
        /\ queue'[q][Len(queue[q]) + 1] = current_task
    BY <2>2
  <2>5. \A r \in Queue : \A i \in DOMAIN queue[r] :
          queue[r][i] \in Slot /\ queue[r][i] # current_task
    BY <1>3, <1>5, SchedulerAssumption DEF IInv, TasksConsistent, QueuesAgree
  <2>6. ASSUME NEW s \in Slot, wait_queue'[s] # NoQueue
        PROVE  /\ State(s)' = "blocked"
               /\ \E i \in DOMAIN queue'[wait_queue'[s]] : queue'[wait_queue'[s]][i] = s
    <3>1. CASE s = current_task
      BY <1>6, <1>10, <2>3, <2>4, <3>1, TaskNames
    <3>2. CASE s # current_task
      <4>1. wait_queue[s] # NoQueue /\ wait_queue'[s] = wait_queue[s] /\ wait_queue[s] \in Queue
        BY <1>5, <2>3, <2>6, <3>2
      <4>2. PICK i \in DOMAIN queue[wait_queue[s]] : queue[wait_queue[s]][i] = s
        BY <4>1 DEF IInv, TasksConsistent, QueuesAgree
      <4>3. i \in DOMAIN queue'[wait_queue[s]] /\ queue'[wait_queue[s]][i] = s
        BY <2>1, <2>4, <4>1, <4>2
      <4>4. State(s) = "blocked" /\ ts[s].state = "blocked"
        BY <1>6, <3>2, <4>1, TaskNames DEF IInv, TasksConsistent, QueuesAgree, State
      <4>5. QED
        BY <1>10, <4>1, <4>3, <4>4, TaskNames
    <3>3. QED
      BY <3>1, <3>2
  <2>7. ASSUME NEW r \in Queue, NEW i \in DOMAIN queue'[r]
        PROVE  /\ wait_queue'[queue'[r][i]] = r
               /\ \A j \in DOMAIN queue'[r] : queue'[r][i] = queue'[r][j] => i = j
    <3>1. CASE r # q
      BY <2>1, <2>3, <2>5, <3>1 DEF IInv, TasksConsistent, QueuesAgree
    <3>2. CASE r = q
      <4> DEFINE n == Len(queue[q])
      <4>1. n \in Nat /\ i \in 1 .. n + 1
        BY <2>4, <3>2
      <4>2. \A k \in 1 .. n : /\ queue[q][k] \in Slot /\ queue[q][k] # current_task
                               /\ wait_queue[queue[q][k]] = q
        BY <2>4, <2>5 DEF IInv, TasksConsistent, QueuesAgree
      <4>3. \A k, l \in 1 .. n : queue[q][k] = queue[q][l] => k = l
        BY <2>4 DEF IInv, TasksConsistent, QueuesAgree
      <4>4. \A k \in 1 .. n + 1 : queue'[q][k] = IF k = n + 1 THEN current_task ELSE queue[q][k]
        BY <2>4
      <4>5. \A k \in 1 .. n + 1 : k # n + 1 => k \in 1 .. n
        BY <4>1
      <4> HIDE DEF n
      <4>6. wait_queue'[queue'[q][i]] = q
        BY <2>3, <4>1, <4>2, <4>4, <4>5
      <4>7. \A k \in 1 .. n + 1 : queue'[q][i] = queue'[q][k] => i = k
        BY <4>1, <4>2, <4>3, <4>4, <4>5
      <4>8. QED
        BY <2>4, <3>2, <4>6, <4>7 DEF n
    <3>3. QED
      BY <3>1, <3>2
  <2>8. QED
    BY <2>6, <2>7 DEF QueuesAgree
<1>13. ProcessorAgrees'
  <2>1. \A s \in WorkTasks' : wait_queue'[s] = NoQueue
    BY <1>3, <1>4, <1>5, <1>10, TaskNames
       DEF IInv, TasksConsistent, ProcessorAgrees, WorkTasks, UserTasks
  <2>2. QED
    BY <1>2, <1>10, <2>1 DEF IInv, TasksConsistent, ProcessorAgrees, Doing
<1>14. ExitFinished'
  BY <1>2, <1>6, <1>10, TaskNames DEF IInv, ExitFinished, UserTasks, State
<1>15. QED
  BY <1>9, <1>11, <1>12, <1>13, <1>14 DEF IInv, TasksConsistent

(* A process that exits is on no queue, so none changes; its exit is        *)
(* pending until the resume path finishes it.                               *)
LEMMA ExitStep == ASSUME IInv, scheduler_exit_current PROVE IInv'
<1> DEFINE ts == [tasks EXCEPT ![current_task].state = "exited"]
<1>1. /\ cpu = "syscall" /\ cpu' = "resume" /\ current_task \in UserTasks
      /\ deferred_exit_task' = current_task /\ select_runnable(ts)
      /\ UNCHANGED <<exited, saved, interrupts, work_task, wakes>>
  BY DEF scheduler_exit_current
<1>2. /\ tasks \in [Task -> TaskRecord]
      /\ wait_queue \in [Slot -> Queue \cup {NoQueue}] /\ queue \in [Queue -> Seq(Slot)]
  BY DEF IInv, TasksConsistent, TypeOK
<1>3. current_task \in Slot /\ current_task # Idle /\ State(current_task) = "running"
  BY <1>1, TaskNames DEF UserTasks, IInv, TasksConsistent, RunningIsCurrent
<1>4. wait_queue[current_task] = NoQueue
  BY <1>3 DEF IInv, TasksConsistent, QueuesAgree
<1>5. UNCHANGED <<wait_queue, queue>>
  BY <1>2, <1>3, <1>4, SchedulerAssumption DEF scheduler_exit_current
<1>6. /\ \A t \in Task : t # current_task => ts[t] = tasks[t]
      /\ ts[current_task].state = "exited" /\ ts[current_task].kind = Kind(current_task)
      /\ ts \in [Task -> TaskRecord]
  BY <1>2, <1>3, TaskNames DEF TaskRecord, Kind
<1> HIDE DEF ts
<1>7. NothingRuns(ts) /\ \A t \in Task : ts[t].kind = Kind(t)
  BY <1>3, <1>6 DEF NothingRuns, IInv, TasksConsistent, RunningIsCurrent, State, Kind
<1>8. /\ current_task' \in Task /\ tasks' \in [Task -> TaskRecord]
      /\ RunningIsCurrent' /\ last_selected' \in [Priority -> Slot]
  BY <1>1, <1>7, Selection DEF IInv, TasksConsistent
<1>9. /\ \A t \in Task : Kind(t)' = Kind(t)
      /\ \A t \in Task : ts[t].state \notin {"runnable", "running"} /\ t # Idle
                           => State(t)' = ts[t].state
      /\ \A t \in Task : State(t)' = "exited" => ts[t].state = "exited"
      /\ State(Idle)' \in {"runnable", "running"}
  BY <1>1, <1>3, <1>6, <1>7, SelectionKeeps DEF IInv
<1>10. TypeOK'
  BY <1>1, <1>3, <1>5, <1>8 DEF IInv, TasksConsistent, TypeOK
<1>11. QueuesAgree'
  <2>1. \A s \in Slot : wait_queue[s] # NoQueue => State(s)' = State(s)
    BY <1>4, <1>6, <1>9, TaskNames DEF IInv, TasksConsistent, QueuesAgree, State
  <2>2. QED
    BY <1>5, <2>1, QueuesKept DEF IInv, TasksConsistent
<1>12. ProcessorAgrees'
  BY <1>1, <1>5, <1>9, TaskNames DEF IInv, TasksConsistent, ProcessorAgrees, Doing, WorkTasks
<1>13. ExitFinished'
  <2>1. deferred_exit_task = None
    BY DEF scheduler_exit_current
  <2>2. \A s \in UserTasks' : s \in Slot /\ s \in UserTasks
    BY <1>9, TaskNames DEF UserTasks
  <2>3. ASSUME NEW s \in UserTasks', State(s)' = "exited"
        PROVE  s \in exited' \cup {deferred_exit_task'}
    <3>1. CASE s = current_task
      BY <1>1, <3>1
    <3>2. CASE s # current_task
      <4>1. State(s) = "exited"
        BY <1>6, <1>9, <2>2, <2>3, <3>2, TaskNames DEF State
      <4>2. s \in exited
        BY <2>1, <2>2, <4>1, TaskNames DEF IInv, ExitFinished
      <4>3. QED
        BY <1>1, <4>2
    <3>3. QED
      BY <3>1, <3>2
  <2>4. QED
    BY <1>1, <2>3 DEF ExitFinished
<1>14. QED
  BY <1>8, <1>10, <1>11, <1>12, <1>13 DEF IInv, TasksConsistent

(* A step that makes one blocked task runnable, and nothing else of the     *)
(* table, keeps all but the queues.                                         *)
LEMMA WakeKeeps ==
    ASSUME IInv, NEW task \in Slot, State(task) = "blocked",
           tasks' = [tasks EXCEPT ![task].state = "runnable"],
           \A s \in Slot : wait_queue'[s] \in {wait_queue[s], NoQueue},
           queue' \in [Queue -> Seq(Slot)],
           wait_queue' \in [Slot -> Queue \cup {NoQueue}],
           UNCHANGED <<switching, deferred_exit_task, exited, processor>>,
           wakes' \in 0 .. MaxWakes
    PROVE  /\ TypeOK' /\ RunningIsCurrent' /\ ProcessorAgrees' /\ ExitFinished'
           /\ \A s \in Slot : s # task => State(s)' = State(s)
<1>1. tasks \in [Task -> TaskRecord] /\ task \in Task /\ task # Idle
  BY TaskNames DEF IInv, TasksConsistent, TypeOK
<1>2. /\ \A t \in Task : t # task => tasks'[t] = tasks[t]
      /\ tasks'[task].state = "runnable" /\ tasks'[task].kind = tasks[task].kind
      /\ tasks' \in [Task -> TaskRecord]
  BY <1>1 DEF TaskRecord
<1>3. \A t \in Task : Kind(t)' = Kind(t)
  BY <1>2 DEF Kind
<1>4. TypeOK'
  BY <1>2 DEF IInv, TasksConsistent, TypeOK, switching, processor
<1>5. RunningIsCurrent'
  BY <1>1, <1>2 DEF IInv, TasksConsistent, RunningIsCurrent, State, switching
<1>6. ProcessorAgrees'
  BY <1>1, <1>2, <1>3, TaskNames
     DEF IInv, TasksConsistent, ProcessorAgrees, Doing, UserTasks, WorkTasks, State,
         switching, processor
<1>7. ExitFinished'
  BY <1>2, <1>3, TaskNames DEF IInv, ExitFinished, UserTasks, State, processor
<1>8. QED
  BY <1>2, <1>4, <1>5, <1>6, <1>7, TaskNames DEF State

(* Waking the head of a queue unlinks it: the rest of the queue moves up.   *)
LEMMA WakeWaiterStep == ASSUME IInv, WakeWaiter PROVE IInv'
<1>1. PICK q \in Queue : wait_queue_wake_one(q)
  BY DEF WakeWaiter
<1> DEFINE task == queue[q][1]
           n == Len(queue[q])
<1>2. /\ queue \in [Queue -> Seq(Slot)] /\ queue[q] \in Seq(Slot) /\ queue[q] # <<>>
      /\ wait_queue \in [Slot -> Queue \cup {NoQueue}]
  BY <1>1 DEF wait_queue_wake_one, IInv, TasksConsistent, TypeOK
<1>3. /\ n \in Nat \ {0} /\ DOMAIN queue[q] = 1 .. n /\ 1 \in DOMAIN queue[q]
      /\ \A i \in 1 .. n : queue[q][i] \in Slot
  BY <1>2
<1>4. task \in Slot /\ wait_queue[task] = q
  BY <1>3 DEF IInv, TasksConsistent, QueuesAgree
<1>5. State(task) = "blocked"
  BY <1>4, SchedulerAssumption DEF IInv, TasksConsistent, QueuesAgree
<1>6. /\ tasks' = [tasks EXCEPT ![task].state = "runnable"]
      /\ wait_queue' = [wait_queue EXCEPT ![task] = NoQueue]
      /\ queue' = [queue EXCEPT ![q] = Tail(@)]
      /\ UNCHANGED <<switching, deferred_exit_task, exited, processor, wakes>>
  BY <1>1, <1>5 DEF wait_queue_wake_one, WakeWaiter
<1>7. Tail(queue[q]) \in Seq(Slot)
  BY <1>2
<1>8. /\ queue' \in [Queue -> Seq(Slot)] /\ wait_queue' \in [Slot -> Queue \cup {NoQueue}]
      /\ \A s \in Slot : s # task => wait_queue'[s] = wait_queue[s]
      /\ wait_queue'[task] = NoQueue
      /\ \A r \in Queue : r # q => queue'[r] = queue[r]
      /\ queue'[q] = Tail(queue[q])
  BY <1>2, <1>4, <1>6, <1>7
<1>9. wakes' \in 0 .. MaxWakes
  BY <1>6 DEF IInv, TasksConsistent, TypeOK
<1>10. /\ DOMAIN queue'[q] = 1 .. n - 1
       /\ \A i \in 1 .. n - 1 : i + 1 \in 1 .. n /\ queue'[q][i] = queue[q][i + 1]
  BY <1>2, <1>3, <1>8
<1>11. \A i \in 1 .. n : wait_queue[queue[q][i]] = q
  BY <1>3 DEF IInv, TasksConsistent, QueuesAgree
<1>12. \A i, j \in 1 .. n : queue[q][i] = queue[q][j] => i = j
  BY <1>3 DEF IInv, TasksConsistent, QueuesAgree
<1> HIDE DEF task, n
<1>13. /\ TypeOK' /\ RunningIsCurrent' /\ ProcessorAgrees' /\ ExitFinished'
       /\ \A s \in Slot : s # task => State(s)' = State(s)
  BY <1>4, <1>5, <1>6, <1>8, <1>9, WakeKeeps
<1>14. QueuesAgree'
  <2>1. ASSUME NEW s \in Slot, wait_queue'[s] # NoQueue
        PROVE  /\ State(s)' = "blocked"
               /\ \E i \in DOMAIN queue'[wait_queue'[s]] : queue'[wait_queue'[s]][i] = s
    <3>1. s # task /\ wait_queue'[s] = wait_queue[s] /\ wait_queue[s] \in Queue
      BY <1>2, <1>8, <2>1
    <3>2. PICK i \in DOMAIN queue[wait_queue[s]] : queue[wait_queue[s]][i] = s
      BY <2>1, <3>1 DEF IInv, TasksConsistent, QueuesAgree
    <3>3. State(s)' = "blocked"
      BY <1>13, <2>1, <3>1 DEF IInv, TasksConsistent, QueuesAgree
    <3>4. CASE wait_queue[s] # q
      BY <1>8, <3>1, <3>2, <3>3, <3>4
    <3>5. CASE wait_queue[s] = q
      <4>1. i \in 1 .. n /\ i # 1
        BY <1>3, <3>1, <3>2, <3>5 DEF task, n
      <4>2. i - 1 \in 1 .. n - 1 /\ (i - 1) + 1 = i
        BY <1>3, <4>1
      <4>3. queue'[q][i - 1] = s
        BY <1>10, <3>2, <3>5, <4>2
      <4>4. QED
        BY <1>10, <3>1, <3>3, <3>5, <4>2, <4>3
    <3>6. QED
      BY <3>4, <3>5
  <2>2. ASSUME NEW r \in Queue, NEW i \in DOMAIN queue'[r]
        PROVE  /\ wait_queue'[queue'[r][i]] = r
               /\ \A j \in DOMAIN queue'[r] : queue'[r][i] = queue'[r][j] => i = j
    <3>1. CASE r # q
      <4>1. queue'[r] = queue[r] /\ queue[r] \in Seq(Slot) /\ i \in DOMAIN queue[r]
        BY <1>2, <1>8, <3>1
      <4>2. queue[r][i] \in Slot /\ wait_queue[queue[r][i]] = r
        BY <4>1 DEF IInv, TasksConsistent, QueuesAgree
      <4>3. queue[r][i] # task
        BY <1>4, <3>1, <4>2
      <4>4. QED
        BY <1>8, <4>1, <4>2, <4>3 DEF IInv, TasksConsistent, QueuesAgree
    <3>2. CASE r = q
      <4>1. i \in 1 .. n - 1
        BY <1>10, <3>2
      <4>2. queue'[q][i] = queue[q][i + 1] /\ i + 1 \in 1 .. n /\ i + 1 # 1
        BY <1>3, <1>10, <4>1
      <4>3. 1 \in 1 .. n /\ queue[q][1] = task
        BY <1>3 DEF task
      <4>4. queue[q][i + 1] # task
        BY <1>12, <4>2, <4>3
      <4>5. wait_queue'[queue'[q][i]] = q
        BY <1>3, <1>8, <1>11, <4>2, <4>4
      <4>6. ASSUME NEW j \in 1 .. n - 1, queue'[q][i] = queue'[q][j] PROVE i = j
        <5>1. i + 1 = j + 1
          BY <1>10, <1>12, <4>1, <4>2, <4>6
        <5>2. QED
          BY <1>3, <4>1, <5>1
      <4>7. QED
        BY <1>10, <3>2, <4>5, <4>6
    <3>3. QED
      BY <3>1, <3>2
  <2>3. QED
    BY <2>1, <2>2 DEF QueuesAgree
<1>15. QED
  BY <1>13, <1>14 DEF IInv, TasksConsistent

(* Kernel work waits on no queue, so waking it moves none.                  *)
LEMMA WakeWorkStep == ASSUME IInv, WakeWork PROVE IInv'
<1>1. PICK task \in WorkTasks : scheduler_wake_task(task)
  BY DEF WakeWork
<1>2. task \in Slot /\ wait_queue[task] = NoQueue
  BY DEF WorkTasks, IInv, TasksConsistent, ProcessorAgrees
<1>3. /\ wait_queue \in [Slot -> Queue \cup {NoQueue}] /\ queue \in [Queue -> Seq(Slot)]
      /\ wakes \in 0 .. MaxWakes
  BY DEF IInv, TasksConsistent, TypeOK
<1>4. UNCHANGED <<wait_queue, queue>>
  BY <1>1, <1>2, <1>3, SchedulerAssumption DEF scheduler_wake_task
<1>5. wakes' \in 0 .. MaxWakes
  BY <1>3, SchedulerAssumption DEF WakeWork
<1>6. /\ State(task) = "blocked" /\ tasks' = [tasks EXCEPT ![task].state = "runnable"]
      /\ UNCHANGED <<switching, deferred_exit_task, exited, processor>>
  BY <1>1 DEF scheduler_wake_task, WakeWork
<1>7. /\ TypeOK' /\ RunningIsCurrent' /\ ProcessorAgrees' /\ ExitFinished'
      /\ \A s \in Slot : s # task => State(s)' = State(s)
  BY <1>2, <1>3, <1>4, <1>5, <1>6, WakeKeeps
<1>8. QueuesAgree'
  BY <1>2, <1>4, <1>7, QueuesKept DEF IInv, TasksConsistent
<1>9. QED
  BY <1>7, <1>8 DEF IInv, TasksConsistent

(* The tick gives the processor to another process or back to what it       *)
(* interrupted.                                                             *)
LEMMA TickStep == ASSUME IInv, scheduler_on_timer_interrupt PROVE IInv'
<1> DEFINE preempts == saved = "user" /\ current_task \in UserTasks
                       /\ State(current_task) = "running"
           departed == [tasks EXCEPT ![current_task].state = "runnable"]
           selected == RoundRobin(ReadyUsers(departed), UserPriority)
<1>1. /\ cpu = "tick" /\ interrupts' = TRUE
      /\ cpu' = IF saved = "halted" THEN "select" ELSE saved
      /\ UNCHANGED <<wait_queue, queue, deferred_exit_task, exited, saved, work_task, wakes>>
  BY DEF scheduler_on_timer_interrupt
<1>2. CASE ~ preempts
  <2>1. UNCHANGED <<tasks, switching>>
    BY <1>2 DEF scheduler_on_timer_interrupt
  <2>2. TypeOK'
    BY <1>1, <2>1 DEF IInv, TasksConsistent, TypeOK, switching
  <2>3. RunningIsCurrent' /\ QueuesAgree'
    BY <1>1, <2>1, TablesKept DEF IInv, TasksConsistent, switching
  <2>4. ProcessorAgrees'
    BY <1>1, <2>1 DEF IInv, TasksConsistent, TypeOK, ProcessorAgrees, Doing, switching,
                      UserTasks, WorkTasks, Kind, State
  <2>5. ExitFinished'
    BY <1>1, <2>1 DEF IInv, ExitFinished, UserTasks, Kind, State
  <2>6. QED
    BY <2>2, <2>3, <2>4, <2>5 DEF IInv, TasksConsistent
<1>3. CASE preempts
  <2>1. /\ tasks' = [departed EXCEPT ![selected].state = "running"]
        /\ current_task' = selected
        /\ last_selected' = [last_selected EXCEPT ![UserPriority] = selected]
    BY <1>3 DEF scheduler_on_timer_interrupt
  <2>2. tasks \in [Task -> TaskRecord] /\ current_task \in Slot /\ current_task \in Task
    BY <1>3, TaskNames DEF IInv, TasksConsistent, TypeOK, UserTasks
  <2>3. /\ \A t \in Task : t # current_task => departed[t] = tasks[t]
        /\ departed[current_task].state = "runnable"
        /\ \A t \in Task : departed[t].kind = Kind(t)
        /\ departed \in [Task -> TaskRecord]
    BY <2>2 DEF TaskRecord, Kind
  <2> HIDE DEF departed
  <2>4. ReadyUsers(departed) \in SUBSET Slot /\ current_task \in ReadyUsers(departed)
    BY <1>3, <2>2, <2>3 DEF ReadyUsers, UserTasks
  <2>5. UserPriority \in Priority
    BY SchedulerAssumption DEF Priority, UserPriority
  <2>6. selected \in ReadyUsers(departed)
    BY <2>4, <2>5, RoundRobinSelects DEF IInv, TasksConsistent
  <2> HIDE DEF selected
  <2>7. /\ selected \in Slot /\ selected \in Task /\ selected # Idle
        /\ departed[selected].state = "runnable" /\ departed[selected].kind = "user"
    BY <2>6, TaskNames DEF ReadyUsers
  <2>8. /\ \A t \in Task : t # selected => tasks'[t] = departed[t]
        /\ tasks'[selected].state = "running" /\ tasks'[selected].kind = "user"
        /\ tasks' \in [Task -> TaskRecord]
    BY <2>1, <2>3, <2>7 DEF TaskRecord
  <2>9. \A t \in Task : Kind(t)' = Kind(t)
    BY <2>3, <2>7, <2>8 DEF Kind
  <2>10. TypeOK'
    <3>1. last_selected' \in [Priority -> Slot]
      BY <2>1, <2>7 DEF IInv, TasksConsistent, TypeOK
    <3>2. QED
      BY <1>1, <2>1, <2>7, <2>8, <3>1 DEF IInv, TasksConsistent, TypeOK
  <2>11. RunningIsCurrent'
    BY <2>1, <2>3, <2>7, <2>8 DEF IInv, TasksConsistent, RunningIsCurrent, State
  <2>12. \A s \in Slot : State(s) \notin {"running", "runnable"} => State(s)' = State(s)
    BY <1>3, <2>3, <2>7, <2>8, TaskNames DEF State
  <2>13. QueuesAgree'
    BY <1>1, <2>12, QueuesKept DEF IInv, TasksConsistent, QueuesAgree
  <2>14. State(Idle)' = State(Idle)
    BY <2>2, <2>3, <2>7, <2>8, TaskNames DEF State
  <2>15. ProcessorAgrees'
    <3>1. current_task' \in UserTasks' /\ Doing' = "user"
      BY <1>1, <1>3, <2>1, <2>7, <2>8 DEF UserTasks, Kind, Doing
    <3>2. QED
      BY <1>1, <2>9, <2>14, <3>1, TaskNames
         DEF IInv, TasksConsistent, ProcessorAgrees, WorkTasks
  <2>16. ExitFinished'
    BY <1>1, <2>3, <2>7, <2>8, <2>9, TaskNames DEF IInv, ExitFinished, UserTasks, State
  <2>17. QED
    BY <2>10, <2>11, <2>13, <2>15, <2>16 DEF IInv, TasksConsistent
<1>4. QED
  BY <1>2, <1>3

-----------------------------------------------------------------------------
(* Every step of the scheduler keeps the invariant.                         *)
LEMMA InvariantStep == IInv /\ [Next]_vars => IInv'
<1> SUFFICES ASSUME IInv, [Next]_vars PROVE IInv'
  OBVIOUS
<1>1. CASE UNCHANGED vars
  <2>1. UNCHANGED <<tasks, wait_queue, queue, current_task, deferred_exit_task,
                    last_selected, exited, cpu, saved, interrupts, work_task, wakes>>
    BY <1>1 DEF vars, switching, processor
  <2>2. QED
    BY <2>1, TablesKept
       DEF IInv, TasksConsistent, TypeOK, ProcessorAgrees, ExitFinished, Doing, UserTasks,
           WorkTasks, Kind, State
<1>2. CASE Next
  BY <1>2, BootSteps, ProcessorSteps, LoopSelectsStep, WorkReturnsStep, SyscallBlocksStep,
     ExitStep, WakeWaiterStep, WakeWorkStep, TickStep
     DEF Next, Loop
<1>3. QED
  BY <1>1, <1>2

(* No task is lost: with a task table of any size, any priorities and any   *)
(* wait queues, exactly the current task is running, the queues and the     *)
(* tasks agree on who waits where, and the processor runs for the current   *)
(* task (scheduler.c, wait_queue.c).                                        *)
THEOREM TasksStayConsistent == Spec => []TasksConsistent
<1>1. IInv => TasksConsistent
  BY DEF IInv
<1>2. QED
  BY <1>1, InitInvariant, InvariantStep, PTL DEF Spec

(* An exit is finished before anything else runs: scheduler_exit_current    *)
(* never finds another exit pending, and every process that left has been   *)
(* marked exited once the resume path is over.                              *)
THEOREM ExitsFinish == Spec => []ExitFinished
<1>1. IInv => ExitFinished
  BY DEF IInv
<1>2. QED
  BY <1>1, InitInvariant, InvariantStep, PTL DEF Spec
=============================================================================
