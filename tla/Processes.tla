----------------------------- MODULE Processes -----------------------------
(***************************************************************************)
(* Processes and their memory: the start of the system modules at boot     *)
(* (kernel/process/process.c, kernel/process/loader.c,                     *)
(* boot/system_modules/descriptor.c), the address spaces                   *)
(* (kernel/memory/virtual.c), the changes of address space and kernel      *)
(* stack when a process runs, calls and exits (kernel/syscall/dispatch.c,  *)
(* kernel/scheduler/scheduler.c, arch/x86_64/context.S) and the buffer of  *)
(* the file service (kernel/runtime.c), all over one page allocator.       *)
(*                                                                         *)
(* A virtual page is the tuple of its four table indices.  The table that  *)
(* a proper prefix leads to is kept under that prefix, so that an address  *)
(* space is its root, a function from prefixes to table pages and one from *)
(* virtual pages to the pages it owns.  The creation of a process is a     *)
(* sequence of steps, one for each page that is asked for or given back.   *)
(***************************************************************************)
EXTENDS PhysicalMemory, Functions

CONSTANTS ModuleTables,       \* the module tables the loader may hand over
          Slot,               \* process_table, IOS_PROCESS_MAX_COUNT
          TaskCapacity,       \* IOS_SCHEDULER_MAX_TASKS
          UserStack,          \* the virtual pages of the user stack, in order
          KernelStackPages,   \* IOS_PROCESS_KERNEL_STACK_PAGES
          FatSizes            \* pages the FAT of a volume needs

Virtual == [1 .. 4 -> Nat]                        \* a virtual page
Path == [1 .. 1 -> Nat] \cup [1 .. 2 -> Nat] \cup [1 .. 3 -> Nat]   \* to a page table
PageRun == Seq(Virtual) \ {<<>>}                  \* a segment without pages is skipped

ModuleDescriptor ==
    [role : {"SHELL", "GUI_DESKTOP", "GUI_TERMINAL", "FILE_EXPLORER", "APPLICATION"},
     required : BOOLEAN, identity : Nat, valid : BOOLEAN, well_formed : BOOLEAN,
     entry : Virtual, segments : Seq([pages : PageRun, execute : BOOLEAN])]

ASSUME ProcessesAssumption ==
    /\ ModuleTables \subseteq Seq(ModuleDescriptor)
    /\ IsFiniteSet(Slot) /\ Slot = 1 .. Cardinality(Slot)
    /\ TaskCapacity \in Nat
    /\ KernelStackPages \in Nat \ {0}
    /\ FatSizes \subseteq Nat \ {0}
    /\ UserStack \in PageRun

VARIABLES modules,            \* the module table of this boot
          processes,          \* process_table
          task_count,         \* tasks the scheduler holds
          pc,                 \* where the boot is, or where the kernel is
          queue,              \* modules still to start
          job,                \* the process_create_from_module under way
          cpu,                \* CR3, stack pointer, entry stack, task
          fat                 \* the buffer of the file service

vars == <<pages, modules, processes, task_count, pc, queue, job, cpu, fat>>

None == 0
KernelRoot == -1
BootstrapStack == -1
UserMode == -2

Unused == [state |-> "UNUSED", identity |-> None, root |-> None, tables |-> <<>>,
           leaves |-> <<>>, kernel_stack |-> None]
NoJob == [slot |-> None, module |-> None, part |-> 1, page |-> 1, created |-> {}, base |-> None]

Prefix(v, k) == [i \in 1 .. k |-> v[i]]

(* The way to u leads through the table t.                                 *)
IsBelow(u, t) ==
    /\ DOMAIN t \subseteq DOMAIN u /\ DOMAIN t # DOMAIN u
    /\ \A i \in DOMAIN t : u[i] = t[i]

With(f, x, y) == [z \in DOMAIN f \cup {x} |-> IF z = x THEN y ELSE f[z]]

KernelStack(p) == IF p.kernel_stack = None THEN {} ELSE Run(p.kernel_stack, KernelStackPages)
AddressSpace(p) == Range(p.tables) \cup Range(p.leaves) \cup ({p.root} \ {None})

-----------------------------------------------------------------------------
(* Validation and order of the modules.                                    *)

(* Modules must not share an identity or, the applications aside, a role.  *)
Distinct(table, indices) ==
    \A i, j \in indices : i # j =>
        /\ table[i].identity # table[j].identity
        /\ table[i].role = table[j].role => table[i].role = "APPLICATION"

(* The table as kernel_main looks at it, before the digests: all of it     *)
(* distinct, with one shell, which is required.                            *)
module_table_validate(table) ==
    /\ Distinct(table, DOMAIN table)
    /\ \E i \in DOMAIN table : table[i].role = "SHELL" /\ table[i].required

(* The same of the modules whose digest is right, and the shell is one.    *)
system_module_set_validate(table) ==
    LET valid == {i \in DOMAIN table : table[i].valid}
    IN  /\ Distinct(table, valid)
        /\ \A i \in DOMAIN table : table[i].role = "SHELL" => i \in valid /\ table[i].required
        /\ \E i \in valid : table[i].role = "SHELL"

system_module_startup_rank(role) ==
    CASE role = "SHELL" -> 0 [] role = "GUI_DESKTOP" -> 1 [] role = "GUI_TERMINAL" -> 2
      [] role = "FILE_EXPLORER" -> 3 [] OTHER -> 4

(* The module that is tried next: the lowest rank, then the lowest index.  *)
NextModule ==
    LET Before(i, j) == LET a == system_module_startup_rank(modules[i].role)
                            b == system_module_startup_rank(modules[j].role)
                        IN  a < b \/ (a = b /\ i <= j)
    IN  CHOOSE i \in queue : \A j \in queue : Before(i, j)

(* The loader's verdict on an image, before anything is mapped.            *)
ImageIsLoadable(m) ==
    /\ m.well_formed
    /\ \E s \in Range(m.segments) : s.execute /\ m.entry \in Range(s.pages)
    /\ \A i, j \in DOMAIN m.segments :
         i # j => Range(m.segments[i].pages) \cap Range(m.segments[j].pages) = {}

(* What is mapped for a process: its segments, then its stack.             *)
Parts(m) == [i \in 1 .. Len(m.segments) + 1 |->
                IF i <= Len(m.segments) THEN m.segments[i].pages ELSE UserStack]

-----------------------------------------------------------------------------
Init ==
    /\ physical_memory_initialize
    /\ modules \in ModuleTables
    /\ processes = [s \in Slot |-> Unused]
    /\ task_count = 0
    /\ pc = "validate"
    /\ queue = DOMAIN modules
    /\ job = NoJob
    /\ cpu = [cr3 |-> KernelRoot, rsp |-> BootstrapStack, entry_stack |-> None,
              current |-> None, deferred |-> None]
    /\ fat = [base |-> None, count |-> 0, old |-> {}]

(* kernel_main, then process_start_system_modules: the whole table first.  *)
ValidateModules ==
    /\ pc = "validate"
    /\ pc' = IF module_table_validate(modules) /\ system_module_set_validate(modules)
             THEN "next" ELSE "panic"
    /\ UNCHANGED <<pages, modules, processes, task_count, queue, job, cpu, fat>>

(* A failure ends the boot for the shell and for required modules.         *)
AfterFailure(m) == IF m.role = "SHELL" \/ m.required THEN "panic" ELSE "next"

(* One turn of the loop over ranks and modules, as far as the slot: an     *)
(* invalid module is passed over, and so is one whose slot is not there.   *)
StartModule ==
    /\ pc = "next"
    /\ queue # {}
    /\ LET m == modules[NextModule]
           free == {s \in Slot : processes[s].state = "UNUSED"}
           slot == Min(free)
           exists == \E s \in Slot \ free : processes[s].identity = m.identity
       IN  IF ~m.valid
           THEN pc' = "next" /\ UNCHANGED <<processes, job>>
           ELSE IF exists \/ free = {}
           THEN pc' = AfterFailure(m) /\ UNCHANGED <<processes, job>>
           ELSE /\ processes' = [processes EXCEPT ![slot] =
                                   [Unused EXCEPT !.state = "CREATED", !.identity = m.identity]]
                /\ job' = [NoJob EXCEPT !.slot = slot, !.module = NextModule]
                /\ pc' = "root"
    /\ queue' = queue \ {NextModule}
    /\ UNCHANGED <<pages, modules, task_count, cpu, fat>>

BootDone ==
    /\ pc = "next"
    /\ queue = {}
    /\ pc' = "idle"
    /\ UNCHANGED <<pages, modules, processes, task_count, queue, job, cpu, fat>>

-----------------------------------------------------------------------------
(* process_create_from_module.                                             *)

Creating == processes[job.slot]
Module == modules[job.module]
Part == Parts(Module)[job.part]
VirtualPage == Part[job.page]

(* One call of physical_allocate_pages: it finds a run of pages, or its    *)
(* failure leads elsewhere.                                                *)
Allocated(n) == Found(n) # NoRun /\ Take(Found(n), n)
Denied(n, failed) == OutOfMemory(n) /\ pc' = failed /\ UNCHANGED <<processes, job>>

virtual_address_space_create ==
    /\ pc = "root"
    /\ \/ /\ Allocated(1)
          /\ processes' = [processes EXCEPT ![job.slot].root = Found(1)]
          /\ job' = job
          /\ pc' = IF ImageIsLoadable(Module) THEN "part" ELSE "destroy"
       \/ Denied(1, "destroy")
    /\ UNCHANGED <<modules, task_count, queue, cpu, fat>>

(* map_segment, and the same for the stack: the pages, before their maps.  *)
AllocatePart ==
    /\ pc = "part"
    /\ \/ /\ Allocated(Len(Part))
          /\ job' = [job EXCEPT !.base = Found(Len(Part)), !.page = 1]
          /\ pc' = "map"
          /\ UNCHANGED processes
       \/ Denied(Len(Part), "destroy")
    /\ UNCHANGED <<modules, task_count, queue, cpu, fat>>

Missing == {k \in 1 .. 3 : Prefix(VirtualPage, k) \notin DOMAIN Creating.tables}

(* map_one as far as a table that is not there.                            *)
ensure_next_table ==
    /\ pc = "map"
    /\ Missing # {}
    /\ LET prefix == Prefix(VirtualPage, Min(Missing))
       IN  \/ /\ Allocated(1)
              /\ processes' = [processes EXCEPT ![job.slot].tables = With(@, prefix, Found(1))]
              /\ job' = [job EXCEPT !.created = @ \cup {prefix}]
              /\ pc' = pc
           \/ Denied(1, "undo_tables")
    /\ UNCHANGED <<modules, task_count, queue, cpu, fat>>

(* The rest of map_one: IOS_E_ALREADY_EXISTS, or the leaf; then the next   *)
(* page, the next part or the kernel stack.                                *)
map_one ==
    /\ pc = "map"
    /\ Missing = {}
    /\ IF VirtualPage \in DOMAIN Creating.leaves
       THEN pc' = "undo_tables" /\ UNCHANGED <<processes, job>>
       ELSE /\ processes' = [processes EXCEPT ![job.slot].leaves =
                               With(@, VirtualPage, job.base + job.page - 1)]
            /\ IF job.page < Len(Part)
               THEN /\ job' = [job EXCEPT !.page = @ + 1, !.created = {}]
                    /\ pc' = pc
               ELSE /\ job' = [job EXCEPT !.part = @ + 1, !.page = 1, !.created = {}, !.base = None]
                    /\ pc' = IF job.part < Len(Parts(Module)) THEN "part" ELSE "kernel_stack"
    /\ UNCHANGED <<pages, modules, task_count, queue, cpu, fat>>

(* map_one fails: the tables it made itself are given back.                *)
UndoTables ==
    /\ pc = "undo_tables"
    /\ Release({Creating.tables[t] : t \in job.created})
    /\ processes' = [processes EXCEPT ![job.slot].tables = Restrict(@, DOMAIN @ \ job.created)]
    /\ job' = [job EXCEPT !.created = {}]
    /\ pc' = "undo_pages"
    /\ UNCHANGED <<modules, task_count, queue, cpu, fat>>

(* The tables on the way to a page that hold nothing else.                 *)
EmptiedTables(p, v) ==
    {t \in DOMAIN p.tables :
        /\ IsBelow(v, t)
        /\ \A u \in (DOMAIN p.leaves \cup DOMAIN p.tables) \ {v} : IsBelow(u, t) => IsBelow(v, u)}

Unmapped(p, v) ==
    [p EXCEPT !.leaves = Restrict(@, DOMAIN @ \ {v}),
              !.tables = Restrict(@, DOMAIN @ \ EmptiedTables(p, v))]

(* Faulty: the pages are unmapped, and the loop never gets to the last.    *)
UndoPages_stuck ==
    /\ pc = "undo_pages"
    /\ IF job.page > 1
       THEN UNCHANGED <<pages, processes, job, pc>>
       ELSE /\ Release(Run(job.base, Len(Part)))
            /\ job' = [job EXCEPT !.base = None]
            /\ pc' = "destroy"
            /\ UNCHANGED processes
    /\ UNCHANGED <<modules, task_count, queue, cpu, fat>>

(* Faulty: the caller forgets the run it asked for.                        *)
UndoPages_leak ==
    /\ pc = "undo_pages"
    /\ IF job.page > 1
       THEN LET v == Part[job.page - 1]
            IN  /\ Release({Creating.tables[t] : t \in EmptiedTables(Creating, v)})
                /\ processes' = [processes EXCEPT ![job.slot] = Unmapped(@, v)]
                /\ job' = [job EXCEPT !.page = @ - 1]
                /\ pc' = pc
       ELSE /\ job' = [job EXCEPT !.base = None]
            /\ pc' = "destroy"
            /\ UNCHANGED <<pages, processes>>
    /\ UNCHANGED <<modules, task_count, queue, cpu, fat>>

(* virtual_map_pages fails: the pages it has mapped, last first, without   *)
(* giving them back; then its caller gives back the run as a whole.        *)
UndoPages ==
    /\ pc = "undo_pages"
    /\ IF job.page > 1
       THEN LET v == Part[job.page - 1]
            IN  /\ Release({Creating.tables[t] : t \in EmptiedTables(Creating, v)})
                /\ processes' = [processes EXCEPT ![job.slot] = Unmapped(@, v)]
                /\ job' = [job EXCEPT !.page = @ - 1]
                /\ pc' = pc
       ELSE /\ Release(Run(job.base, Len(Part)))
            /\ job' = [job EXCEPT !.base = None]
            /\ pc' = "destroy"
            /\ UNCHANGED processes
    /\ UNCHANGED <<modules, task_count, queue, cpu, fat>>

AllocateKernelStack ==
    /\ pc = "kernel_stack"
    /\ \/ /\ Allocated(KernelStackPages)
          /\ processes' = [processes EXCEPT ![job.slot].kernel_stack = Found(KernelStackPages)]
          /\ job' = job
          /\ pc' = "launch"
       \/ Denied(KernelStackPages, "destroy")
    /\ UNCHANGED <<modules, task_count, queue, cpu, fat>>

(* The process becomes runnable and launch_process hands it to the         *)
(* scheduler, which may have no room.                                      *)
launch_process ==
    /\ pc = "launch"
    /\ processes' = [processes EXCEPT ![job.slot].state = "RUNNABLE"]
    /\ IF task_count < TaskCapacity
       THEN /\ task_count' = task_count + 1
            /\ job' = NoJob
            /\ pc' = "next"
       ELSE /\ pc' = "destroy"
            /\ UNCHANGED <<task_count, job>>
    /\ UNCHANGED <<pages, modules, queue, cpu, fat>>

process_destroy ==
    /\ pc = "destroy"
    /\ Release(KernelStack(Creating) \cup AddressSpace(Creating))
    /\ processes' = [processes EXCEPT ![job.slot] = Unused]
    /\ pc' = AfterFailure(Module)
    /\ job' = NoJob
    /\ UNCHANGED <<modules, task_count, queue, cpu, fat>>

-----------------------------------------------------------------------------
(* Running, calling and leaving.  Between "idle" (the scheduler's loop on  *)
(* the bootstrap stack) and "user" the kernel runs with interrupts off.    *)

Runnable == {s \in Slot : processes[s].state = "RUNNABLE" /\ s # cpu.deferred}

(* process_activate: address space and entry stack, not the stack in use.  *)
Activated(s) == [cpu EXCEPT !.cr3 = processes[s].root,
                            !.entry_stack = processes[s].kernel_stack,
                            !.current = s]

(* scheduler_run_current finds a user process.                             *)
scheduler_run_current ==
    /\ pc = "idle"
    /\ \E s \in Runnable : cpu' = [Activated(s) EXCEPT !.rsp = UserMode]
    /\ pc' = "user"
    /\ UNCHANGED <<pages, modules, processes, task_count, queue, job, fat>>

(* scheduler_on_timer_interrupt, from user mode, on the entry stack, which *)
(* the return from the interrupt leaves.                                   *)
scheduler_on_timer_interrupt ==
    /\ pc = "user"
    /\ \E s \in Runnable : cpu' = Activated(s)
    /\ UNCHANGED <<pages, modules, processes, task_count, pc, queue, job, fat>>

(* x86_64_syscall_entry: the stack of the entry.                           *)
SyscallEntry ==
    /\ pc = "user"
    /\ cpu' = [cpu EXCEPT !.rsp = cpu.entry_stack]
    /\ pc' = "syscall"
    /\ UNCHANGED <<pages, modules, processes, task_count, queue, job, fat>>

(* Faulty: the exiting process's tables stay in CR3 while the kernel idles.*)
syscall_dispatch_frame_stays ==
    /\ pc = "syscall"
    /\ \E exits \in BOOLEAN, next \in Slot \cup {None} :
         LET left == IF exits THEN Runnable \ {cpu.current} ELSE Runnable
         IN  /\ next \in left \cup {None}
             /\ cpu' = [(IF next # None THEN Activated(next)
                         ELSE [cpu EXCEPT !.current = None])
                        EXCEPT !.deferred = IF exits THEN cpu.current ELSE @]
    /\ pc' = "resume"
    /\ UNCHANGED <<pages, modules, processes, task_count, queue, job, fat>>

(* syscall_dispatch_frame.  The call is an exit (scheduler_exit_current)   *)
(* or any other, which may block and choose another task; the task that is *)
(* current afterwards is activated, the kernel's own tables if it has none.*)
syscall_dispatch_frame ==
    /\ pc = "syscall"
    /\ \E exits \in BOOLEAN, next \in Slot \cup {None} :
         LET left == IF exits THEN Runnable \ {cpu.current} ELSE Runnable
         IN  /\ next \in left \cup {None}
             /\ cpu' = [(IF next # None THEN Activated(next)
                         ELSE [cpu EXCEPT !.cr3 = KernelRoot, !.current = None])
                        EXCEPT !.deferred = IF exits THEN cpu.current ELSE @]
    /\ pc' = "resume"
    /\ UNCHANGED <<pages, modules, processes, task_count, queue, job, fat>>

(* x86_64_resume_user_context leaves the stack of the caller ...           *)
x86_64_resume_user_context ==
    /\ pc = "resume"
    /\ cpu' = [cpu EXCEPT !.rsp = IF cpu.current = None THEN BootstrapStack ELSE cpu.entry_stack]
    /\ pc' = "finish"
    /\ UNCHANGED <<pages, modules, processes, task_count, queue, job, fat>>

(* ... before scheduler_finish_switch calls process_mark_exited.           *)
scheduler_finish_switch ==
    /\ pc = "finish"
    /\ IF cpu.deferred = None THEN UNCHANGED <<pages, processes>>
       ELSE LET p == processes[cpu.deferred]
            IN  /\ Release(KernelStack(p) \cup AddressSpace(p))
                /\ processes' = [processes EXCEPT ![cpu.deferred] =
                                   [Unused EXCEPT !.state = "EXITED", !.identity = p.identity]]
    /\ cpu' = [cpu EXCEPT !.deferred = None, !.rsp = IF cpu.current = None THEN @ ELSE UserMode]
    /\ pc' = IF cpu.current = None THEN "idle" ELSE "user"
    /\ UNCHANGED <<modules, task_count, queue, job, fat>>

(* process_collect: nothing in the kernel calls it yet.                    *)
process_collect(s) ==
    /\ pc = "idle"
    /\ processes[s].state = "EXITED"
    /\ processes' = [processes EXCEPT ![s] = Unused]
    /\ UNCHANGED <<pages, modules, task_count, pc, queue, job, cpu, fat>>

(* virtual_unmap_pages of one page: nothing in the kernel calls it yet.    *)
virtual_unmap_pages(s) ==
    /\ pc = "idle"
    /\ processes[s].state = "RUNNABLE"
    /\ \E v \in DOMAIN processes[s].leaves :
         /\ Release({processes[s].tables[t] : t \in EmptiedTables(processes[s], v)}
                      \cup {processes[s].leaves[v]})
         /\ processes' = [processes EXCEPT ![s] = Unmapped(@, v)]
    /\ UNCHANGED <<modules, task_count, pc, queue, job, cpu, fat>>

(* runtime_mount_ready asks for a larger buffer before it gives the old    *)
(* one back, and keeps the old one if there is none.                       *)
runtime_mount_ready(n) ==
    /\ pc = "idle"
    /\ fat.count < n
    /\ \/ /\ Allocated(n)
          /\ fat' = [base |-> Found(n), count |-> n,
                     old |-> IF fat.base = None THEN {} ELSE Run(fat.base, fat.count)]
          /\ pc' = "mounted"
          /\ UNCHANGED <<processes, job>>
       \/ Denied(n, "idle") /\ UNCHANGED fat
    /\ UNCHANGED <<modules, task_count, queue, cpu>>

FreeOldFat ==
    /\ pc = "mounted"
    /\ Release(fat.old)
    /\ fat' = [fat EXCEPT !.old = {}]
    /\ pc' = "idle"
    /\ UNCHANGED <<modules, processes, task_count, queue, job, cpu>>

(* physical_reclaim_pages: nothing in the kernel calls it yet.             *)
Reclaim ==
    /\ pc = "idle"
    /\ \E first \in Page, n \in 1 .. 2 : physical_reclaim_pages(first, n)
    /\ UNCHANGED <<modules, processes, task_count, pc, queue, job, cpu, fat>>

(* boot_failure halts the machine; with nobody to run, the idle loop turns.*)
Halted == pc = "panic" /\ UNCHANGED vars
scheduler_idle_loop == pc = "idle" /\ Runnable = {} /\ UNCHANGED vars

Creation ==
    \/ virtual_address_space_create \/ AllocatePart \/ ensure_next_table \/ map_one
    \/ UndoTables \/ UndoPages \/ AllocateKernelStack \/ launch_process \/ process_destroy

Boot == ValidateModules \/ StartModule \/ BootDone \/ Creation

Running ==
    \/ scheduler_run_current \/ scheduler_on_timer_interrupt \/ SyscallEntry
    \/ syscall_dispatch_frame \/ x86_64_resume_user_context \/ scheduler_finish_switch
    \/ \E s \in Slot : process_collect(s) \/ virtual_unmap_pages(s)
    \/ \E n \in FatSizes : runtime_mount_ready(n)
    \/ FreeOldFat \/ Reclaim

Next == Boot \/ Running \/ Halted \/ scheduler_idle_loop

Spec == Init /\ [][Next]_vars /\ WF_vars(Boot)

-----------------------------------------------------------------------------
TypeOK ==
    /\ PhysicalTypeOK
    /\ modules \in ModuleTables
    /\ DOMAIN processes = Slot
    /\ \A s \in Slot :
         /\ DOMAIN processes[s] = DOMAIN Unused
         /\ processes[s].state \in {"UNUSED", "CREATED", "RUNNABLE", "EXITED"}
         /\ processes[s].root \in Page /\ processes[s].kernel_stack \in Page
         /\ DOMAIN processes[s].tables \subseteq Path
         /\ DOMAIN processes[s].leaves \subseteq Virtual
         /\ KernelStack(processes[s]) \cup AddressSpace(processes[s]) \subseteq Page
    /\ task_count \in 0 .. TaskCapacity
    /\ queue \subseteq DOMAIN modules
    /\ job \in [slot : Slot \cup {None}, module : Nat, part : Nat, page : Nat,
                created : SUBSET Path, base : Page]
    /\ cpu \in [cr3 : Int, rsp : Int, entry_stack : Page,
                current : Slot \cup {None}, deferred : Slot \cup {None}]
    /\ fat \in [base : Page, count : Nat, old : SUBSET Page]

(* The pages a client of the allocator holds: a run that is being mapped   *)
(* belongs to the address space page by page.                              *)
Staged ==
    IF job.base = None THEN {}
    ELSE Run(job.base, Len(Part)) \ Range(Creating.leaves)

FatPages == IF fat.base = None THEN {} ELSE Run(fat.base, fat.count)

Holder == ({"stack", "space"} \X Slot) \cup ({"staged", "fat", "old fat"} \X {None})

Held == [h \in Holder |->
           CASE h[1] = "stack" -> KernelStack(processes[h[2]])
             [] h[1] = "space" -> AddressSpace(processes[h[2]])
             [] h[1] = "staged" -> Staged
             [] h[1] = "fat" -> FatPages
             [] h[1] = "old fat" -> fat.old]

(* A page serves one purpose in an address space.                          *)
UsedOnce(p) ==
    /\ \A t, u \in DOMAIN p.tables : p.tables[t] = p.tables[u] => t = u
    /\ \A v, w \in DOMAIN p.leaves : p.leaves[v] = p.leaves[w] => v = w
    /\ Range(p.tables) \cap Range(p.leaves) = {}
    /\ p.root \notin Range(p.tables) \cup Range(p.leaves)

(* Every page that is allocated has exactly one owner, whatever failed on  *)
(* the way: none is lost (no owner) and none would be given back twice     *)
(* (two owners, or an owner of a page that is free).                       *)
PagesAccounted ==
    /\ \A p \in Page : page_states[p] = "ALLOCATED" <=> \E h \in Holder : p \in Held[h]
    /\ \A g, h \in Holder : g # h => Held[g] \cap Held[h] = {}
    /\ \A h \in Holder : Held[h] \subseteq Page
    /\ \A s \in Slot : UsedOnce(processes[s])

(* The tables in CR3 and the stack in use belong to the kernel itself or   *)
(* to a process that still has them, at every step of an exit as well; in  *)
(* user mode both are those of the current process, and so is the stack    *)
(* the next interrupt or call will use.                                    *)
LoadedIsLive ==
    /\ cpu.cr3 = KernelRoot \/ \E s \in Slot : processes[s].root = cpu.cr3
    /\ cpu.rsp \in {BootstrapStack, UserMode} \/ \E s \in Slot : processes[s].kernel_stack = cpu.rsp
    /\ pc = "user" => /\ cpu.cr3 = processes[cpu.current].root
                      /\ cpu.entry_stack = processes[cpu.current].kernel_stack
                      /\ cpu.entry_stack # None

(* On the way: a process that exits stays on its stack until the switch    *)
(* has left it, and is never the one that was chosen to run next.          *)
SwitchOrdered ==
    /\ \A s \in {cpu.current, cpu.deferred} \ {None} : processes[s].state = "RUNNABLE"
    /\ cpu.deferred # None => pc \in {"resume", "finish"} /\ cpu.deferred # cpu.current
    /\ IF cpu.current = None THEN cpu.cr3 = KernelRoot
       ELSE /\ pc \in {"user", "syscall", "resume", "finish"}
            /\ cpu.cr3 = processes[cpu.current].root
            /\ cpu.entry_stack = processes[cpu.current].kernel_stack
    /\ CASE pc = "user" -> cpu.current # None /\ cpu.rsp = UserMode
         [] pc = "syscall" -> cpu.current # None /\ cpu.rsp = cpu.entry_stack
         [] pc = "resume" -> \E s \in Slot : /\ processes[s].state = "RUNNABLE"
                                             /\ processes[s].kernel_stack = cpu.rsp
         [] pc = "finish" -> cpu.rsp = IF cpu.current = None THEN BootstrapStack
                                       ELSE cpu.entry_stack
         [] OTHER -> cpu.rsp = BootstrapStack

(* What CR3 and the stack pointer name is never given back under them      *)
(* (syscall_dispatch_frame, x86_64_resume_user_context, process_destroy).  *)
ActiveIsLive == LoadedIsLive /\ SwitchOrdered

(* No table is empty, except on the way to a page that is being mapped:    *)
(* what a failure or an unmap leaves behind holds no page for nothing.     *)
TablesNeeded ==
    \A s \in Slot : \A t \in DOMAIN processes[s].tables :
        \/ \E v \in DOMAIN processes[s].leaves : IsBelow(v, t)
        \/ s = job.slot /\ t \in job.created

(* How far a creation has come, and what there is to be undone when its    *)
(* next step fails: the tables on the way to the page that is being mapped *)
(* and, of the run it belongs to, the pages before it.                     *)
Mapping == {"map", "undo_tables", "undo_pages"}
InCreation == {"root", "part", "kernel_stack", "launch", "destroy"} \cup Mapping

CreationOrdered ==
    /\ pc \notin InCreation => job = NoJob
    /\ pc \in InCreation =>
         /\ job.slot \in Slot /\ job.module \in DOMAIN modules
         /\ pc # "destroy" => Creating.state = "CREATED"
         /\ pc \notin {"root", "destroy"} => Creating.root # None
         /\ pc = "root" => Creating.root = None
         /\ pc \notin {"launch", "destroy"} => Creating.kernel_stack = None
         /\ pc = "launch" => Creating.kernel_stack # None
    /\ pc \in {"root", "part"} \cup Mapping => job.part \in DOMAIN Parts(Module)
    /\ job.base # None <=> pc \in Mapping
    /\ job.created # {} => pc \in {"map", "undo_tables"}
    /\ pc \in Mapping =>
         /\ job.page \in DOMAIN Part
         /\ \A t \in job.created : t \in DOMAIN Creating.tables /\ IsBelow(VirtualPage, t)
         /\ \A i \in 1 .. job.page - 1 : /\ Part[i] \in DOMAIN Creating.leaves
                                         /\ Creating.leaves[Part[i]] = job.base + i - 1
         /\ \A i \in job.page .. Len(Part), v \in DOMAIN Creating.leaves :
              Creating.leaves[v] # job.base + i - 1

(* A process that runs has its tables and its kernel stack, one that does  *)
(* not exist or has exited has nothing, and nobody else is half made.      *)
ProcessesWhole ==
    /\ \A s \in Slot :
         /\ processes[s].state = "RUNNABLE" =>
              processes[s].root # None /\ processes[s].kernel_stack # None
         /\ processes[s].state = "CREATED" => s = job.slot
         /\ processes[s].state \in {"UNUSED", "EXITED"} =>
              /\ processes[s].root = None /\ processes[s].kernel_stack = None
              /\ DOMAIN processes[s].tables = {} /\ DOMAIN processes[s].leaves = {}
    /\ fat.old # {} => pc = "mounted"

(* When nothing is left to start, the shell and every valid module that    *)
(* is required are running: the boot never goes on without one of them.    *)
RequiredStarted ==
    pc = "next" /\ queue = {} =>
        \A i \in DOMAIN modules :
            modules[i].valid /\ modules[i].required =>
                \E s \in Slot : /\ processes[s].identity = modules[i].identity
                                /\ processes[s].state = "RUNNABLE"

(* The boot ends, in a running system or in a panic, whatever fails, and   *)
(* in a running system only with every required module started whose       *)
(* descriptor is valid; one with a bad descriptor or digest is passed over, *)
(* required or not, unless it is the shell (process_start_system_modules).  *)
BootEnds == <>(pc \in {"idle", "panic"}) /\ []RequiredStarted

(* The page allocator keeps its books, hands out nothing that is reserved  *)
(* and, from the first page on, overlooks no free run (physical.c).        *)
AllocatorSound ==
    TypeOK /\ CountersAgree /\ ReservedNeverHandedOut /\ SearchFromStartIsComplete

(* Whatever fails, pages and page tables are held by those that need them, *)
(* once each (virtual_map_pages, process_create_from_module, exit).        *)
MemoryReturned == PagesAccounted /\ TablesNeeded /\ CreationOrdered /\ ProcessesWhole
=============================================================================
