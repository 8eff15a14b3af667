-------------------------------- MODULE Sched --------------------------------
(***************************************************************************)
(* The Kumo OS scheduler on its one CPU: sched/task.c and switch.asm, the  *)
(* ways into the kernel (irq.asm, irq_handler.c, syscall.asm,              *)
(* syscall_dispatch.c), the ways out (iret, ring3.asm), the exception halt *)
(* and the idle loop of kmain with wm_flush_dirty's cli/sti windows.       *)
(*                                                                         *)
(* The kernel runs with IF = 0 except in the windows of the idle loop, so  *)
(* one kernel path between two points where control can change hands is    *)
(* one action.  A kernel stack holds at most two records: where its        *)
(* interrupt frame returns to, and where switch_to's saved context         *)
(* continues.  Page directories and stacks are named by the task they were *)
(* allocated for.                                                          *)
(***************************************************************************)
EXTENDS Naturals

CONSTANT MaxTasks       \* user tasks memory can hold: a bound of the model

ASSUME MaxTasksAssumption == MaxTasks \in Nat

Idle      == 0
BootStack == MaxTasks + 1     \* the 16 KB boot stack, idle's stack
KernelPD  == MaxTasks + 1     \* the page directory built by paging_init
Stacks    == 1..(MaxTasks + 1)
PageDirs  == 1..(MaxTasks + 1)
Timer     == 0                \* IRQ 0, on the master PIC
Mouse     == 12               \* IRQ 12, on the slave PIC
Cascade   == 2                \* the master's line to the slave

VARIABLES
    current,    \* g_current
    nextId,     \* g_next_id
    tcb,        \* the TCBs of the tasks created so far
    frames,     \* contents of every kernel stack
    pc,         \* where the CPU executes
    int_no,     \* the interrupt irq_handler was entered for
    EFLAGS_IF,  \* EFLAGS.IF
    DS,         \* DS = ES = FS = GS: "kernel" 0x10, "user" 0x23, "null"
    CR3,        \* the page directory the MMU uses
    esp0,       \* TSS.esp0
    esp,        \* the stack ring-0 code runs on
    irr, isr,   \* requested and in-service interrupts of the two PICs
    dirty       \* g_dirty.valid of the window manager

taskVars == <<current, nextId, tcb>>
picVars  == <<irr, isr>>
vars == <<current, nextId, tcb, frames, pc, int_no, EFLAGS_IF, DS, CR3, esp0, esp,
          irr, isr, dirty>>

Created == 0..(nextId - 1)

IdlePcs  == {"idle_check", "idle_snap", "idle_draw", "idle_yield"}
IrqPcs   == {"irq", "irq_yield", "irq_ret"}
SysPcs   == {"sys_entry", "sys_yield", "sys_ret"}
Pcs      == {"boot", "user", "first", "halted"} \cup IdlePcs \cup IrqPcs \cup SysPcs
IretPcs  == {"none", "user"} \cup IdlePcs
RetPcs   == {"none", "first", "irq_ret", "sys_ret", "idle_check"}
Frame    == [iret : IretPcs, ret : RetPcs]
NoFrame  == [iret |-> "none", ret |-> "none"]

TCB == [state : {"READY", "RUNNING"}, next : 0..MaxTasks,
        kernel_stack_top : 0..MaxTasks, cr3 : 0..MaxTasks, esp : 0..(MaxTasks + 1)]

-----------------------------------------------------------------------------
(* task_init; interrupts are off until kmain reaches its idle loop.        *)
Init ==
    /\ current = Idle /\ nextId = 1
    /\ tcb = [t \in {Idle} |->
                [state |-> "RUNNING", next |-> Idle, kernel_stack_top |-> 0,
                 cr3 |-> 0, esp |-> 0]]
    /\ frames = [s \in Stacks |-> NoFrame]
    /\ pc = "boot" /\ int_no = Timer /\ EFLAGS_IF = FALSE /\ DS = "kernel"
    /\ CR3 = KernelPD /\ esp0 = 0 /\ esp = BootStack
    /\ irr = {} /\ isr = {} /\ dirty = FALSE

-----------------------------------------------------------------------------
(* The PICs (external).  A request waits in irr until the CPU takes it.    *)

(* A PIC forwards a request when nothing of its priority or higher is in   *)
(* service; the slave's requests pass through the master's cascade line.   *)
(* Two requests that wait together are taken in either order: which of     *)
(* them came an instant earlier is the devices' choice.                    *)
Deliverable(i) ==
    /\ i \in irr
    /\ IF i = Timer THEN Timer \notin isr ELSE isr = {}

\* Variant: no EOI to the slave PIC.
pic_send_eoi_MasterOnly(irq) ==
    isr' = isr \ IF Timer \in isr THEN {Timer} ELSE {Cascade}

(* pic_send_eoi: a non-specific EOI clears the highest bit in service, at  *)
(* the slave too when the interrupt came from it.                          *)
pic_send_eoi(irq) ==
    LET slave  == IF irq >= 8 THEN {Mouse} ELSE {}
        master == IF Timer \in isr THEN {Timer} ELSE {Cascade}
    IN  isr' = isr \ (slave \cup master)

(* Devices are slower than one pass through irq_handler: 55 ms between     *)
(* ticks, about 1 ms between mouse bytes.  A request raised during a pass  *)
(* waits for its iret, so nothing is lost by raising it after.             *)
TimerTick ==
    /\ pc \notin IrqPcs
    /\ irr' = irr \cup {Timer}
    /\ UNCHANGED <<taskVars, frames, pc, int_no, EFLAGS_IF, DS, CR3, esp0, esp, isr, dirty>>

MouseByte ==
    /\ pc \notin IrqPcs
    /\ irr' = irr \cup {Mouse}
    /\ UNCHANGED <<taskVars, frames, pc, int_no, EFLAGS_IF, DS, CR3, esp0, esp, isr, dirty>>

-----------------------------------------------------------------------------
(* Entering the kernel.  From ring 3 the CPU loads the stack pointer from  *)
(* the TSS and pushes at its top; from ring 0 it stays on its stack.       *)
EnterKernel ==
    /\ esp' = IF pc = "user" THEN esp0 ELSE esp
    /\ frames' = [frames EXCEPT ![esp'] = [iret |-> pc, ret |-> "none"]]
    /\ EFLAGS_IF' = FALSE

(* The stub of irq.asm saves no segment register and irq_handler's first   *)
(* access through a null DS faults inside the kernel: the machine is dead. *)
Interrupt(i) ==
    /\ EFLAGS_IF /\ pc \in IdlePcs \cup {"user"}
    /\ Deliverable(i)
    /\ EnterKernel
    /\ irr' = irr \ {i}
    /\ isr' = isr \cup (IF i = Mouse THEN {Cascade, Mouse} ELSE {i})
    /\ int_no' = i
    /\ pc' = IF DS = "null" THEN "halted" ELSE "irq"
    /\ UNCHANGED <<taskVars, DS, CR3, esp0, dirty>>

\* Variant: task_yield without an EOI before it.
TimerHandler_NoEoi ==
    /\ pc = "irq" /\ int_no = Timer
    /\ pc' = "irq_yield"
    /\ UNCHANGED <<taskVars, frames, int_no, EFLAGS_IF, DS, CR3, esp0, esp, picVars, dirty>>

(* irq_handler for the timer: EOI, then task_yield.                        *)
TimerHandler ==
    /\ pc = "irq" /\ int_no = Timer
    /\ pic_send_eoi(int_no)
    /\ pc' = "irq_yield"
    /\ UNCHANGED <<taskVars, frames, int_no, EFLAGS_IF, DS, CR3, esp0, esp, irr, dirty>>

(* irq_handler for the mouse: a move or a click may mark a region dirty.   *)
MouseHandler ==
    /\ pc = "irq" /\ int_no = Mouse
    /\ dirty' \in {dirty, TRUE}
    /\ pic_send_eoi(int_no)
    /\ pc' = "irq_ret"
    /\ UNCHANGED <<taskVars, frames, int_no, EFLAGS_IF, DS, CR3, esp0, esp, irr>>

(* iret: an interrupt is only taken, and int 0x80 only executed, with      *)
(* IF = 1, and a first frame holds EFLAGS = 0x202.  Returning to ring 3    *)
(* with a ring-0 selector in DS leaves DS null.                            *)
Iret(ds) ==
    /\ pc' = frames[esp].iret
    /\ EFLAGS_IF' = TRUE
    /\ DS' = IF frames[esp].iret = "user" /\ ds = "kernel" THEN "null" ELSE ds
    /\ frames' = [frames EXCEPT ![esp] = NoFrame]
    /\ UNCHANGED <<taskVars, int_no, CR3, esp0, esp, picVars, dirty>>

(* The end of irq_common_stub: DS is whatever it was.                      *)
IrqReturn == pc = "irq_ret" /\ Iret(DS)

(* The end of syscall_handler loads 0x23 ...                               *)
SyscallReturn == pc = "sys_ret" /\ Iret("user")

(* ... and so does return_to_ring3, where a new task starts.               *)
ReturnToRing3 == pc = "first" /\ Iret("user")

-----------------------------------------------------------------------------
(* Where the code that called task_yield goes on.                          *)
Continuation(p) ==
    CASE p = "irq_yield" -> "irq_ret"
      [] p = "sys_yield" -> "sys_ret"
      [] OTHER           -> "idle_check"

\* Variant: CR3 is not reloaded.
switch_to_KeepCR3(new, cont) ==
    /\ esp' = tcb[new].esp
    /\ frames' = [frames EXCEPT ![esp].ret = cont, ![tcb[new].esp].ret = "none"]
    /\ CR3' = CR3
    /\ pc' = frames[tcb[new].esp].ret

\* Variant: the outgoing context is not saved on its stack.
switch_to_NoSave(new, cont) ==
    /\ esp' = tcb[new].esp
    /\ frames' = [frames EXCEPT ![tcb[new].esp].ret = "none"]
    /\ CR3' = IF tcb[new].cr3 # 0 THEN tcb[new].cr3 ELSE CR3
    /\ pc' = frames[tcb[new].esp].ret

(* switch_to(old, new): save the stack, take the other one, load CR3 only  *)
(* if the task has one, continue where that stack says.                    *)
switch_to(new, cont) ==
    /\ esp' = tcb[new].esp
    /\ frames' = [frames EXCEPT ![esp].ret = cont, ![tcb[new].esp].ret = "none"]
    /\ CR3' = IF tcb[new].cr3 # 0 THEN tcb[new].cr3 ELSE CR3
    /\ pc' = frames[tcb[new].esp].ret

\* Variant: TSS.esp0 is set by the first switch only.
SwitchTask_NoEsp0(new) ==
    /\ current' = new
    /\ tcb' = [tcb EXCEPT ![current].state = "READY", ![current].esp = esp,
                          ![new].state = "RUNNING"]
    /\ esp0' = IF esp0 = 0 THEN tcb[new].kernel_stack_top ELSE esp0
    /\ switch_to(new, Continuation(pc))

(* The switch of task_yield from the running task to new.                  *)
SwitchTask(new) ==
    /\ current' = new
    /\ tcb' = [tcb EXCEPT ![current].state = "READY", ![current].esp = esp,
                          ![new].state = "RUNNING"]
    /\ esp0' = IF tcb[new].kernel_stack_top # 0
                 THEN tcb[new].kernel_stack_top ELSE esp0
    /\ switch_to(new, Continuation(pc))

\* Variant: the switch goes one task too far.
TaskYield_SkipsOne ==
    /\ pc \in {"irq_yield", "sys_yield", "idle_yield"}
    /\ EFLAGS_IF' = FALSE
    /\ LET new == tcb[tcb[current].next].next
       IN  IF new = current
             THEN /\ pc' = Continuation(pc)
                  /\ UNCHANGED <<current, tcb, frames, CR3, esp0, esp>>
             ELSE SwitchTask(new)
    /\ UNCHANGED <<nextId, int_no, DS, picVars, dirty>>

(* cli; a lone task goes on with IF = 0.                                   *)
TaskYield ==
    /\ pc \in {"irq_yield", "sys_yield", "idle_yield"}
    /\ EFLAGS_IF' = FALSE
    /\ IF tcb[current].next = current
         THEN /\ pc' = Continuation(pc)
              /\ UNCHANGED <<current, tcb, frames, CR3, esp0, esp>>
         ELSE SwitchTask(tcb[current].next)
    /\ UNCHANGED <<nextId, int_no, DS, picVars, dirty>>

-----------------------------------------------------------------------------
\* Variant: the new task does not take over its successor.
CreateTask_NotLinked ==
    /\ nextId <= MaxTasks
    /\ nextId' = nextId + 1
    /\ tcb' = [t \in 0..nextId |->
                 IF t = nextId
                   THEN [state |-> "READY", next |-> Idle,
                         kernel_stack_top |-> nextId, cr3 |-> nextId, esp |-> nextId]
                 ELSE IF t = current THEN [tcb[t] EXCEPT !.next = nextId]
                 ELSE tcb[t]]
    /\ frames' = [frames EXCEPT ![nextId] = [iret |-> "user", ret |-> "first"]]
    /\ UNCHANGED current

(* task_create_user_with_pages once its three allocations succeeded: a     *)
(* stack with a first frame, a private page directory, and the TCB linked  *)
(* in behind the running task.                                             *)
CreateTask ==
    /\ nextId <= MaxTasks
    /\ nextId' = nextId + 1
    /\ tcb' = [t \in 0..nextId |->
                 IF t = nextId
                   THEN [state |-> "READY", next |-> tcb[current].next,
                         kernel_stack_top |-> nextId, cr3 |-> nextId, esp |-> nextId]
                 ELSE IF t = current THEN [tcb[t] EXCEPT !.next = nextId]
                 ELSE tcb[t]]
    /\ frames' = [frames EXCEPT ![nextId] = [iret |-> "user", ret |-> "first"]]
    /\ UNCHANGED current

(* An allocation fails: NULL, and no task.  The pages already taken stay   *)
(* taken, which the bound on tasks stands for here.                        *)
CreateFails == UNCHANGED <<taskVars, frames>>

(* kmain creates the first programs with interrupts off.                   *)
BootCreate ==
    /\ pc = "boot"
    /\ CreateTask
    /\ UNCHANGED <<pc, int_no, EFLAGS_IF, DS, CR3, esp0, esp, picVars, dirty>>

(* kmain: mouse_drain_buf, sti, and into the idle loop.                    *)
BootDone ==
    /\ pc = "boot"
    /\ pc' = "idle_check" /\ EFLAGS_IF' = TRUE
    /\ UNCHANGED <<taskVars, frames, int_no, DS, CR3, esp0, esp, picVars, dirty>>

-----------------------------------------------------------------------------
(* A program in ring 3 traps with int 0x80, an interrupt gate.             *)
UserSyscall ==
    /\ pc = "user"
    /\ EnterKernel
    /\ pc' = "sys_entry"
    /\ UNCHANGED <<taskVars, int_no, DS, CR3, esp0, picVars, dirty>>

(* Any exception in ring 3 ends in isr_handler, which halts for good.      *)
UserFault ==
    /\ pc = "user"
    /\ EnterKernel
    /\ pc' = "halted"
    /\ UNCHANGED <<taskVars, int_no, DS, CR3, esp0, picVars, dirty>>

(* syscall_handler loads 0x10, then syscall_dispatch.                      *)
SyscallYield ==
    /\ pc = "sys_entry"
    /\ DS' = "kernel" /\ pc' = "sys_yield"
    /\ UNCHANGED <<taskVars, frames, int_no, EFLAGS_IF, CR3, esp0, esp, picVars, dirty>>

(* SYSCALL_RUN and SYSCALL_EXEC.                                           *)
SyscallSpawn ==
    /\ pc = "sys_entry"
    /\ DS' = "kernel" /\ pc' = "sys_ret"
    /\ CreateTask \/ CreateFails
    /\ UNCHANGED <<int_no, EFLAGS_IF, CR3, esp0, esp, picVars, dirty>>

(* Every other call keeps to the caller's own state and returns.           *)
SyscallOther ==
    /\ pc = "sys_entry"
    /\ DS' = "kernel" /\ pc' = "sys_ret"
    /\ UNCHANGED <<taskVars, frames, int_no, EFLAGS_IF, CR3, esp0, esp, picVars, dirty>>

-----------------------------------------------------------------------------
\* Variant: the dirty test is inverted.
IdleCheck_Inverted ==
    /\ pc = "idle_check"
    /\ pc' = IF ~dirty THEN "idle_snap" ELSE "idle_yield"
    /\ UNCHANGED <<taskVars, frames, int_no, EFLAGS_IF, DS, CR3, esp0, esp, picVars, dirty>>

(* The idle loop: if (wm_has_dirty()) wm_flush_dirty(); task_yield();      *)
IdleCheck ==
    /\ pc = "idle_check"
    /\ pc' = IF dirty THEN "idle_snap" ELSE "idle_yield"
    /\ UNCHANGED <<taskVars, frames, int_no, EFLAGS_IF, DS, CR3, esp0, esp, picVars, dirty>>

(* wm_flush_dirty's first critical section: cli; snapshot, clear; sti.     *)
IdleSnapshot ==
    /\ pc = "idle_snap"
    /\ dirty' = FALSE /\ EFLAGS_IF' = TRUE
    /\ pc' = "idle_draw"
    /\ UNCHANGED <<taskVars, frames, int_no, DS, CR3, esp0, esp, picVars>>

(* The second one: cli; draw; sti.                                         *)
IdleDraw ==
    /\ pc = "idle_draw"
    /\ EFLAGS_IF' = TRUE
    /\ pc' = "idle_yield"
    /\ UNCHANGED <<taskVars, frames, int_no, DS, CR3, esp0, esp, picVars, dirty>>

(* isr_handler: for (;;) hlt, with IF = 0.                                 *)
Halted == pc = "halted" /\ UNCHANGED vars

-----------------------------------------------------------------------------
IdleStep == IdleCheck \/ IdleSnapshot \/ IdleDraw \/ (pc = "idle_yield" /\ TaskYield)

Kernel ==
    \/ \E i \in {Timer, Mouse} : Interrupt(i)
    \/ TimerHandler \/ MouseHandler \/ IrqReturn
    \/ SyscallYield \/ SyscallSpawn \/ SyscallOther \/ SyscallReturn
    \/ ReturnToRing3 \/ TaskYield
    \/ BootDone \/ IdleCheck \/ IdleSnapshot \/ IdleDraw

Next == Kernel \/ TimerTick \/ MouseByte \/ BootCreate \/ UserSyscall \/ UserFault \/ Halted

(* The CPU does not stop executing kernel code, and the timer never stops. *)
(* An interrupt that can be taken again and again is taken: the CPU looks  *)
(* at its INTR line between any two instructions.  However often idle is   *)
(* interrupted, it executes instructions in between.  Programs owe nothing. *)
Fairness ==
    /\ WF_vars(Kernel)
    /\ SF_vars(TimerTick)
    /\ SF_vars(IdleStep)
    /\ \A i \in {Timer, Mouse} : SF_vars(Interrupt(i))

Spec == Init /\ [][Next]_vars /\ Fairness
-----------------------------------------------------------------------------
(* Types, and TCBs for exactly the ids g_next_id has handed out.           *)
TypeOK ==
    /\ nextId \in 1..(MaxTasks + 1)
    /\ current \in Created
    /\ tcb \in [Created -> TCB]
    /\ frames \in [Stacks -> Frame]
    /\ pc \in Pcs /\ int_no \in {Timer, Mouse}
    /\ EFLAGS_IF \in BOOLEAN /\ DS \in {"kernel", "user", "null"}
    /\ CR3 \in PageDirs /\ esp0 \in 0..MaxTasks /\ esp \in Stacks
    /\ irr \subseteq {Timer, Mouse} /\ isr \subseteq {Timer, Cascade, Mouse}
    /\ dirty \in BOOLEAN

(* The tasks met by following next from the running one, in order.         *)
RunList ==
    LET hop[n \in 0..nextId] == IF n = 0 THEN current ELSE tcb[hop[n - 1]].next
    IN  [i \in 1..nextId |-> hop[i - 1]]

(* However creations by several tasks interleave with switches, the next   *)
(* pointers of task.c form one ring through every task: following them     *)
(* from g_current meets each task once and comes back.                     *)
RunQueueIsOneRing ==
    /\ {RunList[i] : i \in 1..nextId} = Created
    /\ tcb[RunList[nextId]].next = current

(* task_yield's bookkeeping: the task g_current names, and no other, is    *)
(* marked TASK_RUNNING.                                                    *)
OneRunning == \A t \in Created : tcb[t].state = "RUNNING" <=> t = current

(* The stack ring-0 code of a task runs on.                                *)
HomeStack(t) == IF t = Idle THEN BootStack ELSE tcb[t].kernel_stack_top

(* TSS.esp0 is the stack of the program in ring 3, so the next interrupt   *)
(* or system call lands there, and kernel code always runs on the stack of *)
(* the task it runs for; only idle code runs with idle current.            *)
OnOwnStack ==
    /\ pc = "user" => current # Idle /\ esp0 = HomeStack(current)
    /\ pc # "user" => esp = HomeStack(current)
    /\ pc \in IdlePcs => current = Idle

(* The context a switched-out task needs: task_yield saved its own stack,  *)
(* and what lies on it leads back to ring 3 or into the idle loop.         *)
Resumable(t) ==
    /\ tcb[t].esp = HomeStack(t)
    /\ IF t = Idle
         THEN \/ frames[BootStack] = [iret |-> "none", ret |-> "idle_check"]
              \/ /\ frames[BootStack].iret \in IdlePcs
                 /\ frames[BootStack].ret = "irq_ret"
         ELSE /\ frames[tcb[t].esp].iret = "user"
              /\ frames[tcb[t].esp].ret \in {"first", "irq_ret", "sys_ret"}

(* Every task but the running one can be resumed where it stopped.         *)
SuspendedResumable == \A t \in Created \ {current} : Resumable(t)

(* paging.c, page_is_user_accessible: task_current()->cr3 must equal the   *)
(* CPU's CR3 whenever a program or its system calls run.                   *)
AddressSpaceOfCurrent == current # Idle => CR3 = tcb[current].cr3

(* Nothing stands between a program in ring 3 and the next timer tick:     *)
(* interrupts are enabled and both PICs have had their EOI.                *)
Preemptible == pc = "user" => EFLAGS_IF /\ isr = {}

(* No step but the switch to or from a task writes its saved context: no   *)
(* interrupt, system call or creation lands on another task's stack.       *)
SuspendedContextUntouched ==
    [][\A t \in Created : t # current /\ t # current' =>
           frames'[HomeStack(t)] = frames[HomeStack(t)]]_vars

(* Preemption: as long as no program faults, every task ever created keeps *)
(* returning to its own code, whatever the others do.                      *)
EveryTaskRuns ==
    \A t \in 0..MaxTasks :
        t \in Created ~> \/ current = t /\ pc \in IdlePcs \cup {"user"}
                         \/ pc = "halted"

(* A region marked dirty by a mouse handler is eventually redrawn by idle. *)
DirtyFlushed == dirty ~> pc \in {"idle_draw", "halted"}

(* A mouse interrupt is eventually taken once there is a program to switch *)
(* to; idle alone spins with IF = 0 after its first task_yield.            *)
MouseServiced ==
    Mouse \in irr /\ nextId > 1 ~> Mouse \notin irr \/ pc = "halted"

(* The kernel implements the abstract round-robin scheduler.               *)
Abstract == INSTANCE RoundRobin WITH queue <- RunList, stopped <- (pc = "halted")
ImplementsRoundRobin == Abstract!Spec

(* syscall.asm:6 says DS is 0x23 on entry to a system call, carried over   *)
(* from ring 3.                                                            *)
SyscallEntrySegments == pc = "sys_entry" => DS = "user"
=============================================================================
