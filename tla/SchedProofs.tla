----------------------------- MODULE SchedProofs -----------------------------
(***************************************************************************)
(* Safety of Sched for any number of tasks.  The properties the runs check *)
(* are not inductive on their own: a stack is only known to be the right   *)
(* one because TCBs keep their allocations, and an interrupt is only known *)
(* to find the PICs quiet because every path to ring 3 passed its EOI.     *)
(***************************************************************************)
EXTENDS Sched, Sequences, WellFoundedInduction, TLAPS

(* A TCB keeps the stack and page directory it was created with, and its   *)
(* next pointer names a task.                                              *)
TcbShape ==
    /\ Idle \in Created
    /\ \A t \in Created :
          /\ tcb[t].next \in Created
          /\ tcb[t].kernel_stack_top = t
          /\ tcb[t].cr3 = t

(* The stack and TSS of the running task.                                  *)
RunningStack ==
    /\ esp = HomeStack(current)
    /\ current # Idle => esp0 = current
    /\ pc \in IdlePcs \cup {"boot"} => current = Idle
    /\ pc \in SysPcs \cup {"first", "user"} => current # Idle

(* What the running task's interrupt frame holds while a kernel path runs. *)
RunningFrame ==
    /\ pc \in IrqPcs => frames[esp].iret \in (IF current = Idle THEN IdlePcs ELSE {"user"})
    /\ pc \in SysPcs \cup {"first"} => frames[esp].iret = "user"
    /\ pc \in IdlePcs \cup {"boot"} => frames[esp].iret = "none"

(* Interrupts are in service exactly while irq_handler runs.               *)
InService ==
    /\ pc = "irq" => isr = IF int_no = Timer THEN {Timer} ELSE {Cascade, Mouse}
    /\ pc \notin {"irq", "halted"} => isr = {}
    /\ pc = "user" => EFLAGS_IF

IInv ==
    /\ TypeOK
    /\ TcbShape
    /\ OneRunning
    /\ RunningStack
    /\ RunningFrame
    /\ SuspendedResumable
    /\ AddressSpaceOfCurrent
    /\ InService

USE MaxTasksAssumption

-----------------------------------------------------------------------------

(* task_init leaves one task, idle, running on the boot stack.             *)
LEMMA InitIInv == Init => IInv
<1> SUFFICES ASSUME Init PROVE IInv
  OBVIOUS
<1> USE DEF Init, Created, Idle, BootStack, Stacks
<1>1. TypeOK
  <2>1. NoFrame \in Frame
    BY DEF NoFrame, Frame, IretPcs, RetPcs
  <2>2. /\ Created = {0} /\ MaxTasks + 1 \in Nat
        /\ 0 \in 0..MaxTasks /\ 0 \in 0..(MaxTasks + 1) /\ MaxTasks + 1 \in 1..(MaxTasks + 1)
        /\ 1 \in 1..(MaxTasks + 1)
    OBVIOUS
  <2>3. tcb \in [Created -> TCB]
    BY <2>2 DEF TCB
  <2> QED
    BY <2>1, <2>2, <2>3 DEF TypeOK, Pcs, PageDirs, KernelPD, Timer, Mouse, Cascade
<1>2. TcbShape /\ OneRunning /\ SuspendedResumable /\ AddressSpaceOfCurrent
  BY DEF TcbShape, OneRunning, SuspendedResumable, AddressSpaceOfCurrent
<1>3. RunningStack /\ RunningFrame /\ InService
  BY DEF RunningStack, RunningFrame, InService, HomeStack, NoFrame, IdlePcs, SysPcs, IrqPcs
<1> QED
  BY <1>1, <1>2, <1>3 DEF IInv

(* A step that pushes an interrupt frame keeps the types of the stacks.    *)
LEMMA EnterKernelTypes ==
    ASSUME IInv, EnterKernel, pc \in IdlePcs \cup {"user"}
    PROVE  /\ esp' = HomeStack(current)
           /\ esp' \in Stacks
           /\ frames' = [frames EXCEPT ![esp'] = [iret |-> pc, ret |-> "none"]]
           /\ frames' \in [Stacks -> Frame]
           /\ EFLAGS_IF' = FALSE
<1>1. esp' = HomeStack(current) /\ esp' \in Stacks
  BY DEF IInv, EnterKernel, RunningStack, TypeOK, HomeStack, TcbShape, Created,
     Stacks, Idle, BootStack, IdlePcs, SysPcs
<1>2. [iret |-> pc, ret |-> "none"] \in Frame
  BY DEF Frame, IretPcs, RetPcs, IdlePcs
<1> QED
  BY <1>1, <1>2 DEF EnterKernel, IInv, TypeOK

(* Popping an interrupt frame leads to ring 3 or into the idle loop.       *)
LEMMA IretTypes ==
    ASSUME IInv, NEW ds \in {"kernel", "user", "null"}, Iret(ds),
           pc \in {"irq_ret", "sys_ret", "first"}
    PROVE  /\ frames' \in [Stacks -> Frame]
           /\ pc' \in IdlePcs \cup {"user"}
           /\ DS' \in {"kernel", "user", "null"}
<1>1. esp \in Stacks /\ frames \in [Stacks -> Frame]
  BY DEF IInv, TypeOK
<1>2. NoFrame \in Frame
  BY DEF NoFrame, Frame, IretPcs, RetPcs
<1>3. frames[esp].iret \in IdlePcs \cup {"user"}
  BY DEF IInv, RunningFrame, IrqPcs, SysPcs
<1> QED
  BY <1>1, <1>2, <1>3 DEF Iret

(* A tick requested at the PIC touches no task.                            *)
LEMMA TimerTickStep == IInv /\ TimerTick => IInv'
<1> SUFFICES ASSUME IInv, TimerTick PROVE IInv'
  OBVIOUS
<1> USE DEF IInv, TimerTick, taskVars, picVars, vars
<1>1. TypeOK'
  BY DEF TypeOK, Created, TCB, Frame, NoFrame, Pcs, IretPcs, RetPcs, IdlePcs, IrqPcs, SysPcs, Stacks, PageDirs, Timer, Mouse, Cascade, TcbShape, RunningStack, HomeStack, Idle, BootStack
<1>2. TcbShape'
  BY DEF TcbShape, Created, Idle
<1>3. OneRunning'
  BY DEF OneRunning, Created
<1>4. RunningStack'
  BY DEF RunningStack, HomeStack, Idle, BootStack, IdlePcs, SysPcs, IrqPcs, IretPcs, RunningFrame, TypeOK, Frame, Stacks, TcbShape, Created
<1>5. RunningFrame'
  BY DEF RunningFrame, TypeOK, Frame, Stacks, IdlePcs, SysPcs, IrqPcs, Idle, RunningStack, HomeStack, NoFrame, BootStack, TcbShape, Created
<1>6. SuspendedResumable'
  BY DEF SuspendedResumable, Resumable, HomeStack, Idle, BootStack, Stacks, TypeOK, Frame, IdlePcs, RunningStack, TcbShape, Created, NoFrame
<1>7. AddressSpaceOfCurrent'
  BY DEF AddressSpaceOfCurrent
<1>8. InService'
  BY DEF InService, TypeOK, IdlePcs, IretPcs, Pcs, IrqPcs, SysPcs, Timer, Mouse, Cascade, Frame, Stacks, RunningFrame, RunningStack
<1> QED
  BY <1>1, <1>2, <1>3, <1>4, <1>5, <1>6, <1>7, <1>8

(* Neither does a request of the mouse.                                    *)
LEMMA MouseByteStep == IInv /\ MouseByte => IInv'
<1> SUFFICES ASSUME IInv, MouseByte PROVE IInv'
  OBVIOUS
<1> USE DEF IInv, MouseByte, taskVars, picVars, vars
<1>1. TypeOK'
  BY DEF TypeOK, Created, TCB, Frame, NoFrame, Pcs, IretPcs, RetPcs, IdlePcs, IrqPcs, SysPcs, Stacks, PageDirs, Timer, Mouse, Cascade, TcbShape, RunningStack, HomeStack, Idle, BootStack
<1>2. TcbShape'
  BY DEF TcbShape, Created, Idle
<1>3. OneRunning'
  BY DEF OneRunning, Created
<1>4. RunningStack'
  BY DEF RunningStack, HomeStack, Idle, BootStack, IdlePcs, SysPcs, IrqPcs, IretPcs, RunningFrame, TypeOK, Frame, Stacks, TcbShape, Created
<1>5. RunningFrame'
  BY DEF RunningFrame, TypeOK, Frame, Stacks, IdlePcs, SysPcs, IrqPcs, Idle, RunningStack, HomeStack, NoFrame, BootStack, TcbShape, Created
<1>6. SuspendedResumable'
  BY DEF SuspendedResumable, Resumable, HomeStack, Idle, BootStack, Stacks, TypeOK, Frame, IdlePcs, RunningStack, TcbShape, Created, NoFrame
<1>7. AddressSpaceOfCurrent'
  BY DEF AddressSpaceOfCurrent
<1>8. InService'
  BY DEF InService, TypeOK, IdlePcs, IretPcs, Pcs, IrqPcs, SysPcs, Timer, Mouse, Cascade, Frame, Stacks, RunningFrame, RunningStack
<1> QED
  BY <1>1, <1>2, <1>3, <1>4, <1>5, <1>6, <1>7, <1>8

(* The EOI before task_yield empties the PICs again.                       *)
LEMMA TimerHandlerStep == IInv /\ TimerHandler => IInv'
<1> SUFFICES ASSUME IInv, TimerHandler PROVE IInv'
  OBVIOUS
<1> USE DEF IInv, TimerHandler, pic_send_eoi, taskVars, picVars, vars
<1>1. TypeOK'
  BY DEF TypeOK, Created, TCB, Frame, NoFrame, Pcs, IretPcs, RetPcs, IdlePcs, IrqPcs, SysPcs, Stacks, PageDirs, Timer, Mouse, Cascade, TcbShape, RunningStack, HomeStack, Idle, BootStack
<1>2. TcbShape'
  BY DEF TcbShape, Created, Idle
<1>3. OneRunning'
  BY DEF OneRunning, Created
<1>4. RunningStack'
  BY DEF RunningStack, HomeStack, Idle, BootStack, IdlePcs, SysPcs, IrqPcs, IretPcs, RunningFrame, TypeOK, Frame, Stacks, TcbShape, Created
<1>5. RunningFrame'
  BY DEF RunningFrame, TypeOK, Frame, Stacks, IdlePcs, SysPcs, IrqPcs, Idle, RunningStack, HomeStack, NoFrame, BootStack, TcbShape, Created
<1>6. SuspendedResumable'
  BY DEF SuspendedResumable, Resumable, HomeStack, Idle, BootStack, Stacks, TypeOK, Frame, IdlePcs, RunningStack, TcbShape, Created, NoFrame
<1>7. AddressSpaceOfCurrent'
  BY DEF AddressSpaceOfCurrent
<1>8. InService'
  BY DEF InService, TypeOK, IdlePcs, IretPcs, Pcs, IrqPcs, SysPcs, Timer, Mouse, Cascade, Frame, Stacks, RunningFrame, RunningStack
<1> QED
  BY <1>1, <1>2, <1>3, <1>4, <1>5, <1>6, <1>7, <1>8

(* The EOI of a mouse interrupt reaches both PICs.                         *)
LEMMA MouseHandlerStep == IInv /\ MouseHandler => IInv'
<1> SUFFICES ASSUME IInv, MouseHandler PROVE IInv'
  OBVIOUS
<1> USE DEF IInv, MouseHandler, pic_send_eoi, taskVars, picVars, vars
<1>1. TypeOK'
  BY DEF TypeOK, Created, TCB, Frame, NoFrame, Pcs, IretPcs, RetPcs, IdlePcs, IrqPcs, SysPcs, Stacks, PageDirs, Timer, Mouse, Cascade, TcbShape, RunningStack, HomeStack, Idle, BootStack
<1>2. TcbShape'
  BY DEF TcbShape, Created, Idle
<1>3. OneRunning'
  BY DEF OneRunning, Created
<1>4. RunningStack'
  BY DEF RunningStack, HomeStack, Idle, BootStack, IdlePcs, SysPcs, IrqPcs, IretPcs, RunningFrame, TypeOK, Frame, Stacks, TcbShape, Created
<1>5. RunningFrame'
  BY DEF RunningFrame, TypeOK, Frame, Stacks, IdlePcs, SysPcs, IrqPcs, Idle, RunningStack, HomeStack, NoFrame, BootStack, TcbShape, Created
<1>6. SuspendedResumable'
  BY DEF SuspendedResumable, Resumable, HomeStack, Idle, BootStack, Stacks, TypeOK, Frame, IdlePcs, RunningStack, TcbShape, Created, NoFrame
<1>7. AddressSpaceOfCurrent'
  BY DEF AddressSpaceOfCurrent
<1>8. InService'
  BY DEF InService, TypeOK, IdlePcs, IretPcs, Pcs, IrqPcs, SysPcs, Timer, Mouse, Cascade, Frame, Stacks, RunningFrame, RunningStack
<1> QED
  BY <1>1, <1>2, <1>3, <1>4, <1>5, <1>6, <1>7, <1>8

(* The iret of irq.asm goes back to where its stack says.                  *)
LEMMA IrqReturnStep == IInv /\ IrqReturn => IInv'
<1> SUFFICES ASSUME IInv, IrqReturn PROVE IInv'
  OBVIOUS
<1> USE DEF IInv, IrqReturn, Iret, taskVars, picVars, vars
<1>1. TypeOK'
  BY IretTypes DEF TypeOK, Created, Pcs
<1>2. TcbShape'
  BY DEF TcbShape, Created, Idle
<1>3. OneRunning'
  BY DEF OneRunning, Created
<1>4. RunningStack'
  BY DEF RunningStack, HomeStack, Idle, BootStack, IdlePcs, SysPcs, IrqPcs, IretPcs, RunningFrame, TypeOK, Frame, Stacks, TcbShape, Created
<1>5. RunningFrame'
  BY DEF RunningFrame, TypeOK, Frame, Stacks, IdlePcs, SysPcs, IrqPcs, Idle, RunningStack, HomeStack, NoFrame, BootStack, TcbShape, Created
<1>6. SuspendedResumable'
  BY DEF SuspendedResumable, Resumable, HomeStack, Idle, BootStack, Stacks, TypeOK, Frame, IdlePcs, RunningStack, TcbShape, Created, NoFrame
<1>7. AddressSpaceOfCurrent'
  BY DEF AddressSpaceOfCurrent
<1>8. InService'
  BY DEF InService, TypeOK, IdlePcs, IretPcs, Pcs, IrqPcs, SysPcs, Timer, Mouse, Cascade, Frame, Stacks, RunningFrame, RunningStack
<1> QED
  BY <1>1, <1>2, <1>3, <1>4, <1>5, <1>6, <1>7, <1>8

(* So does the one of syscall.asm.                                         *)
LEMMA SyscallReturnStep == IInv /\ SyscallReturn => IInv'
<1> SUFFICES ASSUME IInv, SyscallReturn PROVE IInv'
  OBVIOUS
<1> USE DEF IInv, SyscallReturn, Iret, taskVars, picVars, vars
<1>1. TypeOK'
  BY IretTypes DEF TypeOK, Created, Pcs
<1>2. TcbShape'
  BY DEF TcbShape, Created, Idle
<1>3. OneRunning'
  BY DEF OneRunning, Created
<1>4. RunningStack'
  BY DEF RunningStack, HomeStack, Idle, BootStack, IdlePcs, SysPcs, IrqPcs, IretPcs, RunningFrame, TypeOK, Frame, Stacks, TcbShape, Created
<1>5. RunningFrame'
  BY DEF RunningFrame, TypeOK, Frame, Stacks, IdlePcs, SysPcs, IrqPcs, Idle, RunningStack, HomeStack, NoFrame, BootStack, TcbShape, Created
<1>6. SuspendedResumable'
  BY DEF SuspendedResumable, Resumable, HomeStack, Idle, BootStack, Stacks, TypeOK, Frame, IdlePcs, RunningStack, TcbShape, Created, NoFrame
<1>7. AddressSpaceOfCurrent'
  BY DEF AddressSpaceOfCurrent
<1>8. InService'
  BY DEF InService, TypeOK, IdlePcs, IretPcs, Pcs, IrqPcs, SysPcs, Timer, Mouse, Cascade, Frame, Stacks, RunningFrame, RunningStack
<1> QED
  BY <1>1, <1>2, <1>3, <1>4, <1>5, <1>6, <1>7, <1>8

(* return_to_ring3 enters a new task through its first frame.              *)
LEMMA ReturnToRing3Step == IInv /\ ReturnToRing3 => IInv'
<1> SUFFICES ASSUME IInv, ReturnToRing3 PROVE IInv'
  OBVIOUS
<1> USE DEF IInv, ReturnToRing3, Iret, taskVars, picVars, vars
<1>1. TypeOK'
  BY IretTypes DEF TypeOK, Created, Pcs
<1>2. TcbShape'
  BY DEF TcbShape, Created, Idle
<1>3. OneRunning'
  BY DEF OneRunning, Created
<1>4. RunningStack'
  BY DEF RunningStack, HomeStack, Idle, BootStack, IdlePcs, SysPcs, IrqPcs, IretPcs, RunningFrame, TypeOK, Frame, Stacks, TcbShape, Created
<1>5. RunningFrame'
  BY DEF RunningFrame, TypeOK, Frame, Stacks, IdlePcs, SysPcs, IrqPcs, Idle, RunningStack, HomeStack, NoFrame, BootStack, TcbShape, Created
<1>6. SuspendedResumable'
  BY DEF SuspendedResumable, Resumable, HomeStack, Idle, BootStack, Stacks, TypeOK, Frame, IdlePcs, RunningStack, TcbShape, Created, NoFrame
<1>7. AddressSpaceOfCurrent'
  BY DEF AddressSpaceOfCurrent
<1>8. InService'
  BY DEF InService, TypeOK, IdlePcs, IretPcs, Pcs, IrqPcs, SysPcs, Timer, Mouse, Cascade, Frame, Stacks, RunningFrame, RunningStack
<1> QED
  BY <1>1, <1>2, <1>3, <1>4, <1>5, <1>6, <1>7, <1>8

(* kmain enters its idle loop on the boot stack.                           *)
LEMMA BootDoneStep == IInv /\ BootDone => IInv'
<1> SUFFICES ASSUME IInv, BootDone PROVE IInv'
  OBVIOUS
<1> USE DEF IInv, BootDone, taskVars, picVars, vars
<1>1. TypeOK'
  BY DEF TypeOK, Created, TCB, Frame, NoFrame, Pcs, IretPcs, RetPcs, IdlePcs, IrqPcs, SysPcs, Stacks, PageDirs, Timer, Mouse, Cascade, TcbShape, RunningStack, HomeStack, Idle, BootStack
<1>2. TcbShape'
  BY DEF TcbShape, Created, Idle
<1>3. OneRunning'
  BY DEF OneRunning, Created
<1>4. RunningStack'
  BY DEF RunningStack, HomeStack, Idle, BootStack, IdlePcs, SysPcs, IrqPcs, IretPcs, RunningFrame, TypeOK, Frame, Stacks, TcbShape, Created
<1>5. RunningFrame'
  BY DEF RunningFrame, TypeOK, Frame, Stacks, IdlePcs, SysPcs, IrqPcs, Idle, RunningStack, HomeStack, NoFrame, BootStack, TcbShape, Created
<1>6. SuspendedResumable'
  BY DEF SuspendedResumable, Resumable, HomeStack, Idle, BootStack, Stacks, TypeOK, Frame, IdlePcs, RunningStack, TcbShape, Created, NoFrame
<1>7. AddressSpaceOfCurrent'
  BY DEF AddressSpaceOfCurrent
<1>8. InService'
  BY DEF InService, TypeOK, IdlePcs, IretPcs, Pcs, IrqPcs, SysPcs, Timer, Mouse, Cascade, Frame, Stacks, RunningFrame, RunningStack
<1> QED
  BY <1>1, <1>2, <1>3, <1>4, <1>5, <1>6, <1>7, <1>8

(* int 0x80 pushes its frame at TSS.esp0, the stack of its task.           *)
LEMMA UserSyscallStep == IInv /\ UserSyscall => IInv'
<1> SUFFICES ASSUME IInv, UserSyscall PROVE IInv'
  OBVIOUS
<1> USE DEF IInv, UserSyscall, EnterKernel, taskVars, picVars, vars
<1>1. TypeOK'
  BY EnterKernelTypes DEF TypeOK, Created, Pcs, SysPcs
<1>2. TcbShape'
  BY DEF TcbShape, Created, Idle
<1>3. OneRunning'
  BY DEF OneRunning, Created
<1>4. RunningStack'
  BY DEF RunningStack, HomeStack, Idle, BootStack, IdlePcs, SysPcs, IrqPcs, IretPcs, RunningFrame, TypeOK, Frame, Stacks, TcbShape, Created
<1>5. RunningFrame'
  BY DEF RunningFrame, TypeOK, Frame, Stacks, IdlePcs, SysPcs, IrqPcs, Idle, RunningStack, HomeStack, NoFrame, BootStack, TcbShape, Created
<1>6. SuspendedResumable'
  BY DEF SuspendedResumable, Resumable, HomeStack, Idle, BootStack, Stacks, TypeOK, Frame, IdlePcs, RunningStack, TcbShape, Created, NoFrame
<1>7. AddressSpaceOfCurrent'
  BY DEF AddressSpaceOfCurrent
<1>8. InService'
  BY DEF InService, TypeOK, IdlePcs, IretPcs, Pcs, IrqPcs, SysPcs, Timer, Mouse, Cascade, Frame, Stacks, RunningFrame, RunningStack
<1> QED
  BY <1>1, <1>2, <1>3, <1>4, <1>5, <1>6, <1>7, <1>8

(* A fault does the same, and the machine halts.                           *)
LEMMA UserFaultStep == IInv /\ UserFault => IInv'
<1> SUFFICES ASSUME IInv, UserFault PROVE IInv'
  OBVIOUS
<1> USE DEF IInv, UserFault, EnterKernel, taskVars, picVars, vars
<1>1. TypeOK'
  BY EnterKernelTypes DEF TypeOK, Created, Pcs, SysPcs
<1>2. TcbShape'
  BY DEF TcbShape, Created, Idle
<1>3. OneRunning'
  BY DEF OneRunning, Created
<1>4. RunningStack'
  BY DEF RunningStack, HomeStack, Idle, BootStack, IdlePcs, SysPcs, IrqPcs, IretPcs, RunningFrame, TypeOK, Frame, Stacks, TcbShape, Created
<1>5. RunningFrame'
  BY DEF RunningFrame, TypeOK, Frame, Stacks, IdlePcs, SysPcs, IrqPcs, Idle, RunningStack, HomeStack, NoFrame, BootStack, TcbShape, Created
<1>6. SuspendedResumable'
  BY DEF SuspendedResumable, Resumable, HomeStack, Idle, BootStack, Stacks, TypeOK, Frame, IdlePcs, RunningStack, TcbShape, Created, NoFrame
<1>7. AddressSpaceOfCurrent'
  BY DEF AddressSpaceOfCurrent
<1>8. InService'
  BY DEF InService, TypeOK, IdlePcs, IretPcs, Pcs, IrqPcs, SysPcs, Timer, Mouse, Cascade, Frame, Stacks, RunningFrame, RunningStack
<1> QED
  BY <1>1, <1>2, <1>3, <1>4, <1>5, <1>6, <1>7, <1>8

(* SYSCALL_YIELD is still on the stack of its caller.                      *)
LEMMA SyscallYieldStep == IInv /\ SyscallYield => IInv'
<1> SUFFICES ASSUME IInv, SyscallYield PROVE IInv'
  OBVIOUS
<1> USE DEF IInv, SyscallYield, taskVars, picVars, vars
<1>1. TypeOK'
  BY DEF TypeOK, Created, TCB, Frame, NoFrame, Pcs, IretPcs, RetPcs, IdlePcs, IrqPcs, SysPcs, Stacks, PageDirs, Timer, Mouse, Cascade, TcbShape, RunningStack, HomeStack, Idle, BootStack
<1>2. TcbShape'
  BY DEF TcbShape, Created, Idle
<1>3. OneRunning'
  BY DEF OneRunning, Created
<1>4. RunningStack'
  BY DEF RunningStack, HomeStack, Idle, BootStack, IdlePcs, SysPcs, IrqPcs, IretPcs, RunningFrame, TypeOK, Frame, Stacks, TcbShape, Created
<1>5. RunningFrame'
  BY DEF RunningFrame, TypeOK, Frame, Stacks, IdlePcs, SysPcs, IrqPcs, Idle, RunningStack, HomeStack, NoFrame, BootStack, TcbShape, Created
<1>6. SuspendedResumable'
  BY DEF SuspendedResumable, Resumable, HomeStack, Idle, BootStack, Stacks, TypeOK, Frame, IdlePcs, RunningStack, TcbShape, Created, NoFrame
<1>7. AddressSpaceOfCurrent'
  BY DEF AddressSpaceOfCurrent
<1>8. InService'
  BY DEF InService, TypeOK, IdlePcs, IretPcs, Pcs, IrqPcs, SysPcs, Timer, Mouse, Cascade, Frame, Stacks, RunningFrame, RunningStack
<1> QED
  BY <1>1, <1>2, <1>3, <1>4, <1>5, <1>6, <1>7, <1>8

(* The other system calls leave every task as it was.                      *)
LEMMA SyscallOtherStep == IInv /\ SyscallOther => IInv'
<1> SUFFICES ASSUME IInv, SyscallOther PROVE IInv'
  OBVIOUS
<1> USE DEF IInv, SyscallOther, taskVars, picVars, vars
<1>1. TypeOK'
  BY DEF TypeOK, Created, TCB, Frame, NoFrame, Pcs, IretPcs, RetPcs, IdlePcs, IrqPcs, SysPcs, Stacks, PageDirs, Timer, Mouse, Cascade, TcbShape, RunningStack, HomeStack, Idle, BootStack
<1>2. TcbShape'
  BY DEF TcbShape, Created, Idle
<1>3. OneRunning'
  BY DEF OneRunning, Created
<1>4. RunningStack'
  BY DEF RunningStack, HomeStack, Idle, BootStack, IdlePcs, SysPcs, IrqPcs, IretPcs, RunningFrame, TypeOK, Frame, Stacks, TcbShape, Created
<1>5. RunningFrame'
  BY DEF RunningFrame, TypeOK, Frame, Stacks, IdlePcs, SysPcs, IrqPcs, Idle, RunningStack, HomeStack, NoFrame, BootStack, TcbShape, Created
<1>6. SuspendedResumable'
  BY DEF SuspendedResumable, Resumable, HomeStack, Idle, BootStack, Stacks, TypeOK, Frame, IdlePcs, RunningStack, TcbShape, Created, NoFrame
<1>7. AddressSpaceOfCurrent'
  BY DEF AddressSpaceOfCurrent
<1>8. InService'
  BY DEF InService, TypeOK, IdlePcs, IretPcs, Pcs, IrqPcs, SysPcs, Timer, Mouse, Cascade, Frame, Stacks, RunningFrame, RunningStack
<1> QED
  BY <1>1, <1>2, <1>3, <1>4, <1>5, <1>6, <1>7, <1>8

(* wm_has_dirty only chooses where the idle loop goes.                     *)
LEMMA IdleCheckStep == IInv /\ IdleCheck => IInv'
<1> SUFFICES ASSUME IInv, IdleCheck PROVE IInv'
  OBVIOUS
<1> USE DEF IInv, IdleCheck, taskVars, picVars, vars
<1>1. TypeOK'
  BY DEF TypeOK, Created, TCB, Frame, NoFrame, Pcs, IretPcs, RetPcs, IdlePcs, IrqPcs, SysPcs, Stacks, PageDirs, Timer, Mouse, Cascade, TcbShape, RunningStack, HomeStack, Idle, BootStack
<1>2. TcbShape'
  BY DEF TcbShape, Created, Idle
<1>3. OneRunning'
  BY DEF OneRunning, Created
<1>4. RunningStack'
  BY DEF RunningStack, HomeStack, Idle, BootStack, IdlePcs, SysPcs, IrqPcs, IretPcs, RunningFrame, TypeOK, Frame, Stacks, TcbShape, Created
<1>5. RunningFrame'
  BY DEF RunningFrame, TypeOK, Frame, Stacks, IdlePcs, SysPcs, IrqPcs, Idle, RunningStack, HomeStack, NoFrame, BootStack, TcbShape, Created
<1>6. SuspendedResumable'
  BY DEF SuspendedResumable, Resumable, HomeStack, Idle, BootStack, Stacks, TypeOK, Frame, IdlePcs, RunningStack, TcbShape, Created, NoFrame
<1>7. AddressSpaceOfCurrent'
  BY DEF AddressSpaceOfCurrent
<1>8. InService'
  BY DEF InService, TypeOK, IdlePcs, IretPcs, Pcs, IrqPcs, SysPcs, Timer, Mouse, Cascade, Frame, Stacks, RunningFrame, RunningStack
<1> QED
  BY <1>1, <1>2, <1>3, <1>4, <1>5, <1>6, <1>7, <1>8

(* The first cli/sti window of wm_flush_dirty.                             *)
LEMMA IdleSnapshotStep == IInv /\ IdleSnapshot => IInv'
<1> SUFFICES ASSUME IInv, IdleSnapshot PROVE IInv'
  OBVIOUS
<1> USE DEF IInv, IdleSnapshot, taskVars, picVars, vars
<1>1. TypeOK'
  BY DEF TypeOK, Created, TCB, Frame, NoFrame, Pcs, IretPcs, RetPcs, IdlePcs, IrqPcs, SysPcs, Stacks, PageDirs, Timer, Mouse, Cascade, TcbShape, RunningStack, HomeStack, Idle, BootStack
<1>2. TcbShape'
  BY DEF TcbShape, Created, Idle
<1>3. OneRunning'
  BY DEF OneRunning, Created
<1>4. RunningStack'
  BY DEF RunningStack, HomeStack, Idle, BootStack, IdlePcs, SysPcs, IrqPcs, IretPcs, RunningFrame, TypeOK, Frame, Stacks, TcbShape, Created
<1>5. RunningFrame'
  BY DEF RunningFrame, TypeOK, Frame, Stacks, IdlePcs, SysPcs, IrqPcs, Idle, RunningStack, HomeStack, NoFrame, BootStack, TcbShape, Created
<1>6. SuspendedResumable'
  BY DEF SuspendedResumable, Resumable, HomeStack, Idle, BootStack, Stacks, TypeOK, Frame, IdlePcs, RunningStack, TcbShape, Created, NoFrame
<1>7. AddressSpaceOfCurrent'
  BY DEF AddressSpaceOfCurrent
<1>8. InService'
  BY DEF InService, TypeOK, IdlePcs, IretPcs, Pcs, IrqPcs, SysPcs, Timer, Mouse, Cascade, Frame, Stacks, RunningFrame, RunningStack
<1> QED
  BY <1>1, <1>2, <1>3, <1>4, <1>5, <1>6, <1>7, <1>8

(* The second one.                                                         *)
LEMMA IdleDrawStep == IInv /\ IdleDraw => IInv'
<1> SUFFICES ASSUME IInv, IdleDraw PROVE IInv'
  OBVIOUS
<1> USE DEF IInv, IdleDraw, taskVars, picVars, vars
<1>1. TypeOK'
  BY DEF TypeOK, Created, TCB, Frame, NoFrame, Pcs, IretPcs, RetPcs, IdlePcs, IrqPcs, SysPcs, Stacks, PageDirs, Timer, Mouse, Cascade, TcbShape, RunningStack, HomeStack, Idle, BootStack
<1>2. TcbShape'
  BY DEF TcbShape, Created, Idle
<1>3. OneRunning'
  BY DEF OneRunning, Created
<1>4. RunningStack'
  BY DEF RunningStack, HomeStack, Idle, BootStack, IdlePcs, SysPcs, IrqPcs, IretPcs, RunningFrame, TypeOK, Frame, Stacks, TcbShape, Created
<1>5. RunningFrame'
  BY DEF RunningFrame, TypeOK, Frame, Stacks, IdlePcs, SysPcs, IrqPcs, Idle, RunningStack, HomeStack, NoFrame, BootStack, TcbShape, Created
<1>6. SuspendedResumable'
  BY DEF SuspendedResumable, Resumable, HomeStack, Idle, BootStack, Stacks, TypeOK, Frame, IdlePcs, RunningStack, TcbShape, Created, NoFrame
<1>7. AddressSpaceOfCurrent'
  BY DEF AddressSpaceOfCurrent
<1>8. InService'
  BY DEF InService, TypeOK, IdlePcs, IretPcs, Pcs, IrqPcs, SysPcs, Timer, Mouse, Cascade, Frame, Stacks, RunningFrame, RunningStack
<1> QED
  BY <1>1, <1>2, <1>3, <1>4, <1>5, <1>6, <1>7, <1>8

(* A halted machine stays as it is.                                        *)
LEMMA HaltedOrStutter == IInv /\ UNCHANGED vars => IInv'
<1> SUFFICES ASSUME IInv, UNCHANGED vars PROVE IInv'
  OBVIOUS
<1> USE DEF IInv, taskVars, picVars, vars
<1>1. TypeOK'
  BY DEF TypeOK, Created, TCB, Frame, NoFrame, Pcs, IretPcs, RetPcs, IdlePcs, IrqPcs, SysPcs, Stacks, PageDirs, Timer, Mouse, Cascade, TcbShape, RunningStack, HomeStack, Idle, BootStack
<1>2. TcbShape'
  BY DEF TcbShape, Created, Idle
<1>3. OneRunning'
  BY DEF OneRunning, Created
<1>4. RunningStack'
  BY DEF RunningStack, HomeStack, Idle, BootStack, IdlePcs, SysPcs, IrqPcs, IretPcs, RunningFrame, TypeOK, Frame, Stacks, TcbShape, Created
<1>5. RunningFrame'
  BY DEF RunningFrame, TypeOK, Frame, Stacks, IdlePcs, SysPcs, IrqPcs, Idle, RunningStack, HomeStack, NoFrame, BootStack, TcbShape, Created
<1>6. SuspendedResumable'
  BY DEF SuspendedResumable, Resumable, HomeStack, Idle, BootStack, Stacks, TypeOK, Frame, IdlePcs, RunningStack, TcbShape, Created, NoFrame
<1>7. AddressSpaceOfCurrent'
  BY DEF AddressSpaceOfCurrent
<1>8. InService'
  BY DEF InService, TypeOK, IdlePcs, IretPcs, Pcs, IrqPcs, SysPcs, Timer, Mouse, Cascade, Frame, Stacks, RunningFrame, RunningStack
<1> QED
  BY <1>1, <1>2, <1>3, <1>4, <1>5, <1>6, <1>7, <1>8

(* No two tasks share a kernel stack.                                      *)
LEMMA HomesApart ==
    ASSUME IInv
    PROVE  \A s, t \in Created : /\ HomeStack(t) \in Stacks
                                 /\ HomeStack(s) = HomeStack(t) => s = t
BY DEF IInv, TcbShape, HomeStack, Stacks, Idle, BootStack, Created, TypeOK

(* A hardware interrupt lands on the stack of the running task.            *)
LEMMA InterruptStep ==
    ASSUME IInv, NEW i \in {Timer, Mouse}, Interrupt(i) PROVE IInv'
<1> USE DEF IInv, Interrupt
<1>0. /\ frames'[esp'].iret = pc
      /\ \A t \in Created \ {current} : frames'[HomeStack(t)] = frames[HomeStack(t)]
  <2>1. current \in Created /\ frames \in [Stacks -> Frame]
    BY DEF TypeOK
  <2>2. frames' = [frames EXCEPT ![HomeStack(current)] = [iret |-> pc, ret |-> "none"]]
        /\ esp' = HomeStack(current) /\ esp' \in Stacks
    BY EnterKernelTypes
  <2> QED
    BY ONLY <2>1, <2>2, HomesApart, IInv
<1>1. TypeOK'
  BY EnterKernelTypes DEF TypeOK, Created, Pcs, IrqPcs, taskVars, Timer, Mouse, Cascade
<1>2. TcbShape' /\ OneRunning' /\ AddressSpaceOfCurrent'
  BY DEF TcbShape, OneRunning, AddressSpaceOfCurrent, Created, taskVars
<1>3. RunningStack'
  BY EnterKernelTypes DEF RunningStack, HomeStack, taskVars, IdlePcs, SysPcs
<1>4. RunningFrame'
  BY <1>0 DEF RunningFrame, RunningStack, IdlePcs, SysPcs, IrqPcs, Idle, taskVars
<1>5. SuspendedResumable'
  BY <1>0 DEF SuspendedResumable, Resumable, HomeStack, Created, taskVars
<1>6. InService'
  BY EnterKernelTypes DEF InService, Deliverable, IdlePcs, Timer, Mouse, Cascade
<1> QED
  BY <1>1, <1>2, <1>3, <1>4, <1>5, <1>6

(* task_create_user_with_pages, called while a kernel path runs.           *)
LEMMA CreateTaskStep ==
    ASSUME IInv, CreateTask, UNCHANGED <<CR3, esp0, esp>>
    PROVE  /\ Created' = Created \cup {nextId} /\ nextId \notin Created
           /\ tcb' \in [Created' -> TCB] /\ current' \in Created' /\ nextId' \in 1..(MaxTasks + 1)
           /\ frames' \in [Stacks -> Frame]
           /\ TcbShape' /\ OneRunning' /\ SuspendedResumable' /\ AddressSpaceOfCurrent'
           /\ HomeStack(current)' = HomeStack(current)
           /\ frames'[HomeStack(current)] = frames[HomeStack(current)]
<1>0. /\ TypeOK /\ TcbShape /\ OneRunning /\ SuspendedResumable /\ AddressSpaceOfCurrent
  BY DEF IInv
<1>1. /\ Created' = Created \cup {nextId} /\ nextId \notin Created
      /\ nextId' \in 1..(MaxTasks + 1) /\ nextId \in 1..MaxTasks
  BY <1>0 DEF Created, TypeOK, CreateTask
<1>2. /\ tcb' = [t \in Created' |->
                   IF t = nextId
                     THEN [state |-> "READY", next |-> tcb[current].next,
                           kernel_stack_top |-> nextId, cr3 |-> nextId, esp |-> nextId]
                   ELSE IF t = current THEN [tcb[t] EXCEPT !.next = nextId]
                   ELSE tcb[t]]
      /\ current' = current /\ current \in Created
  BY <1>0, <1>1 DEF Created, TypeOK, CreateTask
<1>3. /\ tcb[current].next \in Created
      /\ \A t \in Created : tcb[t] \in TCB
  BY <1>0 DEF TcbShape, TypeOK
<1>4. \A t \in Created :
         /\ tcb'[t] \in TCB
         /\ tcb'[t].state = tcb[t].state /\ tcb'[t].esp = tcb[t].esp
         /\ tcb'[t].kernel_stack_top = tcb[t].kernel_stack_top /\ tcb'[t].cr3 = tcb[t].cr3
         /\ tcb'[t].next \in {tcb[t].next, nextId}
  <2> TAKE t \in Created
  <2>1. tcb[t] \in TCB /\ t # nextId /\ t \in Created'
    BY <1>1, <1>3
  <2>2. tcb'[t] = IF t = current THEN [tcb[t] EXCEPT !.next = nextId] ELSE tcb[t]
    BY <1>1, <1>2, <2>1
  <2>3. nextId \in 0..MaxTasks
    BY <1>1
  <2> QED
    BY <2>1, <2>2, <2>3 DEF TCB
<1>5. /\ tcb'[nextId] \in TCB
      /\ tcb'[nextId] = [state |-> "READY", next |-> tcb[current].next,
                         kernel_stack_top |-> nextId, cr3 |-> nextId, esp |-> nextId]
  BY <1>0, <1>1, <1>2, <1>3 DEF TCB, Created, TypeOK
<1>6. tcb' \in [Created' -> TCB] /\ current' \in Created'
  BY <1>1, <1>2, <1>4, <1>5
<1>7. [iret |-> "user", ret |-> "first"] \in Frame
  BY DEF Frame, IretPcs, RetPcs
<1>8. frames' \in [Stacks -> Frame]
  BY <1>0, <1>7 DEF TypeOK, CreateTask
<1>9. TcbShape'
  <2>1. Idle \in Created'
    BY <1>0, <1>1 DEF TcbShape
  <2>2. \A t \in Created : /\ tcb'[t].next \in Created'
                           /\ tcb'[t].kernel_stack_top = t /\ tcb'[t].cr3 = t
    BY <1>0, <1>1, <1>4 DEF TcbShape
  <2>3. /\ tcb'[nextId].next \in Created'
        /\ tcb'[nextId].kernel_stack_top = nextId /\ tcb'[nextId].cr3 = nextId
    BY <1>1, <1>3, <1>5
  <2> QED
    BY <1>1, <2>1, <2>2, <2>3 DEF TcbShape
<1>10. OneRunning'
  BY <1>0, <1>1, <1>2, <1>4, <1>5 DEF OneRunning
<1>11. \A t \in Created : HomeStack(t)' = HomeStack(t) /\ HomeStack(t) # nextId
  BY <1>0, <1>1, <1>4 DEF HomeStack, TcbShape, Idle, BootStack, Created
<1>12. SuspendedResumable'
  <2>1. ASSUME NEW t \in Created, t # current PROVE Resumable(t)'
    <3>1. Resumable(t) /\ t # nextId
      BY <2>1, <1>0, <1>1 DEF SuspendedResumable
    <3>2. frames'[HomeStack(t)] = frames[HomeStack(t)]
      BY HomesApart, <1>0, <1>1, <1>11, <2>1 DEF TypeOK, CreateTask
    <3>3. /\ tcb'[t].esp = tcb[t].esp /\ tcb[t].esp = HomeStack(t)
          /\ HomeStack(t)' = HomeStack(t) /\ (t = Idle <=> HomeStack(t) = BootStack)
      BY <3>1, <1>0, <1>1, <1>4, <1>11, <2>1 DEF Resumable, HomeStack, TcbShape, Idle, BootStack, Created, TypeOK
    <3> QED
      BY <3>1, <3>2, <3>3 DEF Resumable
  <2>2. ASSUME NEW t \in {nextId} PROVE Resumable(t)'
    <3>1. t \in Stacks /\ t # Idle /\ tcb'[t].esp = t /\ tcb'[t].kernel_stack_top = t
      BY <1>1, <1>5 DEF Stacks, Idle
    <3>2. frames'[t] = [iret |-> "user", ret |-> "first"]
      BY <3>1, <1>0 DEF TypeOK, CreateTask
    <3> QED
      BY <3>1, <3>2 DEF Resumable, HomeStack
  <2>3. \A t \in Created' \ {current'} : Resumable(t)'
    BY <2>1, <2>2, <1>1, <1>2
  <2> QED
    BY <2>3 DEF SuspendedResumable
<1>13. AddressSpaceOfCurrent'
  BY <1>0, <1>2, <1>4 DEF AddressSpaceOfCurrent
<1>14. frames'[HomeStack(current)] = frames[HomeStack(current)]
  BY HomesApart, <1>0, <1>1, <1>2, <1>11 DEF TypeOK, CreateTask
<1> QED
  BY <1>1, <1>2, <1>6, <1>8, <1>9, <1>10, <1>11, <1>12, <1>13, <1>14

(* Programs created by kmain before the idle loop.                         *)
LEMMA BootCreateStep == IInv /\ BootCreate => IInv'
<1> SUFFICES ASSUME IInv, BootCreate PROVE IInv'
  OBVIOUS
<1> USE DEF BootCreate
<1>1. TypeOK'
  BY CreateTaskStep DEF IInv, TypeOK, picVars
<1>2. RunningStack' /\ RunningFrame'
  BY CreateTaskStep DEF IInv, RunningStack, RunningFrame, CreateTask
<1>3. InService'
  BY DEF IInv, InService, picVars
<1> QED
  BY <1>1, <1>2, <1>3, CreateTaskStep DEF IInv

(* Programs created by SYSCALL_RUN and SYSCALL_EXEC.                       *)
LEMMA SyscallSpawnStep == IInv /\ SyscallSpawn => IInv'
<1> SUFFICES ASSUME IInv, SyscallSpawn PROVE IInv'
  OBVIOUS
<1> USE DEF SyscallSpawn
<1>1. CASE CreateTask
  <2>1. TypeOK'
    BY <1>1, CreateTaskStep DEF IInv, TypeOK, picVars, Pcs, SysPcs
  <2>2. RunningStack' /\ RunningFrame'
    BY <1>1, CreateTaskStep DEF IInv, RunningStack, RunningFrame, CreateTask, SysPcs, IdlePcs, IrqPcs
  <2>3. InService'
    BY DEF IInv, InService, picVars
  <2> QED
    BY <1>1, <2>1, <2>2, <2>3, CreateTaskStep DEF IInv
<1>2. CASE CreateFails
  <2>1. SyscallOther
    BY <1>2 DEF CreateFails, SyscallOther, taskVars, picVars
  <2> QED
    BY <2>1, SyscallOtherStep
<1> QED
  BY <1>1, <1>2

(* task_yield: the outgoing stack gets a context, the incoming one loses   *)
(* its own, and the two stacks are different.                              *)
LEMMA TaskYieldStep == IInv /\ TaskYield => IInv'
<1> SUFFICES ASSUME IInv, TaskYield PROVE IInv'
  OBVIOUS
<1> USE DEF IInv, TaskYield
<1>1. CASE tcb[current].next = current
  <2>1. /\ pc' = Continuation(pc) /\ pc' \in {"irq_ret", "sys_ret", "idle_check"}
        /\ UNCHANGED <<current, tcb, frames, CR3, esp0, esp>>
    BY <1>1 DEF Continuation
  <2>2. TypeOK'
    BY <2>1 DEF TypeOK, Created, picVars, Pcs, IdlePcs, IrqPcs, SysPcs
  <2>3. TcbShape' /\ OneRunning' /\ AddressSpaceOfCurrent' /\ SuspendedResumable'
    BY <2>1 DEF TcbShape, OneRunning, AddressSpaceOfCurrent, SuspendedResumable,
       Resumable, HomeStack, Created
  <2>4. RunningStack' /\ RunningFrame'
    BY <2>1 DEF Continuation, RunningStack, RunningFrame, HomeStack, IdlePcs, IrqPcs, SysPcs
  <2>5. InService'
    BY <2>1 DEF InService, picVars
  <2> QED
    BY <2>2, <2>3, <2>4, <2>5
<1>2. CASE tcb[current].next # current
  <2> HIDE DEF IInv, TaskYield
  <2>0. /\ TypeOK /\ TcbShape /\ OneRunning /\ RunningStack /\ RunningFrame
        /\ SuspendedResumable /\ AddressSpaceOfCurrent /\ InService
        /\ pc \in {"irq_yield", "sys_yield", "idle_yield"}
    BY DEF IInv, TaskYield
  <2>old. PICK old, new, cont : old = current /\ new = tcb[current].next /\ cont = Continuation(pc)
    OBVIOUS
  <2>1. new \in Created /\ old \in Created /\ new # old
    BY <2>0, <2>old, <1>2 DEF TcbShape, TypeOK
  <2>2. /\ SwitchTask(new)
        /\ UNCHANGED <<nextId, int_no, DS, isr, irr, dirty>>
    BY <2>0, <2>old, <1>2 DEF picVars, TaskYield
  <2>3. Resumable(new) /\ tcb[new].esp = HomeStack(new) /\ esp = HomeStack(old)
    BY <2>0, <2>old, <2>1 DEF SuspendedResumable, Resumable, RunningStack
  <2>4. \A s, t \in Created : /\ HomeStack(t) \in Stacks
                              /\ HomeStack(s) = HomeStack(t) => s = t
    BY HomesApart
  <2>5. /\ frames' = [frames EXCEPT ![HomeStack(old)].ret = cont,
                                    ![HomeStack(new)].ret = "none"]
        /\ esp' = HomeStack(new)
        /\ pc' = frames[HomeStack(new)].ret
    BY <2>old, <2>2, <2>3 DEF SwitchTask, switch_to
  <2>6. /\ frames'[HomeStack(old)] = [iret |-> frames[HomeStack(old)].iret, ret |-> cont]
        /\ frames'[HomeStack(new)] = [iret |-> frames[HomeStack(new)].iret, ret |-> "none"]
        /\ \A t \in Created \ {old, new} : frames'[HomeStack(t)] = frames[HomeStack(t)]
    BY <2>0, <2>1, <2>4, <2>5 DEF TypeOK, Frame
  <2>7. /\ \A t \in Created : /\ tcb'[t].next = tcb[t].next
                              /\ tcb'[t].kernel_stack_top = tcb[t].kernel_stack_top
                              /\ tcb'[t].cr3 = tcb[t].cr3
        /\ \A t \in Created \ {old, new} : tcb'[t] = tcb[t]
        /\ tcb'[old].state = "READY" /\ tcb'[old].esp = esp
        /\ tcb'[new].state = "RUNNING"
        /\ Created' = Created /\ tcb' \in [Created' -> TCB]
    <3>1. tcb \in [Created -> TCB] /\ esp \in 0..(MaxTasks + 1)
      BY <2>0 DEF TypeOK, Stacks
    <3>2. tcb' = [tcb EXCEPT ![old].state = "READY", ![old].esp = esp,
                            ![new].state = "RUNNING"]
      BY <2>old, <2>2 DEF SwitchTask
    <3>3. /\ tcb'[new] = [tcb[new] EXCEPT !.state = "RUNNING"]
          /\ tcb'[old] = [tcb[old] EXCEPT !.state = "READY", !.esp = esp]
          /\ \A t \in Created \ {old, new} : tcb'[t] = tcb[t]
      BY <3>1, <3>2, <2>1
    <3>4. tcb[new] \in TCB /\ tcb[old] \in TCB
      BY <3>1, <2>1
    <3>5. /\ tcb'[new].next = tcb[new].next /\ tcb'[new].cr3 = tcb[new].cr3
          /\ tcb'[new].kernel_stack_top = tcb[new].kernel_stack_top
          /\ tcb'[new].state = "RUNNING" /\ tcb'[new] \in TCB
      BY <3>3, <3>4 DEF TCB
    <3>6. /\ tcb'[old].next = tcb[old].next /\ tcb'[old].cr3 = tcb[old].cr3
          /\ tcb'[old].kernel_stack_top = tcb[old].kernel_stack_top
          /\ tcb'[old].state = "READY" /\ tcb'[old].esp = esp /\ tcb'[old] \in TCB
      BY <3>1, <3>3, <3>4 DEF TCB
    <3>7. Created' = Created
      BY <2>2 DEF Created
    <3>8. tcb' \in [Created' -> TCB]
      BY <3>1, <3>2, <3>3, <3>5, <3>6, <3>7, <2>1
    <3> QED
      BY <3>3, <3>5, <3>6, <3>7, <3>8
  <2>8. \A t \in Created : HomeStack(t)' = HomeStack(t)
    BY <2>0, <2>7 DEF HomeStack
  <2>9. cont \in RetPcs /\ pc' \in {"first", "irq_ret", "sys_ret", "idle_check"}
    BY <2>0, <2>old, <2>3, <2>5 DEF Continuation, RetPcs, Resumable, HomeStack
  <2>10. TypeOK'
    <3>2. frames' \in [Stacks -> Frame]
      BY <2>0, <2>1, <2>4, <2>5, <2>9 DEF TypeOK, Frame, RetPcs
    <3>3. tcb[new] \in TCB /\ esp' \in Stacks /\ current' \in Created'
      BY <2>0, <2>1, <2>2, <2>4, <2>5, <2>7 DEF SwitchTask, TypeOK
    <3>4. CR3' \in PageDirs /\ esp0' \in 0..MaxTasks
      BY <2>0, <2>2, <3>3 DEF SwitchTask, switch_to, TypeOK, TCB, PageDirs
    <3>5. EFLAGS_IF' = FALSE
      BY DEF TaskYield
    <3>6. pc' \in Pcs
      BY <2>9 DEF Pcs, IdlePcs, IrqPcs, SysPcs
    <3> QED
      BY <2>0, <2>2, <2>7, <3>2, <3>3, <3>4, <3>5, <3>6 DEF TypeOK, Created
  <2>11. TcbShape'
    BY <2>0, <2>7 DEF TcbShape
  <2>12. OneRunning'
    <3>1. current' = new
      BY <2>2 DEF SwitchTask
    <3> QED
      BY <3>1, <2>0, <2>old, <2>1, <2>7 DEF OneRunning
  <2>13. RunningStack'
    <3>1. current' = new /\ esp' = HomeStack(new)'
      BY <2>0, <2>1, <2>2, <2>5, <2>8 DEF SwitchTask
    <3>2. new # Idle => esp0' = new
      BY <2>0, <2>1, <2>2 DEF SwitchTask, TcbShape, Idle
    <3>3. /\ pc' \in {"idle_check", "irq_ret"} \/ new # Idle
          /\ pc' = "idle_check" => new = Idle
          /\ pc' \notin (IdlePcs \ {"idle_check"}) \cup {"boot", "user"}
      BY <2>0, <2>3, <2>5, <2>9 DEF Resumable, HomeStack, IdlePcs
    <3>4. esp' = HomeStack(current)'
      BY <3>1, <2>5, <2>8, <2>1 DEF HomeStack
    <3> QED
      BY <3>1, <3>2, <3>3, <3>4 DEF RunningStack, IdlePcs, SysPcs
  <2>14. RunningFrame'
    <3>1. current' = new
      BY <2>2 DEF SwitchTask
    <3>2. frames'[esp'].iret = frames[HomeStack(new)].iret
      BY <2>5, <2>6
    <3>3. IF new = Idle
            THEN \/ frames[HomeStack(new)].iret = "none" /\ pc' = "idle_check"
                 \/ frames[HomeStack(new)].iret \in IdlePcs /\ pc' = "irq_ret"
            ELSE /\ frames[HomeStack(new)].iret = "user"
                 /\ pc' \in {"first", "irq_ret", "sys_ret"}
      BY <2>3, <2>5 DEF Resumable, HomeStack
    <3> QED
      BY <3>1, <3>2, <3>3 DEF RunningFrame, IdlePcs, IrqPcs, SysPcs
  <2>15. SuspendedResumable'
    <3>1. Resumable(old)'
      <4>1. /\ tcb'[old].esp = HomeStack(old)'
            /\ frames'[HomeStack(old)] = [iret |-> frames[HomeStack(old)].iret, ret |-> cont]
        BY <2>1, <2>3, <2>6, <2>7, <2>8 DEF HomeStack
      <4>2. IF old = Idle
              THEN \/ frames[HomeStack(old)].iret = "none" /\ cont = "idle_check"
                   \/ frames[HomeStack(old)].iret \in IdlePcs /\ cont = "irq_ret"
              ELSE frames[HomeStack(old)].iret = "user" /\ cont \in {"irq_ret", "sys_ret"}
        BY <2>0, <2>old, <2>3 DEF RunningStack, RunningFrame, Continuation, IdlePcs, IrqPcs, SysPcs
      <4>3. old = Idle => HomeStack(old)' = BootStack
        BY DEF HomeStack
      <4>4. old # Idle => HomeStack(old)' = tcb'[old].esp
        BY <4>1
      <4> QED
        BY <4>1, <4>2, <4>3, <4>4, <2>8, <2>1 DEF Resumable
    <3>2. \A t \in Created \ {old, new} : Resumable(t)'
      <4> TAKE t \in Created \ {old, new}
      <4>1. Resumable(t)
        BY <2>0, <2>old DEF SuspendedResumable
      <4> QED
        BY <2>0, <4>1, <2>6, <2>7, <2>8 DEF Resumable, HomeStack
    <3> QED
      <4>1. current' = new /\ Created' = Created
        BY <2>2, <2>7 DEF SwitchTask
      <4>2. \A t \in Created' \ {current'} : Resumable(t)'
        BY <3>1, <3>2, <4>1
      <4> QED
        BY <4>2 DEF SuspendedResumable
  <2>16. AddressSpaceOfCurrent'
    BY <2>0, <2>1, <2>2, <2>7 DEF AddressSpaceOfCurrent, SwitchTask, switch_to, TcbShape, Idle
  <2>17. InService'
    BY <2>0, <2>2, <2>9 DEF InService
  <2> QED
    BY <2>10, <2>11, <2>12, <2>13, <2>14, <2>15, <2>16, <2>17 DEF IInv
<1> QED
  BY <1>1, <1>2

-----------------------------------------------------------------------------

(* Every step of the kernel, the devices and the programs keeps IInv.      *)
LEMMA IInvStep == IInv /\ [Next]_vars => IInv'
<1> SUFFICES ASSUME IInv, [Next]_vars PROVE IInv'
  OBVIOUS
<1>1. CASE Kernel
  BY <1>1, InterruptStep, TimerHandlerStep, MouseHandlerStep, IrqReturnStep,
     SyscallYieldStep, SyscallSpawnStep, SyscallOtherStep, SyscallReturnStep,
     ReturnToRing3Step, TaskYieldStep, BootDoneStep, IdleCheckStep,
     IdleSnapshotStep, IdleDrawStep DEF Kernel
<1>2. CASE UNCHANGED vars
  BY <1>2, HaltedOrStutter
<1>3. CASE TimerTick \/ MouseByte \/ BootCreate \/ UserSyscall \/ UserFault \/ Halted
  BY <1>3, TimerTickStep, MouseByteStep, BootCreateStep, UserSyscallStep,
     UserFaultStep, HaltedOrStutter DEF Halted
<1> QED
  BY <1>1, <1>2, <1>3 DEF Next

(* IInv holds in every state the kernel reaches.                           *)
LEMMA SpecIInv == Spec => []IInv
BY InitIInv, IInvStep, PTL DEF Spec

-----------------------------------------------------------------------------
(* Types hold, and g_next_id always names the TCBs that exist.             *)
THEOREM TypeCorrect == Spec => []TypeOK
BY SpecIInv, PTL DEF IInv

(* Switches and creations keep exactly one task marked running.            *)
THEOREM OneRunningHolds == Spec => []OneRunning
BY SpecIInv, PTL DEF IInv

(* A program's interrupts and system calls land on its own kernel stack:   *)
(* task_yield and tss_set_esp0 never leave another task's stack there.     *)
THEOREM OnOwnStackHolds == Spec => []OnOwnStack
<1>1. IInv => OnOwnStack
  BY DEF IInv, OnOwnStack, RunningStack, HomeStack, TcbShape, TypeOK, IdlePcs, SysPcs
<1> QED
  BY <1>1, SpecIInv, PTL

(* Every task switched out can be resumed where it stopped.                *)
THEOREM SuspendedResumableHolds == Spec => []SuspendedResumable
BY SpecIInv, PTL DEF IInv

(* The invariant page_is_user_accessible relies on: the CPU translates     *)
(* through the page directory of the task that runs.                       *)
THEOREM AddressSpaceHolds == Spec => []AddressSpaceOfCurrent
BY SpecIInv, PTL DEF IInv

(* In ring 3 interrupts are on and the PICs are ready for the next tick.   *)
THEOREM PreemptibleHolds == Spec => []Preemptible
<1>1. IInv => Preemptible
  BY DEF IInv, Preemptible, InService
<1> QED
  BY <1>1, SpecIInv, PTL

-----------------------------------------------------------------------------

(* Entering the kernel writes no stack but that of the running task.       *)
LEMMA EnterKernelElsewhere ==
    ASSUME IInv, EnterKernel, pc \in IdlePcs \cup {"user"},
           NEW t \in Created, t # current
    PROVE  frames'[HomeStack(t)] = frames[HomeStack(t)]
<1>1. HomeStack(t) # esp' /\ HomeStack(t) \in Stacks
  BY EnterKernelTypes, HomesApart DEF IInv, TypeOK
<1> QED
  BY <1>1, EnterKernelTypes DEF IInv, TypeOK

(* Leaving it writes no other stack either.                                *)
LEMMA IretElsewhere ==
    ASSUME IInv, NEW ds, Iret(ds), NEW t \in Created, t # current
    PROVE  frames'[HomeStack(t)] = frames[HomeStack(t)]
<1>1. HomeStack(t) # esp /\ HomeStack(t) \in Stacks
  BY HomesApart DEF IInv, TypeOK, RunningStack
<1> QED
  BY <1>1 DEF Iret, IInv, TypeOK

(* A creation writes the new stack, which belongs to no task yet.          *)
LEMMA CreateTaskElsewhere ==
    ASSUME IInv, CreateTask, NEW t \in Created
    PROVE  frames'[HomeStack(t)] = frames[HomeStack(t)]
<1>1. HomeStack(t) # nextId /\ HomeStack(t) \in Stacks
  BY HomesApart DEF IInv, TypeOK, TcbShape, HomeStack, Created, CreateTask, Idle, BootStack
<1> QED
  BY <1>1 DEF CreateTask, IInv, TypeOK

(* A switch writes only the two stacks it switches between.                *)
LEMMA TaskYieldElsewhere ==
    ASSUME IInv, TaskYield, NEW t \in Created, t # current, t # current'
    PROVE  frames'[HomeStack(t)] = frames[HomeStack(t)]
<1>1. CASE tcb[current].next = current
  BY <1>1 DEF TaskYield
<1>2. CASE tcb[current].next # current
  <2>1. PICK new : new = tcb[current].next
    OBVIOUS
  <2>2. new \in Created /\ new # current /\ current \in Created
    BY <1>2, <2>1 DEF IInv, TcbShape, TypeOK
  <2>3. SwitchTask(new) /\ current' = new
    BY <1>2, <2>1 DEF TaskYield, SwitchTask
  <2>4. tcb[new].esp = HomeStack(new) /\ esp = HomeStack(current)
    BY <2>2 DEF IInv, SuspendedResumable, Resumable, RunningStack
  <2>5. HomeStack(t) \in Stacks /\ HomeStack(t) # HomeStack(new) /\ HomeStack(t) # HomeStack(current)
    BY <2>2, <2>3, HomesApart
  <2> QED
    BY <2>3, <2>4, <2>5 DEF SwitchTask, switch_to, IInv, TypeOK
<1> QED
  BY <1>1, <1>2

(* No action of the machine writes the stack of a task it does not switch. *)
LEMMA ContextUntouchedStep ==
    ASSUME IInv, Next, NEW t \in Created, t # current, t # current'
    PROVE  frames'[HomeStack(t)] = frames[HomeStack(t)]
<1>1. CASE \E i \in {Timer, Mouse} : Interrupt(i)
  BY <1>1, EnterKernelElsewhere DEF Interrupt
<1>2. CASE UserSyscall \/ UserFault
  BY <1>2, EnterKernelElsewhere DEF UserSyscall, UserFault
<1>3. CASE IrqReturn \/ SyscallReturn \/ ReturnToRing3
  BY <1>3, IretElsewhere DEF IrqReturn, SyscallReturn, ReturnToRing3
<1>4. CASE BootCreate \/ SyscallSpawn
  BY <1>4, CreateTaskElsewhere DEF BootCreate, SyscallSpawn, CreateFails
<1>5. CASE TaskYield
  BY <1>5, TaskYieldElsewhere
<1>6. CASE \/ TimerTick \/ MouseByte \/ TimerHandler \/ MouseHandler \/ SyscallYield
           \/ SyscallOther \/ BootDone \/ IdleCheck \/ IdleSnapshot \/ IdleDraw \/ Halted
  BY <1>6 DEF TimerTick, MouseByte, TimerHandler, MouseHandler, SyscallYield,
     SyscallOther, BootDone, IdleCheck, IdleSnapshot, IdleDraw, Halted, vars
<1> QED
  BY <1>1, <1>2, <1>3, <1>4, <1>5, <1>6 DEF Next, Kernel

(* A suspended task's saved context is only written by the switch from or  *)
(* to that task.                                                           *)
THEOREM ContextUntouchedHolds == Spec => SuspendedContextUntouched
<1>1. IInv /\ [Next]_vars =>
        [\A t \in Created : t # current /\ t # current' =>
             frames'[HomeStack(t)] = frames[HomeStack(t)]]_vars
  BY ContextUntouchedStep
<1> QED
  BY <1>1, SpecIInv, PTL DEF Spec, SuspendedContextUntouched

-----------------------------------------------------------------------------
(* The run queue: q lists every task once, from the running one on, each   *)
(* followed by its next, and the last one's next is the first.             *)
IsRing(q) ==
    /\ q \in [1..nextId -> Created]
    /\ q[1] = current
    /\ \A i, j \in 1..nextId : q[i] = q[j] => i = j
    /\ \A t \in Created : \E i \in 1..nextId : q[i] = t
    /\ \A i \in 1..nextId : i < nextId => tcb[q[i]].next = q[i + 1]
    /\ tcb[q[nextId]].next = current

LEMMA LeastNat ==
    ASSUME NEW S, S \subseteq Nat, S # {}
    PROVE  \E s \in S : \A r \in S : s <= r
<1>1. PICK s \in S : \A r \in S : ~(<<r, s>> \in OpToRel(<, Nat))
  BY NatLessThanWellFounded, WFMin
<1>2. \A r \in S : ~(r < s)
  BY <1>1 DEF OpToRel
<1> QED
  BY <1>2

(* The list RunList makes of a next function, and a list of one round.     *)
Followed(n, cur, t) ==
    [i \in 1..n |-> (CHOOSE f : f = [m \in 0..n |-> IF m = 0 THEN cur
                                                    ELSE t[f[m - 1]].next])[i - 1]]

OneRound(q, n, cur, t) ==
    /\ DOMAIN q = 1..n /\ q = [i \in 1..n |-> q[i]] /\ q[1] = cur
    /\ \A i \in 1..n : i < n => t[q[i]].next = q[i + 1]
    /\ t[q[n]].next = cur

(* Following next visits a round in its order.                             *)
LEMMA FollowedRound ==
    ASSUME NEW n \in Nat \ {0}, NEW cur, NEW t, NEW q, OneRound(q, n, cur, t)
    PROVE  Followed(n, cur, t) = q
<1> DEFINE Hops(f) == f = [m \in 0..n |-> IF m = 0 THEN cur ELSE t[f[m - 1]].next]
           hop == CHOOSE f : Hops(f)
<1>1. Followed(n, cur, t) = [i \in 1..n |-> hop[i - 1]]
  BY Zenon DEF Followed
<1>2. \E f : Hops(f)
  <2> DEFINE g == [m \in 0..n |-> IF m < n THEN q[m + 1] ELSE cur]
  <2>1. \A m \in 0..n : g[m] = IF m = 0 THEN cur ELSE t[g[m - 1]].next
    <3> TAKE m \in 0..n
    <3>1. CASE m = 0
      BY <3>1 DEF OneRound
    <3>2. CASE m # 0 /\ m < n
      <4>1. m \in 1..n /\ m - 1 \in 0..n /\ m - 1 < n /\ (m - 1) + 1 = m
        BY <3>2
      <4>2. g[m] = q[m + 1] /\ g[m - 1] = q[m]
        BY <3>2, <4>1
      <4> QED
        BY <3>2, <4>1, <4>2 DEF OneRound
    <3>3. CASE m # 0 /\ m = n
      <4>1. m - 1 \in 0..n /\ m - 1 < n /\ (m - 1) + 1 = m
        BY <3>3
      <4>2. g[m] = cur /\ g[m - 1] = q[m]
        BY <3>3, <4>1
      <4> QED
        BY <3>3, <4>1, <4>2 DEF OneRound
    <3> QED
      BY <3>1, <3>2, <3>3
  <2>2. g = [m \in 0..n |-> g[m]]
    OBVIOUS
  <2> HIDE DEF g
  <2>3. g = [m \in 0..n |-> IF m = 0 THEN cur ELSE t[g[m - 1]].next]
    BY <2>1, <2>2
  <2> QED
    BY <2>3
<1>3. PICK f : f = hop /\ Hops(f)
  BY Zenon, <1>2
<1>4. \A i \in 1..n : f[i - 1] = IF i = 1 THEN cur ELSE t[f[(i - 1) - 1]].next
  <2>1. PICK g : /\ g = [m \in 0..n |-> IF m = 0 THEN cur ELSE t[f[m - 1]].next]
                 /\ f = g
    BY Zenon, <1>3
  <2>2. \A m \in 0..n : g[m] = IF m = 0 THEN cur ELSE t[f[m - 1]].next
    BY <2>1
  <2>3. \A i \in 1..n : i - 1 \in 0..n /\ (i - 1 = 0 <=> i = 1)
    OBVIOUS
  <2> QED
    BY <2>1, <2>2, <2>3
<1> HIDE DEF Hops, hop
<1>5. \A i \in 1..n : f[i - 1] = q[i]
  <2> DEFINE Bad == {i \in 1..n : f[i - 1] # q[i]}
  <2> SUFFICES ASSUME Bad # {} PROVE FALSE
    OBVIOUS
  <2>a. Bad \subseteq Nat
    OBVIOUS
  <2>1. PICK m \in Bad : \A r \in Bad : m <= r
    BY <2>a, LeastNat
  <2>2. m \in 1..n /\ m # 1
    BY <1>4, <2>1 DEF OneRound
  <2>3. m - 1 \in 1..n /\ m - 1 < n /\ (m - 1) + 1 = m /\ ~(m <= m - 1)
    BY <2>2
  <2>4. f[(m - 1) - 1] = q[m - 1]
    BY <2>1, <2>3
  <2>5. f[m - 1] = t[q[m - 1]].next
    BY <1>4, <2>2, <2>4
  <2>6. t[q[m - 1]].next = q[m]
    BY <2>3 DEF OneRound
  <2> QED
    BY <2>1, <2>5, <2>6
<1>6. Followed(n, cur, t) = [i \in 1..n |-> q[i]]
  BY <1>1, <1>3, <1>5
<1> QED
  BY <1>6 DEF OneRound

(* So RunList is the ring, before and after a step.                        *)
LEMMA RingIsRunList ==
    ASSUME NEW q
    PROVE  /\ IsRing(q) /\ nextId \in Nat \ {0} => RunList = q
           /\ IsRing(q)' /\ nextId' \in Nat \ {0} => RunList' = q
<1>1. RunList = Followed(nextId, current, tcb)
  BY Zenon DEF RunList, Followed
<1>2. RunList' = Followed(nextId', current', tcb')
  BY Zenon DEF RunList, Followed
<1>3. ASSUME IsRing(q), nextId \in Nat \ {0} PROVE RunList = q
  <2>1. OneRound(q, nextId, current, tcb)
    BY <1>3 DEF IsRing, OneRound
  <2> QED
    BY <1>1, <1>3, <2>1, FollowedRound
<1>4. ASSUME IsRing(q)', nextId' \in Nat \ {0} PROVE RunList' = q
  <2>1. OneRound(q, nextId', current', tcb')
    BY <1>4 DEF IsRing, OneRound
  <2> QED
    BY <1>2, <1>4, <2>1, FollowedRound
<1> QED
  BY <1>3, <1>4

\* The ring after a creation and after a switch.
Inserted(q) == [i \in 1..(nextId + 1) |-> IF i = 1 THEN q[1]
                                          ELSE IF i = 2 THEN nextId ELSE q[i - 1]]
Rotated(q) == [i \in 1..nextId |-> IF i < nextId THEN q[i + 1] ELSE q[1]]

(* task_create_user_with_pages links the new TCB in behind the running     *)
(* one (task.c:170-185).                                                   *)
LEMMA CreateTaskLinks ==
    ASSUME IInv, CreateTask
    PROVE  /\ Created' = Created \cup {nextId} /\ nextId \notin Created
           /\ nextId' = nextId + 1 /\ current' = current
           /\ tcb'[nextId].next = tcb[current].next
           /\ tcb'[current].next = nextId
           /\ \A s \in Created \ {current} : tcb'[s].next = tcb[s].next
<1>1. /\ Created' = Created \cup {nextId} /\ nextId \notin Created
      /\ current \in Created /\ nextId \in Created' /\ current \in Created'
  BY DEF IInv, TypeOK, Created, CreateTask
<1>2. tcb[current] \in TCB
  BY DEF IInv, TypeOK
<1>3. tcb'[current] = [tcb[current] EXCEPT !.next = nextId]
  BY <1>1 DEF CreateTask, Created, IInv, TypeOK
<1>4. \A s \in Created \ {current} : tcb'[s] = tcb[s]
  BY <1>1 DEF CreateTask, Created, IInv, TypeOK
<1>5. tcb'[nextId].next = tcb[current].next
  BY <1>1 DEF CreateTask, Created, IInv, TypeOK
<1>6. nextId' = nextId + 1 /\ current' = current
  BY DEF CreateTask
<1> QED
  BY <1>1, <1>2, <1>3, <1>4, <1>5, <1>6 DEF TCB

LEMMA CreateTaskRing ==
    ASSUME IInv, CreateTask, NEW q, IsRing(q), NEW r, r = Inserted(q)
    PROVE  IsRing(r)' /\ nextId' \in Nat \ {0}
<1>1. PICK n \in Nat \ {0} : n = nextId
  BY DEF IInv, TypeOK
<1>2. PICK cur : cur = current
  OBVIOUS
<1>3. PICK nxt : nxt = [t \in Created |-> tcb[t].next]
  OBVIOUS
<1>4. PICK nxt1 : nxt1 = [t \in Created' |-> tcb'[t].next]
  OBVIOUS
<1>5. PICK S, S1 : S = Created /\ S1 = Created'
  OBVIOUS
<1>6. r = [i \in 1..(n + 1) |-> IF i = 1 THEN q[1] ELSE IF i = 2 THEN n ELSE q[i - 1]]
  BY <1>1 DEF Inserted
<1>7. /\ S1 = S \cup {n} /\ n \notin S /\ nextId' = n + 1 /\ current' = cur /\ cur \in S
      /\ nxt1[n] = nxt[cur] /\ nxt1[cur] = n
      /\ \A s \in S : s # cur => nxt1[s] = nxt[s]
  BY <1>1, <1>2, <1>3, <1>4, <1>5, CreateTaskLinks DEF IInv, TypeOK
<1>8. /\ q \in [1..n -> S] /\ q[1] = cur
      /\ \A i, j \in 1..n : q[i] = q[j] => i = j
      /\ \A t \in S : \E i \in 1..n : q[i] = t
      /\ \A i \in 1..n : i < n => nxt[q[i]] = q[i + 1]
      /\ nxt[q[n]] = cur
  BY <1>1, <1>2, <1>3, <1>5 DEF IsRing
<1>9. /\ r[1] = cur /\ r[2] = n /\ 2 \in 1..(n + 1)
      /\ \A i \in 3..(n + 1) : r[i] = q[i - 1] /\ i - 1 \in 2..n
      /\ \A i \in 2..n : i + 1 \in 3..(n + 1) /\ r[i + 1] = q[i]
  BY <1>6, <1>8
<1>10. r \in [1..(n + 1) -> S1]
  BY <1>6, <1>7, <1>8
<1>11. \A i, j \in 1..(n + 1) : r[i] = r[j] => i = j
  <2>1. \A i \in 3..(n + 1) : r[i] \in S /\ r[i] # cur /\ r[i] # n
    BY <1>7, <1>8, <1>9
  <2>2. \A i \in 1..(n + 1) : i = 1 \/ i = 2 \/ i \in 3..(n + 1)
    OBVIOUS
  <2>3. \A i, j \in 3..(n + 1) : r[i] = r[j] => i = j
    BY <1>8, <1>9
  <2>4. cur # n
    BY <1>7
  <2> QED
    BY <1>9, <2>1, <2>2, <2>3, <2>4
<1>12. \A t \in S1 : \E i \in 1..(n + 1) : r[i] = t
  <2> SUFFICES ASSUME NEW t \in S1 PROVE \E i \in 1..(n + 1) : r[i] = t
    OBVIOUS
  <2>1. CASE t = n
    BY <1>9, <2>1
  <2>2. CASE t \in S
    <3>1. PICK i \in 1..n : q[i] = t
      BY <1>8, <2>2
    <3>2. CASE i = 1
      BY <1>8, <1>9, <3>1, <3>2
    <3>3. CASE i # 1
      <4>1. i \in 2..n /\ i + 1 \in 1..(n + 1)
        BY <3>3
      <4> QED
        BY <1>9, <3>1, <4>1
    <3> QED
      BY <3>2, <3>3
  <2> QED
    BY <1>7, <2>1, <2>2
<1>13. \A i \in 1..(n + 1) : i < n + 1 => nxt1[r[i]] = r[i + 1]
  <2> SUFFICES ASSUME NEW i \in 1..(n + 1), i < n + 1 PROVE nxt1[r[i]] = r[i + 1]
    OBVIOUS
  <2>1. CASE i = 1
    BY <1>7, <1>9, <2>1
  <2>2. CASE i = 2
    BY <1>7, <1>8, <1>9, <2>2
  <2>3. CASE i \in 3..n
    <3>1. i - 1 \in 2..n /\ i - 1 < n /\ (i - 1) + 1 = i /\ i \in 2..n
      BY <2>3
    <3>2. r[i] = q[i - 1] /\ r[i + 1] = q[i]
      BY <1>9, <2>3, <3>1
    <3>3. PICK k \in 1..n : k = i - 1 /\ k # 1 /\ k < n /\ k + 1 = i
      BY <3>1
    <3>4. 1 \in 1..n /\ q[k] \in S /\ q[k] # cur
      BY <1>8, <3>3
    <3>5. nxt[q[k]] = q[i]
      BY <1>8, <3>3
    <3> QED
      BY <1>7, <3>2, <3>3, <3>4, <3>5
  <2> QED
    BY <2>1, <2>2, <2>3
<1>14. nxt1[r[n + 1]] = cur
  <2>1. CASE n = 1
    BY <1>7, <1>8, <1>9, <2>1
  <2>2. CASE n # 1
    <3>1. n \in 2..n /\ r[n + 1] = q[n]
      BY <1>9, <2>2
    <3>2. q[n] \in S /\ q[n] # cur
      BY <1>8, <2>2, <3>1
    <3> QED
      BY <1>7, <1>8, <3>1, <3>2
  <2> QED
    BY <2>1, <2>2
<1>15. IsRing(r)'
  <2>1. /\ \A i \in 1..(n + 1) : r[i] \in Created'
        /\ r[n + 1] \in Created'
    BY <1>5, <1>10
  <2>2. /\ \A i \in 1..(n + 1) : i < n + 1 => tcb'[r[i]].next = r[i + 1]
        /\ tcb'[r[n + 1]].next = cur
    BY <1>4, <1>13, <1>14, <2>1
  <2> QED
    BY <1>5, <1>7, <1>9, <1>10, <1>11, <1>12, <2>2 DEF IsRing
<1> QED
  BY <1>1, <1>7, <1>15

(* A switch relinks nothing, and the running task becomes the last of the  *)
(* ring (task.c:57-97).                                                    *)
LEMMA SwitchRing ==
    ASSUME IInv, TaskYield, tcb[current].next # current, NEW q, IsRing(q),
           NEW r, r = Rotated(q)
    PROVE  IsRing(r)' /\ nextId' = nextId /\ nextId > 1
<1>1. PICK n \in Nat \ {0} : n = nextId
  BY DEF IInv, TypeOK
<1>2. PICK new : new = tcb[current].next
  OBVIOUS
<1>3. /\ new \in Created /\ current \in Created /\ new # current
      /\ tcb \in [Created -> TCB]
  BY <1>2 DEF IInv, TcbShape, TypeOK
<1>4. /\ tcb' = [tcb EXCEPT ![current].state = "READY", ![current].esp = esp,
                          ![new].state = "RUNNING"]
      /\ current' = new /\ nextId' = n
  BY <1>1, <1>2 DEF TaskYield, SwitchTask
<1>5. \A s \in Created : tcb'[s].next = tcb[s].next
  BY <1>3, <1>4 DEF TCB
<1>6. Created' = Created
  BY <1>1, <1>4 DEF Created
<1>7. PICK S, nxt : S = Created /\ nxt = [t \in Created |-> tcb[t].next]
  OBVIOUS
<1>8. r = [i \in 1..n |-> IF i < n THEN q[i + 1] ELSE q[1]]
  BY <1>1 DEF Rotated
<1>9. /\ q \in [1..n -> S]
      /\ \A i, j \in 1..n : q[i] = q[j] => i = j
      /\ \A t \in S : \E i \in 1..n : q[i] = t
      /\ \A i \in 1..n : i < n => nxt[q[i]] = q[i + 1]
      /\ nxt[q[n]] = q[1] /\ nxt[q[1]] = new /\ new # q[1]
  BY <1>1, <1>2, <1>3, <1>7 DEF IsRing
<1>10. n > 1 /\ new = q[2]
  BY <1>9
<1>11. /\ r[n] = q[1] /\ r[1] = new
       /\ \A i \in 1..n : i < n => r[i] = q[i + 1] /\ i + 1 \in 2..n
  BY <1>8, <1>10
<1>12. r \in [1..n -> S]
  BY <1>8, <1>9
<1>13. \A i, j \in 1..n : r[i] = r[j] => i = j
  <2>1. \A i \in 1..n : i < n => r[i] # q[1]
    BY <1>9, <1>11
  <2>2. \A i, j \in 1..n : i < n /\ j < n /\ r[i] = r[j] => i = j
    BY <1>9, <1>11
  <2>3. \A i \in 1..n : i < n \/ i = n
    OBVIOUS
  <2> QED
    BY <1>11, <2>1, <2>2, <2>3
<1>14. \A t \in S : \E i \in 1..n : r[i] = t
  <2> SUFFICES ASSUME NEW t \in S PROVE \E i \in 1..n : r[i] = t
    OBVIOUS
  <2>1. PICK i \in 1..n : q[i] = t
    BY <1>9
  <2>2. CASE i = 1
    BY <1>11, <2>1, <2>2
  <2>3. CASE i # 1
    <3>1. i - 1 \in 1..n /\ i - 1 < n /\ (i - 1) + 1 = i
      BY <2>3
    <3> QED
      BY <1>11, <2>1, <3>1
  <2> QED
    BY <2>2, <2>3
<1>15. \A i \in 1..n : i < n => nxt[r[i]] = r[i + 1]
  <2> SUFFICES ASSUME NEW i \in 1..n, i < n PROVE nxt[r[i]] = r[i + 1]
    OBVIOUS
  <2>1. r[i] = q[i + 1] /\ i + 1 \in 1..n
    BY <1>11
  <2>2. CASE i + 1 < n
    BY <1>9, <1>11, <2>1, <2>2
  <2>3. CASE i + 1 = n
    BY <1>9, <1>11, <2>1, <2>3
  <2> QED
    BY <2>1, <2>2, <2>3
<1>16. nxt[r[n]] = new
  BY <1>9, <1>11
<1>17. IsRing(r)'
  <2>1. \A i \in 1..n : r[i] \in Created
    BY <1>7, <1>12
  <2>2. /\ \A i \in 1..n : i < n => tcb'[r[i]].next = r[i + 1]
        /\ tcb'[r[n]].next = new
    BY <1>5, <1>7, <1>15, <1>16, <2>1
  <2> QED
    BY <1>4, <1>6, <1>7, <1>11, <1>12, <1>13, <1>14, <2>2 DEF IsRing
<1> QED
  BY <1>1, <1>4, <1>10, <1>17

QueueIsRing == IsRing(RunList)

LEMMA InitRing == Init => QueueIsRing
<1> SUFFICES ASSUME Init PROVE QueueIsRing
  OBVIOUS
<1>1. /\ nextId = 1 /\ current = 0 /\ tcb[0].next = 0 /\ Created = {0}
  BY DEF Init, Created, Idle
<1>2. PICK q : q = [i \in 1..1 |-> 0]
  OBVIOUS
<1>3. IsRing(q)
  BY <1>1, <1>2 DEF IsRing
<1>4. RunList = q
  BY <1>1, <1>3, RingIsRunList
<1> QED
  BY <1>3, <1>4 DEF QueueIsRing

(* Only a creation and a switch touch the queue.                           *)
LEMMA WhoTouchesTasks ==
    ASSUME [Next]_vars
    PROVE  \/ CreateTask /\ pc \in {"boot", "sys_entry"} /\ pc' \in {"boot", "sys_ret"}
           \/ TaskYield /\ tcb[current].next # current
           \/ UNCHANGED taskVars
<1>1. CASE BootCreate \/ SyscallSpawn
  BY <1>1 DEF BootCreate, SyscallSpawn, CreateFails
<1>2. CASE TaskYield
  BY <1>2 DEF TaskYield, taskVars
<1>3. CASE ~(BootCreate \/ SyscallSpawn \/ TaskYield)
  BY <1>3 DEF Next, Kernel, vars, taskVars, TimerTick, MouseByte, Interrupt, TimerHandler,
     MouseHandler, Iret, IrqReturn, SyscallReturn, ReturnToRing3, BootDone, UserSyscall,
     UserFault, SyscallYield, SyscallOther, IdleCheck, IdleSnapshot, IdleDraw, Halted
<1> QED
  BY <1>1, <1>2, <1>3

(* What each kind of step makes of the queue.                              *)
LEMMA QueueStep ==
    ASSUME IInv, QueueIsRing, [Next]_vars, NEW q, q = RunList
    PROVE  /\ QueueIsRing'
           /\ CreateTask => RunList' = Inserted(q)
           /\ TaskYield /\ tcb[current].next # current => RunList' = Rotated(q) /\ nextId > 1
           /\ UNCHANGED taskVars => RunList' = q
<1>1. IsRing(q)
  BY DEF QueueIsRing
<1>2. ASSUME CreateTask PROVE QueueIsRing' /\ RunList' = Inserted(q)
  <2>1. PICK r : r = Inserted(q)
    OBVIOUS
  <2>2. IsRing(r)' /\ nextId' \in Nat \ {0}
    BY <1>1, <1>2, <2>1, CreateTaskRing
  <2>3. RunList' = r
    BY <2>2, RingIsRunList
  <2> QED
    BY <2>1, <2>2, <2>3 DEF QueueIsRing
<1>3. ASSUME TaskYield, tcb[current].next # current
      PROVE  QueueIsRing' /\ RunList' = Rotated(q) /\ nextId > 1
  <2>1. PICK r : r = Rotated(q)
    OBVIOUS
  <2>2. IsRing(r)' /\ nextId' = nextId /\ nextId > 1
    BY <1>1, <1>3, <2>1, SwitchRing
  <2>3. nextId' \in Nat \ {0}
    BY <2>2 DEF IInv, TypeOK
  <2>4. RunList' = r
    BY <2>2, <2>3, RingIsRunList
  <2> QED
    BY <2>1, <2>2, <2>4 DEF QueueIsRing
<1>4. ASSUME UNCHANGED taskVars PROVE QueueIsRing' /\ RunList' = q
  <2>1. current' = current /\ nextId' = nextId /\ tcb' = tcb
    BY <1>4 DEF taskVars
  <2>2. IsRing(q)'
    BY Zenon, <1>1, <2>1 DEF IsRing, Created
  <2>3. RunList' = q
    BY <2>1, <2>2, RingIsRunList DEF IInv, TypeOK
  <2> QED
    BY <2>2, <2>3 DEF QueueIsRing
<1> QED
  BY <1>2, <1>3, <1>4, WhoTouchesTasks

(* The next pointers always form one ring through every task, whatever     *)
(* creations by several programs interleave with switches.                 *)
THEOREM RunQueueHolds == Spec => []RunQueueIsOneRing
<1>1. IInv /\ QueueIsRing /\ [Next]_vars => QueueIsRing'
  BY QueueStep
<1>2. IInv /\ QueueIsRing => RunQueueIsOneRing
  <2> SUFFICES ASSUME IInv, QueueIsRing PROVE RunQueueIsOneRing
    OBVIOUS
  <2>1. PICK q : q = RunList
    OBVIOUS
  <2>2. IsRing(q) /\ nextId \in Nat
    BY <2>1 DEF QueueIsRing, IInv, TypeOK
  <2>3. {q[i] : i \in 1..nextId} = Created /\ tcb[q[nextId]].next = current
    BY <2>2 DEF IsRing
  <2> QED
    BY Zenon, <2>1, <2>3 DEF RunQueueIsOneRing
<1> QED
  BY <1>1, <1>2, InitRing, SpecIInv, PTL DEF Spec

(* No task ever falls out of the run queue: each is some task's next.      *)
NoTaskDropped == \A t \in Created : \E s \in Created : tcb[s].next = t

(* Every task stays linked in, however creations and switches interleave.  *)
THEOREM NoTaskDroppedHolds == Spec => []NoTaskDropped
<1>1. IInv /\ QueueIsRing => NoTaskDropped
  <2> SUFFICES ASSUME IInv, QueueIsRing, NEW t \in Created
               PROVE  \E s \in Created : tcb[s].next = t
    BY DEF NoTaskDropped
  <2>1. PICK q : q = RunList
    OBVIOUS
  <2>2. IsRing(q) /\ nextId \in Nat \ {0}
    BY <2>1 DEF QueueIsRing, IInv, TypeOK
  <2>3. PICK i \in 1..nextId : q[i] = t
    BY <2>2 DEF IsRing
  <2>4. CASE i = 1
    <3>1. q[nextId] \in Created
      BY <2>2 DEF IsRing
    <3> QED
      BY <2>2, <2>3, <2>4, <3>1 DEF IsRing
  <2>5. CASE i # 1
    <3>1. i - 1 \in 1..nextId /\ i - 1 < nextId /\ (i - 1) + 1 = i
      BY <2>2, <2>5
    <3>2. q[i - 1] \in Created /\ tcb[q[i - 1]].next = t
      BY <2>2, <2>3, <3>1 DEF IsRing
    <3> QED
      BY <3>2
  <2> QED
    BY <2>4, <2>5
<1>2. IInv /\ QueueIsRing /\ [Next]_vars => QueueIsRing'
  BY QueueStep
<1> QED
  BY <1>1, <1>2, InitRing, SpecIInv, PTL DEF Spec

-----------------------------------------------------------------------------
(* The machine implements the round-robin scheduler step by step.          *)

(* An exception halts the machine for good.                                *)
LEMMA HaltIsFinal == [Next]_vars /\ pc = "halted" => pc' = "halted"
  BY DEF Next, Kernel, vars, TimerTick, MouseByte, Interrupt, TimerHandler,
     MouseHandler, Iret, IrqReturn, SyscallReturn, ReturnToRing3, BootDone, BootCreate,
     UserSyscall, UserFault, SyscallYield, SyscallSpawn, SyscallOther, TaskYield,
     IdleCheck, IdleSnapshot, IdleDraw, Halted, IdlePcs

(* A switch goes on where the incoming task was interrupted, so it does    *)
(* not stop the machine.                                                   *)
LEMMA SwitchRuns ==
    ASSUME IInv, TaskYield, tcb[current].next # current
    PROVE  pc # "halted" /\ pc' # "halted"
<1>1. PICK new : new = tcb[current].next
  OBVIOUS
<1>2. new \in Created /\ new # current
  BY <1>1 DEF IInv, TcbShape, TypeOK
<1>3. pc \in {"irq_yield", "sys_yield", "idle_yield"} /\ pc' = frames[tcb[new].esp].ret
  BY <1>1 DEF TaskYield, SwitchTask, switch_to
<1>4. tcb[new].esp \in Stacks
  BY <1>2, HomesApart DEF IInv, SuspendedResumable, Resumable
<1>5. frames[tcb[new].esp] \in Frame
  BY <1>4 DEF IInv, TypeOK
<1> QED
  BY <1>3, <1>5 DEF Frame, RetPcs

LEMMA StepRefines ==
    ASSUME IInv, QueueIsRing, [Next]_vars PROVE [Abstract!Next]_(Abstract!vars)
<1>1. PICK q : q = RunList
  OBVIOUS
<1>2. PICK n \in Nat \ {0} : n = nextId
  BY DEF IInv, TypeOK
<1>3. q \in [1..n -> Created] /\ q \in Seq(Created) /\ Len(q) = n
  BY <1>1, <1>2 DEF QueueIsRing, IsRing
<1>4. CASE CreateTask /\ pc \in {"boot", "sys_entry"} /\ pc' \in {"boot", "sys_ret"}
  <2>1. RunList' = Inserted(q)
    BY <1>1, <1>4, QueueStep
  <2>2. Inserted(q) = <<Head(q), Len(q)>> \o Tail(q)
    <3>1. Inserted(q) = [i \in 1..(n + 1) |-> IF i = 1 THEN q[1]
                                              ELSE IF i = 2 THEN n ELSE q[i - 1]]
      BY <1>2 DEF Inserted
    <3>2. /\ Head(q) = q[1] /\ q # <<>> /\ Tail(q) \in Seq(Created) /\ Len(Tail(q)) = n - 1
          /\ \A i \in 1..(n - 1) : Tail(q)[i] = q[i + 1]
      BY <1>3
    <3> QED
      BY <1>3, <3>1, <3>2
  <2>3. pc # "halted" /\ pc' # "halted"
    BY <1>4
  <2> QED
    BY <1>1, <2>1, <2>2, <2>3 DEF Abstract!Next, Abstract!Spawn
<1>5. CASE TaskYield /\ tcb[current].next # current
  <2>1. RunList' = Rotated(q) /\ n > 1
    BY <1>1, <1>2, <1>5, QueueStep
  <2>2. Rotated(q) = Append(Tail(q), Head(q))
    <3>1. Rotated(q) = [i \in 1..n |-> IF i < n THEN q[i + 1] ELSE q[1]]
      BY <1>2 DEF Rotated
    <3>2. /\ Head(q) = q[1] /\ q # <<>> /\ Tail(q) \in Seq(Created) /\ Len(Tail(q)) = n - 1
          /\ \A i \in 1..(n - 1) : Tail(q)[i] = q[i + 1]
      BY <1>3
    <3> QED
      BY <1>3, <3>1, <3>2
  <2>3. pc # "halted" /\ pc' # "halted"
    BY <1>5, SwitchRuns
  <2> QED
    BY <1>1, <1>3, <2>1, <2>2, <2>3 DEF Abstract!Next, Abstract!Rotate
<1>6. CASE UNCHANGED taskVars
  <2>1. RunList' = RunList
    BY <1>1, <1>6, QueueStep
  <2>2. pc = "halted" => pc' = "halted"
    BY HaltIsFinal
  <2> QED
    BY <2>1, <2>2 DEF Abstract!Next, Abstract!Stop, Abstract!vars
<1> QED
  BY <1>4, <1>5, <1>6, WhoTouchesTasks

LEMMA InitRefines == Init => Abstract!Init
<1> SUFFICES ASSUME Init PROVE Abstract!Init
  OBVIOUS
<1>1. QueueIsRing
  BY InitRing
<1>2. nextId = 1 /\ current = 0 /\ pc # "halted"
  BY DEF Init, Idle
<1>3. RunList = <<0>>
  BY <1>1, <1>2 DEF QueueIsRing, IsRing
<1> QED
  BY <1>2, <1>3 DEF Abstract!Init

(* Every behaviour of the machine, seen through its next pointers, is one  *)
(* of the abstract round-robin queue: a switch sends the head to the back, *)
(* a creation inserts behind the head, and nothing else reorders or drops  *)
(* a task.  (That the abstract queue keeps rotating is liveness.)          *)
THEOREM RoundRobinSafety == Spec => Abstract!Init /\ [][Abstract!Next]_(Abstract!vars)
<1>1. IInv /\ QueueIsRing /\ [Next]_vars => QueueIsRing'
  BY QueueStep
<1>2. IInv /\ QueueIsRing /\ [Next]_vars => [Abstract!Next]_(Abstract!vars)
  BY StepRefines
<1> QED
  BY <1>1, <1>2, InitRing, InitRefines, SpecIInv, PTL DEF Spec
===============================================================================
