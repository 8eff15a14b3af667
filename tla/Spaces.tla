-------------------------------- MODULE Spaces --------------------------------
(***************************************************************************)
(* Launching programs: run_exec and exec_elf_from_path of kernel/main.c,   *)
(* the loading of fs/elf.c, task_create_user_with_pages of sched/task.c    *)
(* and the page tables of paging.c, on top of the page allocator.          *)
(*                                                                         *)
(* All memory is mapped one to one, so a page is its own address.  A page  *)
(* table is kept as the set of pages it opens to ring 3, a directory as    *)
(* the table behind each entry and the entry's U/S bit.  Launches run with *)
(* interrupts off and are one action each.                                 *)
(***************************************************************************)
EXTENDS PmmOps

CONSTANTS
    MemTop,         \* top of usable memory
    PtSpan,         \* pages one page table covers (PT_COVERAGE)
    HeapInitPages,  \* HEAP_INIT_PAGES
    ExpandPages,    \* EXPAND_PAGES
    HeapSlots,      \* TCBs that fit in ExpandPages of heap
    ElfBufPages,    \* ELF_BUF_PAGES
    MaxElfPages,    \* bound on the pages of a program
    ProgramCount,   \* entries of g_run_registry
    MaxFbTables     \* bound on the page tables of the framebuffer

(* Memory is managed from a page boundary on; the heap grows by pages with *)
(* room for something; a string the kernel copies is shorter than memory.  *)
ASSUME SpacesAssumption ==
    /\ ManagedBase % PageSize = 0
    /\ PageSize + 1 < AddrSpace
    /\ MemTop \in Nat /\ MemTop >= ManagedBase
    /\ {PtSpan, HeapInitPages, ExpandPages, HeapSlots} \subseteq Nat \ {0}
    /\ {ElfBufPages, MaxElfPages, ProgramCount, MaxFbTables} \subseteq Nat

VARIABLES
    mem,            \* memory as the allocators and page tables see it
    tasks,          \* the user tasks, in order of creation
    code,           \* g_run_registry: the code page of each program
    booted,         \* kmain has reached its idle loop
    halted          \* a write through a NULL page: fault in ring 0

vars == <<mem, tasks, code, booted, halted>>

PdIndex(p) == (ManagedBase \div PageSize + p) \div PtSpan
TableCount == (MemTop + PtSpan * PageSize - 1) \div (PtSpan * PageSize)
PdIndices  == 0..(TableCount - 1)
Programs   == 0..(ProgramCount - 1)

-----------------------------------------------------------------------------
(* A failed step of a sequence of allocations.                             *)
Dead(m)    == m.fault
Fault(m)   == [m EXCEPT !.fault = TRUE]

With(f, x, v) == [y \in DOMAIN f \cup {x} |-> IF y = x THEN v ELSE f[y]]

\* The answers to so many requests for a kernel page, one after the other.
KernelPages(p, count) ==
    LET answer[n \in 0..count] == IF n = 0 THEN [pmm |-> p, ret |-> NoPage]
                                 ELSE pmm_alloc_page(answer[n - 1].pmm)
    IN  answer

(* paging_init: a directory and one table per entry, all supervisor.       *)
paging_init(p) ==
    LET page     == KernelPages(p, TableCount + 1)
        table(i) == page[i + 2].ret
    IN  [pmm |-> page[TableCount + 1].pmm, kernelPD |-> page[1].ret,
         pd |-> [d \in {page[1].ret} |->
                    [i \in PdIndices |-> [pt |-> table(i), user |-> FALSE]]],
         ptUser |-> [t \in {table(i) : i \in PdIndices} |-> {}],
         room |-> 0, fault |-> FALSE]

(* paging_map_phys_range for the framebuffer, far above memory: the tables *)
(* it takes are its only effect on what is modelled here.                  *)
paging_map_phys_range(p, tables) == KernelPages(p, tables)[tables].pmm

(* kmain up to task_init: paging, heap, framebuffer and the code pages of  *)
(* the registered programs.                                                *)
AtBoot(tables) ==
    LET whole == <<[base |-> ManagedBase, length |-> MemTop - ManagedBase]>>
        paged == paging_init(pmm_alloc_page(pmm_init(whole, MemTop)).pmm)
        heap  == pmm_alloc_contiguous_pages(paged.pmm, HeapInitPages).pmm
        fb    == paging_map_phys_range(heap, tables)
        res   == pmm_alloc_contiguous_user_pages(fb, ProgramCount)
    IN  [mem  |-> [paged EXCEPT !.pmm = res.pmm, !.room = HeapSlots],
         code |-> res.ret]

(* The machine has the memory its boot takes: kmain goes on whatever it    *)
(* was given.                                                              *)
ASSUME BootAssumption ==
    \A tables \in 0..MaxFbTables :
        LET m == AtBoot(tables).mem
        IN  /\ m.kernelPD # NoPage
            /\ \A i \in PdIndices : m.pd[m.kernelPD][i].pt # NoPage
            /\ AtBoot(tables).code # NoPage

Init ==
    \E tables \in 0..MaxFbTables :
        /\ mem = AtBoot(tables).mem
        /\ code = [i \in Programs |-> AtBoot(tables).code + i]
        /\ tasks = <<>> /\ booted = FALSE /\ halted = FALSE

-----------------------------------------------------------------------------
\* Variant: a full heap is not extended.
kmalloc_NoExpand(m) ==
    IF m.room > 0 THEN [mem |-> [m EXCEPT !.room = @ - 1], ok |-> TRUE]
    ELSE [mem |-> m, ok |-> FALSE]

(* kmalloc of a TCB or a page list, with heap_expand when the heap is full *)
(* (only sizes far below a page: what fits is counted in slots).           *)
kmalloc(m) ==
    LET grown == pmm_alloc_contiguous_pages(m.pmm, ExpandPages)
    IN  IF m.room > 0 THEN [mem |-> [m EXCEPT !.room = @ - 1], ok |-> TRUE]
        ELSE IF grown.ret = NoPage THEN [mem |-> m, ok |-> FALSE]
        ELSE [mem |-> [m EXCEPT !.pmm = grown.pmm, !.room = HeapSlots - 1], ok |-> TRUE]

kfree(m) == [m EXCEPT !.room = @ + 1]

\* Variant: the copy keeps the kernel's own page tables.
paging_set_user_accessible_for_task_Shared(pd, p, m) ==
    LET i == PdIndex(p)
    IN  IF Dead(m) THEN m
        ELSE [m EXCEPT !.ptUser[m.pd[pd][i].pt] = @ \cup {p}, !.pd[pd][i].user = TRUE]

\* Variant: the whole table is opened.
paging_set_user_accessible_for_task_WholeTable(pd, p, m) ==
    LET i == PdIndex(p)
        t == pmm_alloc_page(m.pmm)
    IN  IF Dead(m) THEN m
        ELSE IF m.pd[pd][i].pt = m.pd[m.kernelPD][i].pt
          THEN IF t.ret = NoPage THEN Fault(m)
               ELSE [m EXCEPT !.pmm = t.pmm,
                              !.ptUser = With(@, t.ret, {q \in 0..(m.pmm.total_pages - 1) :
                                                           PdIndex(q) = i}),
                              !.pd[pd][i] = [pt |-> t.ret, user |-> TRUE]]
          ELSE m

(* paging_set_user_accessible_for_task: the first page under an entry      *)
(* makes its table private.  The new table is written through whatever     *)
(* address pmm_alloc_page returned.                                        *)
paging_set_user_accessible_for_task(pd, p, m) ==
    LET i      == PdIndex(p)
        kernel == m.pd[m.kernelPD][i].pt
        t      == pmm_alloc_page(m.pmm)
        cloned == [m EXCEPT !.pmm = t.pmm,
                            !.ptUser = With(@, t.ret, m.ptUser[kernel]),
                            !.pd[pd][i] = [pt |-> t.ret, user |-> FALSE]]
        Open(n) == [n EXCEPT !.ptUser[n.pd[pd][i].pt] = @ \cup {p},
                             !.pd[pd][i].user = TRUE]
    IN  IF Dead(m) THEN m
        ELSE IF m.pd[pd][i].pt # kernel THEN Open(m)
        ELSE IF t.ret = NoPage THEN Fault(m)
        ELSE Open(cloned)

(* paging_clone_kernel_pd: every entry still points to the kernel's table. *)
paging_clone_kernel_pd(m) ==
    LET d == pmm_alloc_page(m.pmm)
    IN  [pd  |-> d.ret,
         mem |-> IF d.ret = NoPage THEN m
                 ELSE [m EXCEPT !.pmm = d.pmm, !.pd = With(@, d.ret, m.pd[m.kernelPD])]]

(* The loop that marks the pages of a task, one after the other.           *)
MarkPages(pd, pages, m) ==
    LET marked[n \in 0..Len(pages)] ==
            IF n = 0 THEN m
            ELSE paging_set_user_accessible_for_task(pd, pages[n], marked[n - 1])
    IN  marked[Len(pages)]

(* task_create_user_with_pages.  An early return keeps what was taken; the *)
(* TCB is written without a look at what kmalloc returned.                 *)
task_create_user_with_pages(m, user_pages, user_esp) ==
    LET kstack == pmm_alloc_contiguous_pages(m.pmm, 2)
        clone  == paging_clone_kernel_pd([m EXCEPT !.pmm = kstack.pmm])
        stack  == IF user_esp THEN [pmm |-> clone.mem.pmm, ret |-> NoPage]
                  ELSE pmm_alloc_user_page(clone.mem.pmm)
        pages  == IF user_esp THEN user_pages ELSE Append(user_pages, stack.ret)
        marked == MarkPages(clone.pd, pages, [clone.mem EXCEPT !.pmm = stack.pmm])
        tcb    == kmalloc(marked)
        Null(n) == [mem |-> n, task |-> <<>>]
    IN  IF kstack.ret = NoPage THEN Null(m)
        ELSE IF clone.pd = NoPage THEN Null(clone.mem)
        ELSE IF ~user_esp /\ stack.ret = NoPage THEN Null(clone.mem)
        ELSE IF Dead(marked) THEN Null(marked)
        ELSE IF ~tcb.ok THEN Null(Fault(marked))
        ELSE [mem  |-> tcb.mem,
              task |-> <<[pd |-> clone.pd, kstack |-> kstack.ret, pages |-> ToSet(pages)]>>]

(* elf_load of a program of n pages: the run, then the list of its pages.  *)
elf_load(m, n) ==
    LET run  == pmm_alloc_contiguous_user_pages(m.pmm, n)
        list == kmalloc([m EXCEPT !.pmm = run.pmm])
    IN  IF run.ret = NoPage THEN [mem |-> m, pages |-> <<>>]
        ELSE IF ~list.ok THEN [mem |-> Fault(list.mem), pages |-> <<>>]
        ELSE [mem |-> list.mem, pages |-> [i \in 1..n |-> run.ret + i - 1]]

-----------------------------------------------------------------------------
(* The outcome of a launch becomes the state of the machine.               *)
Launched(res) ==
    /\ mem' = res.mem
    /\ tasks' = tasks \o res.task
    /\ halted' = Dead(res.mem)
    /\ UNCHANGED code

(* kmain's own programs: a user page, taken unchecked and written to, and  *)
(* a task on it.                                                           *)
BootTask ==
    /\ ~booted /\ ~halted
    /\ LET page == pmm_alloc_user_page(mem.pmm)
       IN  Launched(IF page.ret = NoPage THEN [mem |-> Fault(mem), task |-> <<>>]
                    ELSE task_create_user_with_pages([mem EXCEPT !.pmm = page.pmm],
                                                     <<page.ret>>, FALSE))
    /\ UNCHANGED booted

Boot == ~booted /\ ~halted /\ booted' = TRUE /\ UNCHANGED <<mem, tasks, code, halted>>

(* SYSCALL_RUN of a registered program: its one code page is mapped into   *)
(* every task that runs it.                                                *)
run_exec ==
    /\ booted /\ ~halted
    /\ \E name \in Programs :
           Launched(task_create_user_with_pages(mem, <<code[name]>>, FALSE))
    /\ UNCHANGED booted

(* SYSCALL_EXEC, once the file is open; what opening it takes of the heap  *)
(* is left out.  The buffer the file is read into is never given back; an  *)
(* unreadable or invalid file ends after it was taken.                     *)
exec_elf_from_path ==
    /\ booted /\ ~halted
    /\ \E n \in 0..MaxElfPages, valid \in BOOLEAN :
         LET buf    == pmm_alloc_contiguous_pages(mem.pmm, ElfBufPages)
             loaded == elf_load([mem EXCEPT !.pmm = buf.pmm], n)
             stack  == pmm_alloc_user_page(loaded.mem.pmm)
             made   == task_create_user_with_pages([loaded.mem EXCEPT !.pmm = stack.pmm],
                                                   <<stack.ret>> \o loaded.pages, TRUE)
             Fails(m) == Launched([mem |-> m, task |-> <<>>])
         IN  IF buf.ret = NoPage THEN Fails(mem)
             ELSE IF ~valid THEN Fails([mem EXCEPT !.pmm = buf.pmm])
             ELSE IF loaded.pages = <<>> THEN Fails(loaded.mem)
             ELSE IF stack.ret = NoPage THEN Fails(loaded.mem)
             ELSE IF Dead(made.mem) THEN Fails(made.mem)
             ELSE Launched([mem |-> kfree(made.mem), task |-> made.task])
    /\ UNCHANGED booted

Next == BootTask \/ Boot \/ run_exec \/ exec_elf_from_path

Spec == Init /\ [][Next]_vars

-----------------------------------------------------------------------------
(* page_is_user_accessible, and what the MMU grants ring 3: both levels of *)
(* the walk have U/S set.                                                  *)
page_is_user_accessible(pd, p) ==
    /\ p >= 0 /\ PdIndex(p) \in PdIndices
    /\ mem.pd[pd][PdIndex(p)].user
    /\ p \in mem.ptUser[mem.pd[pd][PdIndex(p)].pt]

AllPages == 0..(mem.pmm.total_pages - 1)
Reach(t) == {p \in AllPages : page_is_user_accessible(tasks[t].pd, p)}
Live     == 1..Len(tasks)

\* Variant: no test for a range that wraps.
is_user_accessible_range_NoWrapTest(pd, start, size) ==
    LET end   == (start + size) % AddrSpace
        first == start - (start % PageSize)
    IN  \/ size = 0
        \/ \A page \in first..(end - 1) :
               (page - first) % PageSize = 0 => page_is_user_accessible(pd, PageOf(page))

(* is_user_accessible_range: the pages from the first byte's to the end.   *)
is_user_accessible_range(pd, start, size) ==
    LET end   == (start + size) % AddrSpace
        first == start - (start % PageSize)
    IN  \/ size = 0
        \/ /\ end >= start
           /\ \A page \in first..(end - 1) :
                  (page - first) % PageSize = 0 => page_is_user_accessible(pd, PageOf(page))

(* copy_from_user_string of a string whose NUL is its nul-th byte: a page  *)
(* is looked up at the first byte and whenever the page changes.           *)
copy_from_user_string(pd, user_ptr, nul, max_len) ==
    LET page(i) == ((user_ptr + i) % AddrSpace) \div PageSize
    IN  /\ nul < max_len
        /\ \A i \in 0..nul : i = 0 \/ page(i) # page(i - 1) =>
               page_is_user_accessible(pd, PageOf(page(i) * PageSize))

-----------------------------------------------------------------------------
(* Ring 3 reaches exactly the pages its task was created with: cloning on  *)
(* demand neither drops a page marked earlier under the same directory     *)
(* entry nor shows one of another task.                                    *)
ReachesItsOwnPages == \A t \in Live : Reach(t) = tasks[t].pages

(* Two tasks share no page but the code page of a program both run.        *)
SharesOnlyPrograms ==
    \A s, t \in Live : s # t =>
        Reach(s) \cap Reach(t) \subseteq {code[p] : p \in Programs}

(* Nothing the kernel keeps for itself can be reached from ring 3: its own *)
(* directory and tables stay supervisor, and no task's page lies in the    *)
(* kernel region, where directories, tables, stacks and the heap are.      *)
KernelOutOfReach ==
    /\ \A i \in PdIndices :
           /\ ~mem.pd[mem.kernelPD][i].user
           /\ mem.ptUser[mem.pd[mem.kernelPD][i].pt] = {}
    /\ \A t \in Live : \A p \in Reach(t) : p >= KernelEnd

(* A task's kernel stack, directory and private tables are pages of their  *)
(* own and no other task's, whatever failed between the creations.         *)
Private(t) ==
    {i \in PdIndices : mem.pd[tasks[t].pd][i].pt # mem.pd[mem.kernelPD][i].pt}
TaskPages(t) ==
    {tasks[t].pd} \cup Pages(tasks[t].kstack, 2)
        \cup {mem.pd[tasks[t].pd][i].pt : i \in Private(t)}
OwnTables ==
    /\ \A t \in Live : Cardinality(TaskPages(t)) = 3 + Cardinality(Private(t))
    /\ \A s, t \in Live : s # t => TaskPages(s) \cap TaskPages(t) = {}

(* Once booted, running out of user pages is reported to the caller: the   *)
(* machine only dies of a kernel region with no room left for the heap.    *)
UserShortageReported ==
    halted /\ booted => pmm_alloc_contiguous_pages(mem.pmm, ExpandPages).ret = NoPage

(* The copy routines accept nothing but ranges and strings whose every     *)
(* byte the program itself may touch, across page boundaries and at the    *)
(* top of the address space too.                                           *)
CopiesStayInReach ==
    \A t \in Live, start \in 0..(AddrSpace - 1), size \in 1..(PageSize + 1) :
        LET Touchable == \A b \in start..(start + size - 1) :
                page_is_user_accessible(tasks[t].pd, PageOf(b % AddrSpace))
        IN  /\ is_user_accessible_range(tasks[t].pd, start, size) => Touchable
            /\ copy_from_user_string(tasks[t].pd, start, size - 1, 2 * PageSize) => Touchable

(* README.md:51 promises real memory isolation between processes.          *)
PrivateMemory == \A s, t \in Live : s # t => Reach(s) \cap Reach(t) = {}
=============================================================================
