# Kumo OS in TLA+

Kumo OS is a 32-bit x86 hobby kernel: one CPU, ring-3 programs scheduled round
robin by the timer, one page directory per task, a RAM file system, and a
window system driven from the mouse interrupt. These modules model its core,
check it on small instances with TLC, and prove with TLAPS, for every value of
the constants, the safety of the scheduler, of the page allocator, of the
address spaces, of the window system, of the mouse's packets and of the
calculator, that the scheduler's steps are those of an abstract round-robin
queue, that the kernel heap implements an abstract allocator, and that the file
system calls implement an abstract store of files.

Run from this directory:

    tlc -workers 2 -config Sched.cfg MCSched           # any row of the table of runs
    tlapm SchedProofs.tla                               # or any other *Proofs module

## 1. Inventory

How the parts hang together: programs in ring 3 enter the kernel through
`int 0x80` or are interrupted by the timer (IRQ 0) and the mouse (IRQ 12). The
kernel runs with interrupts off, except in a few instructions of its idle loop.
So control changes hands at few points, but at those points everything must
be in order: the stack the TSS names, the page directory in CR3, the two
interrupt controllers, the run queue, and the data the idle loop shares with
the mouse handler.

| component | state | operations | hard behaviours | what makes it correct |
|---|---|---|---|---|
| scheduler and context switch (`sched/`, `tss.c`) | ring of TCBs, `g_current`, kernel stacks, CR3, `TSS.esp0` | create a task, yield, switch | preemption at any instruction of ring 3; creations from inside system calls of any task | the queue stays one ring; a suspended context is resumable and nobody writes over it; a task runs on its own stack and directory |
| interrupts, system calls, exceptions (`irq.asm`, `syscall.asm`, `pic.c`, ...) | IF, segment registers, IRR/ISR of both PICs | entry, EOI, handler, iret, halt | order of EOI and switch; what a stub saves and what it leaves | the timer can always preempt a program; the mouse is always served again |
| idle loop and damage flush (`main.c`, `wm.c`) | `g_dirty` | check, snapshot, draw, yield | shares `g_dirty` with the mouse handler; needs its turn among programs that never yield | damage marked is eventually drawn |
| physical page allocator (`mm/pmm.c`) | bitmap, free count | four allocators over two regions; nothing is ever freed | memory maps with holes, or up to 4 GB and beyond; limits of the two regions | no page twice, none that does not exist; kernel and user pages on their sides; the count is right |
| kernel heap (`mm/kheap.c`) | blocks with headers, free list | kmalloc, kfree, expand, coalesce | blocks that cross pages; long sequences of splits and joins | blocks tile the heap; the list holds exactly the free ones |
| address spaces (`paging.c`) | directories, page tables, U/S bits | clone a directory, make a table private, open a page, check user pointers | directories start out sharing the kernel's tables | ring 3 reaches its own pages and nothing of the kernel's; copies stay within them |
| program launch (`main.c`, `elf.c`) | program registry, tasks | run, exec, boot-time tasks | each of up to eight allocations may fail after the others succeeded | what failed leaves no damage; shortage is reported |
| file system (`fs/`) | directory list, file contents, open files per task | open, read, write, close, list | several open files on one file; allocation failing half-way; files created while a program lists the directory | a store of files under names; offsets stay within files; one file per name; listings are complete |
| window manager (`wm/`) | window stack, positions, framebuffer, damage rectangle | click, raise, close, drag, draw, flush | flush in two halves with packets between; clipping at the screen's edges | no ghosts of moved windows; occlusion; drag of the top window only |
| mouse and input routing (`mouse.c`, `main.c`) | bytes of a packet, cursor and the pixels under it, buttons, drag | byte, packet, click, move | cursor and window clamped to different limits; lost and stray bytes; painting under the cursor | the packet boundary is found again; the cursor leaves no mark and keeps its grip on the dragged window |
| buttons and calculator (`button.c`, `calc.c`) | pressed button, display, accumulator | press, release, compute | press and drag interleaved; numbers that wrap | the display shows what the keys mean; no key sequence stops the machine but one |
| drawing primitives (`gfx/`) | none of their own | fill, lines, text | which edge pixels are reached | part of the window manager's properties |
| boot, descriptor tables | written once | - | - | not modelled |
| serial driver | none | polled I/O | - | not modelled |
| user programs | - | - | - | replaced by "any call at any time", but for the shell's `ls` |

`PROJECT.json` lists 40 hazards at the lines where they bite, each with the
properties that would notice it going wrong or the reason why none does.

## 2. Modules

| module | models | extends or composes |
|---|---|---|
| `RoundRobin` | what the scheduler promises: a queue whose head runs | - |
| `Sched` | scheduler, interrupt and system call paths, PICs, idle loop | implements `RoundRobin` |
| `SchedProofs` | theorems about `Sched` | `Sched` |
| `PmmOps` | `pmm.c` as functions of its static state | - |
| `PmmOpsProofs` | what the four scans of `PmmOps` return, and induction over loops | `PmmOps` |
| `Pmm` | any sequence of page allocator calls | `PmmOps` |
| `PmmProofs` | theorems about `Pmm` | `Pmm`, `PmmOpsProofs` |
| `Spaces` | launches, page tables, user pointer checks | `PmmOps` |
| `SpacesProofs` | theorems about `Spaces` | `Spaces`, `PmmOpsProofs` |
| `Allocator` | what the heap promises: chunks no two callers share | - |
| `KHeap` | kernel heap | `PmmOps`; implements `Allocator` |
| `KHeapProofs` | theorems about `KHeap` | `KHeap`, `PmmOpsProofs` |
| `Wm` | windows, mouse packets, cursor, framebuffer, damage | - |
| `WmProofs` | theorems about `Wm` | `Wm` |
| `Mouse` | packets from the bytes of the PS/2 port | - |
| `Calc` | the calculator behind its buttons | - |
| `InputProofs` | theorems about `Mouse` and `Calc` | `Mouse`, `Calc` |
| `FileStore` | what the file system promises: names, contents, positions | - |
| `Vfs` | file system calls and the shell's listing | implements `FileStore` |
| `VfsProofs` | theorems about `Vfs` | `Vfs` |
| `MC*` | the instances TLC checks | the module they are named after |

A definition named `X_Y` preceded by "Variant:" is a faulty form of `X`, kept to
show that a property notices the fault.

### Sched

The atomic step is a path through the kernel between two points where control
can change hands: an entry, `irq_handler`, `task_yield`, an exit, each window of
the idle loop. `pc` names the point. A kernel stack holds at most an interrupt
frame and a context of `switch_to`, so it is a record of the two return points;
stacks and page directories are named by their task. The PICs are external:
requests wait in `irr`, interrupts in service in `isr`, the slave behind the
master's cascade line. `irr` is a set because a PIC latches one request per line.
A device does not raise a request in the middle of a pass through
`irq_handler`: ticks are 55 ms apart and mouse bytes about 1 ms, and a request
raised then would be taken after the `iret` anyway. `DS` follows the segment
registers: the interrupt stub saves none, the system call path loads 0x10 and
0x23, and `iret` to ring 3 turns a ring-0 selector into a null one. Any
exception halts the machine, as `isr_handler` does. The idle task has no page
directory of its own and stays on that of the task before it, where `task.h:25`
speaks of the kernel's; every directory maps the kernel alike, so no property
depends on it. `task_create` and `task_create_user` are called by nothing and left out.

### PmmOps, Pmm

A page is its bit index. `pmm_init` visits addresses region by region as the
code does, counting every visit. The four scans are one operator with two
limits. `Pmm` starts from any of a set of memory maps as the boot loader reports
them, with 64-bit numbers. `StoredRegions` does what `multiboot.c` does to them:
it skips regions that begin above 4 GB, cuts those that pass it, keeps sixteen
(`MaxRegions`), and leaves 32 bits of each number, so that a region up to 4 GB
ends at 0 and is lost. `Pmm` then makes any sequence of calls and remembers what
callers hold.

### Spaces

Memory is mapped one to one, so a page is its own address; a page table is the
set of pages it opens to ring 3, a directory maps an entry to a table and its U/S
bit. A launch runs with interrupts off and is one action made of a chain of
allocations, each of which may fail; a write through the NULL an allocator
returned is a fault in ring 0, for page 0 is unmapped. The heap counts slots of
one size here; its insides are in `KHeap`. Of ELF only "valid, n pages" or
"not valid" is kept. The wrap of user buffers at 2^32 is modelled at `AddrSpace`.
`AtBoot` is memory as `kmain` leaves it before it creates its first task, for each
number of tables the framebuffer may take.

### KHeap

Sizes count units of `ALIGN`; headers live in a function from addresses, and the
pages come from `PmmOps`, with another kernel caller taking pages in between.
`kmalloc` expands and retries as the recursion in the code does: `Grown` is the
heap after as many expansions as `MaxHeapPages` can allow, each made only while
nothing fits and the last one succeeded. `held` keeps, for each block a caller
holds, the size asked for. `kmalloc` adds the header to the size in 32 bits:
`Needed` wraps at `AddrSpace`. What the
backward walk does once it reads data as headers depends on that data and is not
followed: the model stops there with `wild` set, and the other properties speak
of the heap up to that point.

`Allocator` knows the memory handed out as chunks, each with the size asked
for: a new one lies apart from all others and is large enough, and only its release takes one
away. `KHeap` implements it, a chunk being the block from its header to its end
(`Chunks`). Large enough is promised up to `MaxRequest`, 2^32 less the header in
the code's numbers: from there on the sum wraps, and the caller gets the least
block. No caller inside the kernel asks for that much, but READ and WRITE pass on
the size a program gives them (`syscall_dispatch.c:38`, 54). One unit more in
`MaxRequest` and the refinement fails.

### Wm

One packet is one action: buttons that changed are a click at the old cursor
position, then the movement. A pixel holds the window painted on it last, the
desktop or the cursor. The painters say which pixels each primitive reaches,
including the pixel row and column at `x + w` and `y + h`, the lines given up off
the screen and the last row and column the desktop fill spares. `cursor_draw`
keeps the pixels it covers in `backup` and `cursor_restore` puts them back, in the
places the code calls them; `plain` is the framebuffer as it would be if there had
never been a cursor. A flush is two actions, and packets may come between. Colours
and text are left out.

### Mouse

A byte is its place in the packet the mouse meant, and bit 3, by which the handler
recognises a first byte. The mouse, the keyboard, the wire that loses bytes and
the latched request of IRQ 12 are external. The model starts behind `mouse_init`,
with an answer of the handshake possibly still in the buffer or a request
possibly latched, passes through `mouse_drain_buf` and then enables interrupts. The
keyboard's interrupt is masked but its bytes share the buffer: one that no mouse
request follows stays there and keeps the mouse silent, which the model shows as
a deadlock and no property forbids. `Wm` takes packets with any content, so the
packets a shifted boundary produces are among its inputs.

### Calc

The six functions behind the sixteen buttons, on integers of `Width` bits that
wrap, as the compiler's unoptimised code makes them. `Reading` and `Expected`
are the reference: what a sequence of keys means, read from left to right, for
each of its beginnings. It goes back from a place to the last operator or "="
before it and knows none of the registers. Three
effects of the code are part of both: an operator without an operand in front of
it, or behind it, works with 0; the least integer is drawn as a bare minus sign,
for `itoa` cannot negate it; and dividing it by -1 raises the processor's divide
error inside the mouse interrupt, which halts the machine. In 32 bits the keys
2147483648 / 4294967295 = do so.

### FileStore, Vfs

A path is the list of pieces `path_next` cuts it into, and whether `vfs_open`
would create it. A name over 63 characters counts as two pieces, which is why it
is never found again; what it is cut to is assumed to be no other path's name.
Every allocation may fail. A lookup that fails for lack of memory is taken for
"not found" by `vfs_open`; creating then needs a larger block (88 bytes against
80) and fails too, so such an open changes nothing. A read moves the offset even
when the copy to the program is refused. `listing` is the loop of the shell's `ls`,
one READDIR for each index, with other tasks' calls between; a file created
meanwhile shifts the indices, so that a listing may show a file twice, but it
misses none that was there at its start.

`FileStore` knows names, contents and handles with a position; a name gets a file
once, a write overwrites bytes from the position on. `Vfs` implements it with the
lookup as directory (`DirOf`) and the data of created files as content
(`ContentOf`).

## 3. Runs

| run | instance | checks | shows |
|---|---|---|---|
| sched | 3 tasks, 61 k states | `RunQueueIsOneRing OnOwnStack SuspendedResumable AddressSpaceOfCurrent Preemptible`, step property `SuspendedContextUntouched`, liveness `EveryTaskRuns DirtyFlushed MouseServiced`, refinement `ImplementsRoundRobin` | preemption and creation keep queue, stacks, contexts and address spaces consistent; nobody starves; the kernel implements the abstract scheduler |
| sched_segments | 2 tasks | `SyscallEntrySegments`, violated | finding 1 |
| pmm | nine memory maps, requests up to 3 pages, 1.1 k states | `BlocksDisjoint BlocksInRegion PagesReported FreeCountExact RefusedOnlyWithoutRun` | every sequence of calls until both regions are full |
| spaces | 40 pages, 4 per table, 8.7 k states | `ReachesItsOwnPages SharesOnlyPrograms KernelOutOfReach OwnTables UserShortageReported CopiesStayInReach` | launches until memory is gone, failing at every possible step |
| spaces_private | the same | `PrivateMemory`, violated | finding 2 |
| kheap | 2 pages growing to 4, five sizes, 4 blocks held, 425 k states | `BlocksTile FreeListExact PointersFit`, refinement `ImplementsAllocator` | the heap's structure survives every sequence of calls, and callers get what they asked for |
| kheap_walk | the same | `WalksFollowHeaders`, violated | finding 3 |
| wm | 5x5 screen, 2 windows, one button and a display, 4 packets, 77 k states | `TypeOK DragOnTop GripHeld NoGhost CursorTransparent` | drags, closes, clicks and flushes in every order |
| wm_occlusion | 9x5 screen, 3 windows | `OcclusionRight`, violated | finding 4 |
| vfs | 2 interchangeable tasks, 2 descriptors each, 2 files, 3 bytes, 543 k states | `OffsetInFile OneFilePerName`, step properties `PrefixKept ListingComplete`, refinement `ImplementsFileStore` | shared files and a listing under every order of calls and failures |
| mouse | a drain of 2 reads, 3 lost bytes, 12 k states | `StrayDiscarded OneSlowPacketSuffices`, step property `SyncKept` | how the packet boundary is lost and found again |
| calc | 5 bits, digits 0 1 3 6, 6 keys, 598 k states | `ShowsValue HaltsOnlyOnOverflow` | every key sequence against its value |

### Why the bounds are enough

- Three tasks: a creation can then be made by the task before, at or after the
  idle task in the ring, and a switch can skip a task. Liveness needs two
  competitors beside idle.
- The memory maps contain a hole over the region boundary, a machine smaller than
  the kernel region, a low region below the managed base, regions that reach the
  top of the address space, pass it and lie above it, and one region more than
  is kept; requests of zero to three pages reach past every limit.
- In `Spaces` the user region spans three directory entries, so a task needs one
  or more private tables, and either region can run out first.
- In `KHeap` the sizes are: the smallest block, one that leaves a remainder too
  small to split, one over a page, one larger than any run, which grows the heap to its
  limit in vain, and one whose sum with the header wraps; after one expansion the
  heap is full.
- In `Wm` windows can hang over the right and the bottom edge, a close button has
  margins inside the title bar, and four packets allow press, drag, chord or
  release, and another press, with a flush's halves anywhere between.
- In `Vfs` two descriptors on one file, by one task or by two, and writes that
  overlap, extend and straddle the end all fit in three bytes. Two files are
  enough for a creation to shift what a listing is about to read. The tasks are
  a symmetry set: nothing tells them apart, and the run has no liveness property.
- In `Mouse` the drain may end with a byte left behind, and three lost bytes are a
  whole packet's worth: every shift of the boundary occurs, more than once.
- In `Calc` five bits are the least width in which each digit fits; 16 wraps to
  the least integer and 31 to -1, so the sequence of six keys that halts the
  machine fits.

Deadlock is checked except where the system, or the model, may stop: the
machine may halt (`Spaces`, `Calc`), a walk over data ends the model (`KHeap`),
and the mouse may fall silent (`Wm`, `Mouse`).

### Fairness

Only `Sched` has liveness properties. It assumes:

- weak fairness of `Kernel`: the CPU keeps executing kernel code. Programs owe
  nothing; they may loop in ring 3 for ever;
- strong fairness of `TimerTick`: the timer runs for ever. It is strong because the
  model pauses devices during a pass through the handler;
- strong fairness of `IdleStep`: however often the idle loop is interrupted, the
  CPU executes instructions of it in between;
- strong fairness of each `Interrupt(i)`: the CPU samples its interrupt line
  between any two instructions, so an interrupt that is deliverable again and
  again is taken. Without it, ticks could be in phase with the only
  windows in which the mouse can be taken.

`MouseServiced` asks for a second task: idle alone calls `task_yield`, which
disables interrupts and returns at once, and then spins with them off.
Every liveness property excepts a halted machine, since any fault halts it.

## 4. Findings

1. **Segments after preemption** (`irq.asm:33`, run sched_segments). The stub saves
   no segment register. A task preempted in ring 3, switched away from, and
   resumed after another task's system call path loaded 0x10, returns to ring 3
   with null data segments. `syscall.asm:6` expects 0x23 at a trap.
2. **Shared code pages** (`main.c:259`, spaces_private). Two tasks running one
   registered program share its page, writable; `README.md:51` and
   `docs/milestone-review-phase9-12.md:185` promise isolated memory.
   `SharesOnlyPrograms` shows that this is the only sharing.
3. **Walks over data** (`kheap.c:84`, kheap_walk). Blocks may cross page starts, so
   the backward walk may start in the middle of a block; `kheap.h:10` states the
   contrary as an invariant.
4. **Occlusion** (`wm.c:217`, wm_occlusion). A flush draws whole windows but only
   those that meet the damage, so a lower one is painted over a higher one beside
   the damage; `docs/PROGRESS.md:816` relies on the drawing order.

## 5. Proofs

Each proof follows the same lines: an inductive invariant `IInv`, a lemma
that `Init` implies it, a step lemma per action, and theorems that derive the
properties from it.

Loops in the code are recursive functions over an interval in the models, and
what a loop computes is shown by induction. The provers cannot use the library's
induction rules, which take a predicate as their parameter, so an induction
here is an argument by a least counterexample: a nonempty set of naturals has a
least element (`LeastNat`, from the well-foundedness of `<`), and the set of
indices at which the claim fails has none.

- **`SchedProofs`**, for every `MaxTasks \in Nat`. `IInv` relates, per value of
  `pc`, the running stack, what lies on it and what is in service at the PICs,
  and gives every other task a resumable context. The properties are not
  inductive alone: that a switch leads to a sane place needs
  `SuspendedResumable`; that a context stays intact needs every stack to have
  one owner and `esp0` to be the running task's; that interrupts are deliverable
  in ring 3 needs to know what is in service at each `pc` in between. Proved:
  `TypeOK`, `OneRunning`, `OnOwnStack`, `SuspendedResumable`,
  `AddressSpaceOfCurrent`, `Preemptible` and `SuspendedContextUntouched`.
  `RunQueueIsOneRing` needs an order of the ring, which no variable holds:
  `QueueIsRing` says that the list of hops from the current task, `RunList`, is
  one (`IsRing`: every task once, each the next of the one before, the first
  the next of the last). A switch rotates the list and a creation puts the new
  task second; `FollowedRound` shows, by induction over the hops, that the list read
  off the pointers is again the one they form. The same list is the refinement mapping to
  `RoundRobin`, so `RoundRobinSafety` follows: a switch is a rotation there, a
  creation an insertion, and every other step a stutter.
- **`PmmProofs`**, for every memory map, page size and layout allowed by
  `PmmAssumption` and `MapsAssumption`. `IInv` adds to `BlocksDisjoint` and
  `BlocksInRegion` that a held page has its bit set and a clear bit is a usable
  page (`Covered`). `AllocSpec` (in `PmmOpsProofs`) states what a scan returns and is
  all the step proofs use of it. For maps on which `pmm_init` counts each page once
  (`RegularMaps`), the counter stays exact (`CInv`): a grant lowers it by the size
  of the run it takes off the set of clear bits. From that, and from the run of
  clear bits a caller could have had being no larger than the count,
  `RefusedOnlyWithoutRun` follows. `PagesReported` goes back to the memory map:
  each region kept is one of those reported, cut at 4 GB (`Clipped`), by induction
  over the loop of `multiboot_parse`; a page is freed only at an address the loop
  over such a region visits, and every visit but the last of a region ends
  inside it. That the last one does too is what `AlignedMaps` is for: a region
  that is managed begins and ends on page boundaries. A map where one does not
  makes `pmm_init` hand out a page of which the region covers a part.
- **`KHeapProofs`**, for every page size and layout allowed by `HeapAssumption`
  (the managed memory starts on a page, a page holds a block, at least one page at
  a time is added) and any request sizes. The inductive invariant, `IInv`, joins what
  the properties state separately, because none is inductive without the others:
  the blocks lie end to end in the pages of the heap (needed so that the address
  behind a block is the next block or the end of a run), the list holds
  the free ones once each (so that merging takes the right one out), each block
  has the least size (so that no split leaves less), and the used
  blocks are those held (so that `kfree` frees a block there is). A split, a merge and a new
  run of pages each have a lemma that they keep a tiling a tiling; the retries of `kmalloc` are
  an induction over `Grown`. All but
  the block taken or given back, and its free neighbours, keep their headers
  (`HeldAlwaysUntouched`). With that the refinement follows, one action at a time:
  `kmalloc` grants a block that was nobody's, which the tiling puts apart
  from every other and whose size `Take` bounds from below (`NeededCovers`: up to
  `MaxRequest` nothing wraps), so it is an allocation, and the chunks of other
  callers stay what they were (`GrantRefines`); `kfree` is a release even when its walk
  leaves the headers (`FreeRefines`); growing and other callers of the page allocator
  are stutters. That a chunk lies in the managed memory is what `KernelRegion` in
  the invariant is for. `Allocator` may refuse any request; `RefusedOnlyWhenFull` says
  when `kmalloc` does: only if afterwards no free block is large enough and
  `heap_expand` would fail. It follows from counting pages over the tries
  (`Progress`, `GrownEnds`): each that succeeds adds `ExpandPages`, so after as
  many as `Grown` makes the limit is reached, and the bound the model puts on the
  recursion of `kmalloc` is never what ends it. No run lists this property.
  The theorems hold up to a walk over data, as the properties do.
- **`SpacesProofs`**, for every size of memory, page and table, every number of
  programs and wherever in a launch memory runs out. It assumes
  `SpacesAssumption` (managed memory begins on a page, and a page and a byte are
  less than the address space: 4 KB against 4 GB) and `BootAssumption`: the
  machine has the pages its boot takes. `kmain` checks none of those, and
  without them would write its directory to address 0; what follows then is not
  modelled. `SpacesInv` says of memory (`Sound`) that tables and directories are
  kernel pages in use (`Placed`), that an entry is open to ring 3 exactly if its
  table is not the kernel's, whose tables open nothing (`Closed`), and that a
  table other than the kernel's stands behind one entry of one directory
  (`Owned`); of every task (`TaskFits`) that its directory reaches exactly its
  pages; of any two (`Apart`) that they share neither directory, kernel stack
  nor any page but a registered program's. None is inductive alone: opening a
  page leaves the reach of other tasks alone only because of `Owned`, a new
  table is nobody else's only because all in use are marked so (`Placed`), and a
  directory starts out reaching nothing because of `Closed`. A launch is a chain
  of allocations, so the proof follows `Extends`: a step adds directories and
  tables at pages that were free and changes none that was there. Extensions
  compose (`ExtendsTrans`), tasks survive them (`TaskStays`), and the only steps
  that change a table change that of the task being made (`Building`,
  `OpenBuilds`). The loops that mark pages and those that set up the kernel's
  tables are inductions (`MarkPagesMarks`, `KernelPagesAnswer`).
  `UserShortageReported` follows because each failure that is not reported is
  one of the heap to grow (`NoHeapLeft`), which lasts, as no page is ever given
  back. `CopiesStayInReach` is arithmetic on ranges that wrap: one the checks
  accept does not, and a string is looked up at every page it enters
  (`RangeInReach`, `StringInReach`).
- **`WmProofs`**, for every screen, set of windows and sequence of packets, under
  `GripAssumption` (the strip a drag leaves on the screen is at least as large as the
  cursor, no window is smaller than that strip, and the close button lies in the title bar),
  `BootAssumption` (windows start on the screen) and `CalcAssumption` (display and
  buttons lie inside the calculator's border). All are true of the code's constants:
  cursor 12 by 20, grip 30, title bar 26, close button 18 with a margin of 4, a
  calculator of 240 by 280.
  - `DragOnTop` and `GripHeld` are proved together because each needs the other: a press
    of another button during a drag acts where the cursor is, which `GripHeld` puts
    on the title bar of the dragged window, which `DragOnTop` makes the one that is
    hit. `ClampKeepsGrip` is the arithmetic of the two clamps.
  - `Screenwise` joins the type invariant, which knows that the cursor's saved pixels are
    exactly those it covers, with `NoGhost` and `CursorTransparent`. Both speak of the
    picture, the screen with the cursor lifted. A click leaves a picture of the windows
    it lists, because it draws all of them (`DrawAllKeeps`) or paints inside the
    calculator (`CalcInside`, `CalcDraws`), and lifting a cursor just drawn gives
    back what was under it (`LiftDrawn`). The movement after it changes no pixel of the picture but
    moves a window away from some: a window paints nothing outside the rectangle a
    move damages (`PaintsInside`, where the close button's place in the title bar is needed), and
    the damage on record covers that rectangle afterwards (`MarkCovers`). A flush is two steps, so
    damage taken but not yet drawn counts as pending.

- **`InputProofs`**, for every number of drained and lost bytes of the mouse. `StrayDiscarded`
  rests on `StrayInv`, which follows a stray byte from the buffer through the
  first packet, the one that is thrown away. `OneSlowPacketSuffices` rests on
  `SlowInv`: the bytes of a slow packet read so far lie at the end of what is put
  together, whatever lies before them, because none of them but the first is
  taken for a first byte. `SyncKept` needs only that a mouse's first byte
  has bit 3 (`FirstMarked`).

  The same module proves, for every width and number of keys, that the
  calculator shows what the keys mean and halts on one division only. It
  assumes `WidthAssumption` and `DigitsFit`, that each digit is a number of that
  width, as with the code's 32 bits. The invariant (`Follows`) says
  where the registers stand in the reading of all keys so far: with an operation
  pending, the last sign is its operator, the accumulator holds the value of what is
  left of it and the other register the number to its right; with none pending,
  that register holds the value of all. What is read at a place depends on the
  keys before it only (`ReadLocal`); from that come both that the recursion of
  `Reading` defines a function (`ReadingDefined`) and that one key more leaves the
  earlier readings as they were (`ReadingPrefix`), each by a least counterexample. Addition,
  multiplication and division stay opaque: the handlers apply the operations
  the reading applies, to the same operands.
- **`VfsProofs`**, for every number of tasks, descriptors and files, any paths that
  satisfy `PathsAssumption` and any data. `IInv` joins the type invariant, that
  the directory lists the files newest first (`NewestFirst`), `OffsetInFile` and
  `OneFilePerName`, and each action keeps all four. `PrefixKept` and the
  refinement need `OffsetInFile`: only a write within the file has no gap to fill,
  so that `ramfs_write` is the overwriting of `FileStore`. The refinement also
  needs `OneFilePerName` and `NewestFirst`: creating a file changes what a lookup
  yields for its own name only. `ListingComplete` has an invariant of its own:
  while a listing runs, every file there was at its start has been shown or lies
  at or behind the next index.

Every invariant and every step property that a passing run checks is proved.
Only model-checked: liveness, and with it the fairness of `RoundRobin` that
`ImplementsRoundRobin` includes, for the prover does not reason about `ENABLED`.

## 6. Not modelled

- `vfs_mount`, boot, GDT and IDT set-up, the serial driver, fonts, the bytes an
  ELF file is made of, and the programs in assembly but for `ls`.
- PRINT, READCHAR and WRITECONSOLE, which move bytes between a program and the
  serial port and change no other state; READCHAR polls with interrupts off.
- File sizes near 2^32, regions of memory that share pages or
  begin off a page boundary in what is said of the free count and of the pages
  reported, programs of more than 31 pages, and two names that agree in
  their first 63 characters.
- `task_create`, `task_create_user` and `paging_set_user_accessible`: dead code.
- What a walk over data (`KHeap`) or a program with null segments does next.

## 7. What could come next

- The ELF loader's segments: where pass two copies to, relative to the pages
  pass one allocates, and the array of 32 pages in `exec_elf_from_path`.
- A composition of `Sched` and `Vfs`, with calls of several tasks interleaved at
  kernel granularity; with interrupts off in every call it would show what
  `Vfs` shows by taking calls whole.
