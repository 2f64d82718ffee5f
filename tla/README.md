# NoviumOS in TLA+

A verification development for the NoviumOS kernel: TLA+ models of its scheduler,
its inter-process communication, its memory management, its interrupt handling, its
shell with keyboard and console, and its boot-time self tests; TLC runs on small
instances of them; and TLAPS proofs, for every instance, about its semaphores, mutexes,
ports, interrupts and keyboard ring.

## The system

NoviumOS is a 32-bit x86 kernel for one CPU.  Tasks share the CPU; a task gives
it up by calling `SchedYield`, by blocking or exiting, or because the timer
interrupt preempts it on the way out of `isr_dispatch`.  Critical sections are
stretches with interrupts off.  There is no second CPU and no user mode.

| Part | Source | State | Operations | Status |
|------|--------|-------|------------|--------|
| Scheduler | `kernel/sched.c` | task table, ready, blocked and dead lists, current task, policy, lock depth, pending preemption | create, yield, tick, preempt, block, unblock, sleep, wake expired, exit, kill, lock, priority, policy | modelled |
| Timer | `pit.c` | `tick_count`, divisor | callback, `timer_sleep_ms`, uptime | modelled |
| Interrupt dispatch, PIC | `irq.c`, `isr.S` | handlers, masks, in-service bits, interrupt flag | deliver, dispatch, register, unregister, spurious check | modelled |
| Context switch | `switch.S`, `process.c` | interrupt flag, where a task resumes | switch | partly |
| Wait queues | `ipc/ipc.c` | array of task ids | add, remove, take live, park, wake one | modelled |
| Semaphore | `ipc/sync.c` | count, limit, queue | wait, try, post | modelled |
| Mutex | `ipc/sync.c` | locked, owner, queue | lock, try, unlock | modelled |
| Port | `ipc/message.c` | ring, count, two queues, magic word | create, destroy, send, receive, non-blocking forms | modelled |
| Page allocator | `mm/page_alloc.c` | bitmap, free count | alloc, runs, runs at a hint, free | modelled |
| Heap | `mm/heap.c` | segments, blocks, free list | kmalloc, kfree, grow, page return | modelled |
| Keyboard | `keyboard.c`, `ps2.c` | scancode ring, shift | interrupt, pop, getchar | modelled |
| Console | `vga_console.c` | cells, cursor, prompt position | putchar, scroll, prompt, clear | modelled |
| Self tests, shell | `init/main.c` | test counters, the line typed | the shell's loop; the IPC tests as clients of ports and mutexes | partly |
| Paging, boot, library, debug, fs, framebuffer | | | straight-line set-up, pure helpers, stubs | not modelled |

Who calls whom: ports, mutexes and semaphores call the wait queues, which call
`SchedBlock` and `SchedWakeTask`; the timer calls `SchedTick`,
`SchedWakeExpired` and `SchedPreempt`; the heap calls the page allocator; the
shell reads the keyboard and writes the console, to which `isr_dispatch` writes its
warnings as well; the self tests at boot call ports and mutexes from five tasks.

What is hard here: every point with interrupts on is a point where another task
may run; several calls test a state with interrupts on and act on it with
interrupts off; a wakeup is two critical sections with a gap between them; a
task may be killed anywhere; a task may be switched away from in the middle of an
interrupt; the keyboard ring and the console are shared with interrupts without a
lock; the tick counter wraps; queues and rings have fixed sizes.  `PROJECT.json` lists the hazards with their lines.

## Modules

**IpcWait** has the wait queue and what the IPC code sees of the scheduler.
`State[t]` is the task's state (`TaskReady` covers running, which `ipc/` never
tells apart), `pc[t]` the point of the call it has reached, `wake[t]` the id it
has taken off a queue.  A stretch with interrupts off is one action; between two
actions any ready task may go.  A call that fails without waiting changes
nothing and is not a step.  `IpcPark` is three actions: it returns, it sleeps
(the entry and the block are one critical section), it comes back.  A block that
the scheduler undoes because `SchedLock` is held is a stuttering step here.
`TaskWild` is a killed task that `SchedUnblock` put back on the ready list; the
kernel does not survive switching to it and the model takes it no further.

**Semaphore**, **Mutex**, **Port** extend IpcWait, one action per critical
section.  Payload, `Length` and `Data` of a message are one model value.
`QuietDestroy` says whether the port's owner destroys it only while no other
task is awake inside a call on it.

**PortFifo** is the promise of a port: a bounded queue in arrival order.
`Port!IsFifo` maps the ring to it.

**Scheduler** has the statics of `sched.c` in the record `k`.  A critical section
is an operator from `k` to `k`; an action applies one and says where the task
goes.  Queues are sequences of descriptors, which is what the linked lists are
as long as no descriptor is on two of them: `QueuesMatchStates` says it is not.
`TimerIrq` is the whole path from `timer_callback` through the EOI to
`SchedPreempt`, which runs with interrupts off.  `Park` is `SchedBlock` with
interrupts off, as `IpcPark` calls it.  `Calls` selects the calls tasks make and
`Wakers` the tasks that call `SchedWakeTask` with interrupts on.

The two levels meet at `SchedBlock` and `SchedWakeTask`: Scheduler shows what they
do to the lists, IpcWait uses their effect on the state.

**PageAlloc** has the bitmap as the set of free pages, with the range rounding of
`PageAllocInit` and the skipping search of `PageAllocPagesAt` as the code has them.
`PageAllocPages` is the same search from 0, `PageFree` a run of one page.  Malformed
map entries end the code's scan, so `MemoryMap` is the entries before the first one.
**Heap** extends it: `mm` is one record of the statics of both files, and an operator
from `mm` to `mm` is a C function's effect.  `mm.Meta` has the headers of blocks; the
linked free list is a sequence.  Sizes are bytes, 32-bit sums wrap at `Top`.  Both are
called by `kernel_main` alone, before the scheduler starts, so a call is one step.
Apart from the heap nobody in the kernel calls the page allocator; the model gives
its interface a second caller, which frees what it holds or passes addresses that the
code has to ignore.  `stale` allows a double free until the memory is handed out
again; after that no allocator could tell it from a proper free.

**Interrupts** has the two controllers (external: request, service and mask bits, the
cascade, priorities, spurious interrupts of lines 7 and 15), `isr_dispatch` step by step
from delivery to `iret`, and the CPU's interrupt flag across critical sections and
switches.  `stage` is what the CPU does, `resume[t]` how a suspended task goes on and
`depth[t]` how many unfinished interrupts its stack has.  Which task a switch picks is
Scheduler's; here it may be any.  `irq_register` and `irq_unregister` run one store at a
time with interrupts on, and so does `timer_uptime_ms` between its two reads.

**Keyboard** has the ring between the interrupt handler and the one task that reads it,
each access of `keyboard_pop` a step, the `hlt` of `keyboard_getchar`, and decoding up to
the kind of key.  **KeyQueue** is its promise: a queue that loses what comes while it is
full.  **Console** has `vga_console.c` as operators on a record of cells, cursor and
prompt position; a cell shows the echo of a key, other output, or nothing.  **Shell**
composes the two: the shell's loop of prompt, read and echo, with keys, timer interrupts
and warnings between any two steps, in the middle of a `console_putchar` that has read the
cursor and not yet moved it, and between the load and the store of `console_prompt`'s
`user_cmdline_start = cursor`.  `at` is what such a call has read, and the history variable
`torn` says that a warning came before it was used.  A slot of the ring that was popped is
forgotten: the handler writes it again before anything reads it.

**BootTest** has the IPC self tests of `init/main.c`: the main task, a producer and a
consumer on an instance of Port, and two tasks that fight over an instance of Mutex.  The
main task may give up waiting at any time, as its timeouts let it.

**MC…** modules instantiate these for TLC; **…Proofs** modules have the theorems.  An
operator marked *Mutant* is a changed form of the definition that follows it; no
specification uses it.  It stands for a plausible bug that the property it belongs to
must catch.

## Runs

| Run | Result | What it shows |
|-----|--------|---------------|
| `scheduler` | holds | lists match states, the task on the CPU is not blocked, the idle task is always there to switch to, ids are unique; round robin starves nobody as long as tasks are not created without end; a sleeper with a deadline is woken across wraps |
| `scheduler_locks` | holds | the same lists with yields under nested locks, both policies, and one waker with interrupts on |
| `scheduler_race` | violated | two wakers, or a waker and the timer, queue a task twice |
| `semaphore` | holds | limit, lost wakeups, forgotten sleepers, stale wakes, and progress |
| `mutex` | holds | exclusion, hand-off to waiters only, no waiter on a free mutex |
| `mutex_handoff` | violated | the new owner parks again on its own mutex and hangs |
| `port` | holds | the ring implements PortFifo; lost wakeups on both sides; nobody stranded by a quiet destroy; a message reaches a parked receiver |
| `heap` | holds | below the page-return threshold: blocks tile segments, the free list is exact, allocations keep their room, every usable page has one owner, the search is first fit |
| `heap_return` | violated | pages that `kfree` returns stay on the heap's free list |
| `interrupts` | holds | a line leaves service before a switch, interrupts do not nest on a task's stack, a registered line is open, the uptime is close to the clock, requests are served |
| `shell` | holds | the ring implements KeyQueue, no key is stuck in it, shift catches up with the keyboard, the cursor stays on the page and, unless a warning came between a load and its store, not before the prompt, backspaces erase the typed line and nothing before it |
| `boot` | holds | the rendezvous finishes; the only false alarm is the early check of `ProducerId`; the port is destroyed at a quiet moment, as `port` assumes of owners; no increment under the mutex is lost |

Each violated run states what a document or comment of the repository says;
`PROJECT.json` quotes it under "findings".

**Bounds.**  Semaphores run with three tasks and the idle task, enough for a waiter, a
waker and a third that comes between them, and a queue of two, which fills; mutexes with
four, so that the queue of three fills.  Ports run with two tasks and the idle task, which
sends and receives but never parks; the ring of two slots wraps, and messages are told
apart by their senders.  No third task finds the port's wait queue full there:
`semaphore` and `mutex` have that case.  The scheduler has
three descriptors, slices of two ticks and a tick counter modulo 4, so that it wraps
often; sleeps are at most half of that, as the signed comparison requires.  `MaxIds`
bounds the tasks ever created and `MaxLocks` the nesting of `SchedLock`.  `ReadyRuns` assumes
what `MaxIds` would otherwise give it, that creation comes to an end: see the divergences.  The explicit
`SchedYield` is called in `scheduler_locks`; in `scheduler` tasks give up the CPU to the
timer or by blocking.  `MaxCount`
bounds an unlimited semaphore; the run has a limit of 2, and the proofs cover both.
The heap has pages of 12 bytes, headers of 4 and alignment 2; an initial segment of
two pages, which takes four small blocks, so a free merges with both neighbours; a
table of two segments and five usable pages, so both run out; and sizes next to the
wrap.  In `heap` no block in the middle of a segment is large enough for a page to be
returned: that path is `heap_return`'s, with a threshold of one page.

`interrupts` has two tasks, the timer on the master and line 15 on the slave, which brings
in the cascade, the highest and the lowest priority, and both kinds of spurious
interrupt; two ticks to the second and at most three ticks (`MaxTicks`), so that a second
ends between two reads of the clock.  `shell` has a ring of three slots (two codes), a
key each for tab, enter and backspace, one shift key, and a page of two rows of three
columns, the smallest on which lines wrap, get a marker and scroll; one warning of one
character (`MaxWarnings`, `WarningLength`).  After a warning the cells are not tracked any
more: nothing reads them, and `LineIsFromStart` is about a page without one.  `boot` has
six messages and a ring of two, and `MaxRounds` bounds the rounds on the mutex.  Symmetry
is used only in `mutex_handoff`, which checks one invariant.

**Fairness.**  IPC: a call once begun goes on (`WF`), because the scheduler runs
every ready task again (`ReadyRuns`, under round robin, the initial policy, while no tasks
are created without end: the kernel creates its tasks at boot; the priority policy may
starve a task); nothing makes a task begin a call.
Scheduler: the timer ticks for ever, because the PIT is periodic and stretches
with interrupts off are finite, and an exiting task reaches its yield.
Interrupts: the controller keeps a request until the CPU takes it, and the CPU takes one
after an instruction with interrupts on (`SF` for each line, since a higher line or a
critical section may come first any number of times); a handler runs to its end and a
critical section ends (`WF`).  Shell: the shell runs again and again, and the timer's
interrupt comes (`WF`); no key has to.  Boot: main, producer and consumer run (`WF`).

## Proofs

For any finite set of tasks, any queue size, limit and capacity, with or without kills:

- **MutexProofs**: `TypeCorrect`, `Exclusion`, `NobodyWaitsForAFreeMutex`,
  `Handoff`.  The inductive invariant is the conjunction of the types, mutual
  exclusion and `FreeHasNoWaiters`.
- **SemaphoreProofs**: `TypeCorrect`, `WakeupsAreNotLost`, `NobodyForgotten`,
  `WakesAreFresh`; and `NobodyLeftBehind`, which assumes no kills and fails with
  them.  `NoLostWakeup` is not inductive.  The invariant adds that the queue has
  no duplicates and names only tasks inside their `SchedBlock` (`QueueInv`), that a
  task about to be woken is off the queue and has one waker (`WakeInv`), that a
  blocked task is queued or has a waker (`SleepInv`), and a sharper count
  (`CountInv`): the permits are at most the killed tasks and those that will look
  at the count or wake a live task that will.  A post adds one of each, a take
  removes at most one of each, a waker passes its place to the task it wakes.
- **PortProofs**: `PortIsFifo`, that Port implements PortFifo; `PortStrandsNobody`; and
  `PortTypes`.  All assume `QuietDestroy`: without it a send that tested the magic word
  before a destroy writes into the port after it, and a task may park on it.  The invariant
  adds to the types that a task awake inside a call is on a created port and that every
  blocked task is inside `IpcPark` (`Tested`); a task that is woken comes back to a created
  port because its waker is inside a call itself.  Lemmas about the ring (`RingPush`,
  `RingPop`) give the two steps that move messages; every other step leaves the ring alone.
  With `Tested`, `NoneStranded` is inductive.
- **IpcWaitProofs**: what adding, removing and taking do to a queue.

For any tasks, lines, driver and clock rates:

- **InterruptsProofs**: `InterruptsService` and `InterruptsOneFrame`.  The invariant has
  the two properties, that the flag is off at every stage of an interrupt, and which line
  is in service at which stage until the EOI.  `InterruptsRegistered` has an invariant of
  its own (`RInv`): how far handlers and masks are apart at each point of `irq_register` and
  `irq_unregister`.

For every size of the ring and the page, and every set of keys:

- **ShellProofs**: `ShellKeyQueue`, that the ring implements KeyQueue.  The invariant says
  what the reader has found out about the ring and still holds when the handler has run in
  between: the ring is not empty once it was seen so, and the code that was read is still
  at `tail`.

Assumptions: `WaitAssumption` (finitely many tasks, the idle task is none of
them, room for at least one waiter), `SemAssumption` (naturals), `PortAssumption` (at least
one slot), `InterruptsAssumption` (lines 0 to 15 without the cascade, rates other than 0),
and `KeyboardAssumption`, which has a ring of 2 to 256 slots because the handler's `next` is a
`u8`.  Only model-checked: liveness, which is out of TLAPS' reach; `NoLostWakeup` of Port;
the uptime in Interrupts; shift, console and line in Shell; and all properties
of Scheduler, PageAlloc, Heap and BootTest.

## Known divergences without a run

Read in the code; no run here checks them:

- A sleeper whose deadline is 0 after a wrap reads as having none, and the timer does
  not wake it (`sched.c:464`; `pit.c:62` says the timer wakes it).
- A sleeper that another task blocks between the store of its deadline and its own block
  is woken from that block by the timer, which clears the deadline; its own block then has
  none (`sched.c:452`).  `DeadlineWakes` is about a blocked task while it has a deadline.
- A destroy between a task's test of the port and its park strands that task on a port
  that is gone (`message.c:69`); `kernel_api.md:409-410` says a destroy with waiters fails.
  `port` assumes a quiet destroy, and `boot` shows that the kernel's one owner waits for it.
- A waker killed between taking an id and waking it leaves that task asleep and on no
  queue (`ipc.c:153`, `kernel_api.md:463`).  `NobodyLeftBehind` needs its assumption of
  no kills for this reason, and `NoneForgotten` counts a dead waker as a waker.
- After a page return the block beyond is stamped with the kept size instead of the
  size of the block before it (`heap.c:340`), so its free looks for a neighbour's header
  in the wrong place.
- A task that did not wait can take the permit a woken waiter was meant to have
  (`sync.c:48`); `sync.h:7-9` says it cannot.  The waiter parks again.
- Ids of killed tasks keep their place on a wait queue until nobody live is left
  on it, so `IpcErrFull` does not need 16 parked tasks (`kernel_api.md:365-366`).
- A killed owner leaves its mutex locked (`kernel_api.md:342`).
- A send that tested the magic word before a destroy writes into the port after it
  (`message.c:129`, `kernel_api.md:411-413`).
- `kernel_api.md:170` says that the keyboard's indices are `u16`, so that the buffer can grow
  beyond 256 entries; the handler's `next` is a `u8` (`keyboard.c:65`).
- A warning printed while the shell echoes a key gets the markers of a command line
  (`kernel_api.md:94-97`), and it may interrupt the two writes that move the hardware cursor.
- `user_cmdline_start = cursor` (`vga_console.c:137`) and the accesses of `console_putchar` are
  loads and stores with interrupts on.  A warning in between that scrolls the page leaves the
  start of the command line past the cursor, so that backspaces do nothing until the line has
  passed it or the next prompt is printed.  `CursorOnPage` says that nothing else does.
- With two shift keys, caps lock, or a release lost to a full ring, `shift_held` differs
  from the keyboard until the next code of a shift key.  `ShiftCatchesUp` says no more.
- `main.c:166` stores `ProducerId` after both tasks were created, so that the self test can
  report good messages as bad (`BadOnlyIfEarly`); and because of `mutex_handoff` its two
  tasks can stop making rounds, which it reports as stalled.
- Requests of higher priority can hold up a line for ever, and `irq_register` reads and
  writes a mask with interrupts on, which two registrars at a time would not survive.
- Round robin takes the first larger id in queue order, which need not be the next
  id (`sched.c:91`, `kernel_api.md:333-335`).  A fresh id is larger than all others, so
  a chain of tasks, each of which creates the next one and kills the one before it, is picked
  before every older ready task for as long as the chain goes on.  (A task that exits leaves
  the choice to the head of the queue.)  `ReadyRuns` is about runs in which creation ends.
- `notes.txt:20-22` describes a skipped waiter in `IpcWaitTakeLive`.  The code no
  longer does that, and `FreeHasNoWaiters` holds.  `notes.txt:24-25` describes a leak in
  `HeapGrow`, and `notes.txt:16-18` a double merge in `kfree`; both are fixed in the code,
  and `PagesAreAccounted` and `SegmentsAreTiled` hold in `heap`.

## Not modelled

- Saved registers, stacks and names; statistics (`Runtime`, `Switches`, the count of
  spurious interrupts): nothing the properties speak of depends on them.
- The wrap of task ids and of an unlimited semaphore after 2^32 operations.
- `SchedExit` under `SchedLock` is in the model (it cannot yield and ends in the panic,
  `Halted`), but no run lets tasks both lock and exit: no document says it is allowed.
- CPU exceptions, which print and halt.
- A warning in the middle of the copy loop of `console_scroll`, and the hardware cursor:
  the model's scroll is one step.
- The self tests of semaphore, mutex and heap that meet no other task, and a
  `SchedCreate` that fails in them: sequential, and the calls are in their own modules.
- Paging (an identity map written once, whose other functions have no caller), boot and
  hardware set-up (straight-line, before interrupts are on), the library (`kprintf`,
  string functions: pure), debug output, the stubs of fs and framebuffer.
- Not proved though within reach: `NoLostWakeup` of Port along the lines of SemaphoreProofs,
  `QueuesMatchStates` and `IdleIsFallback` of Scheduler for wakes with interrupts off, and
  the tiling of Heap.
