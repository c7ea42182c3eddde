# A verification of Lanthorn

Lanthorn is a small kernel for x86: a preemptive scheduler for several CPUs, ticket
spinlocks and blocking mutexes, processes and threads, messages between processes,
services on top of messages, a memory manager, a file server in user space, and a
configuration tool, kconfig, with which it is built. This directory holds TLA+ modules
that model these parts, TLC configurations that check them on small instances, and TLAPS
proofs about the spinlock, the scheduler, the mutex, the console buffer, the messages and
the processes for instances of every size. `PROJECT.json` maps every definition to the
lines it models.

    tlc -config SchedulerSMP.cfg MCScheduler     # check a configuration
    tlapm SchedulerProofs.tla                    # check the proofs of a module

## The system and its parts

| Part | Source | State | Operations that change it | Modules |
|---|---|---|---|---|
| Spinlock | `include/spinlock.h` | two ticket counters, owner | lock, unlock | `Spinlock` |
| Lists | `lib/list.c` | linked nodes | push, pop, delete | `Queues` |
| Scheduler | `kernel/proc/thread/schd.c`, `arch/x86/src/task` | thread states, runnable list, task and stack of each CPU | dispatch, preempt, block, run, kill | `Scheduler`, `Sched` |
| Interrupt control | `arch/x86/src/intr` | interrupt flag, nesting count, interrupt in service | save, restore, end of interrupt | in `Scheduler`, `Buf` |
| Mutex | `kernel/proc/thread/mutex.c` | count, owner, wait list, spinlock | lock, unlock | `Mutex`, `Mutexes` |
| Threads, processes | `kernel/proc/proc.c`, `thread.c` | threads of each process, the thread that waits | create, exit, kill, block, wake | `Proc` |
| Messages | `kernel/msg/msg.c` | messages, boxes, their mutexes | new, send, recieve, read, delete | `Msg`, `Mailbox` |
| Console buffer | `lib/buf.c`, `kernel/tmp.c` | ring buffer, sleeping reader and writer | read, write in the serial interrupt | `Buf` |
| Physical memory | `kernel/memory/pm.c`, `lib/slot.c` | buddy tree, lists, allocated pages, slots | allocate, free, references | `Buddy`, `Frames` |
| Identifiers | `lib/idx_alct.c`, `lib/rbt.c` | red-black tree with subtree counts | new, find, delete | `IdxAlct`, `Rbt` |
| Virtual memory | `vm.c`, `um.c`, `ptb.c`, `slab.c`, `memory.c` | areas, heap, page table, slab | allocate, page fault, fork | `Vm`, `VmAlct`, `Memory` |
| Services | `kernel/srv/srv.c` | registry with a reader/writer lock | register, call, called, reply | `Services` |
| File server | `usr/fssrv` | tree of files, threads | create, delete, find, read, write, list | `Services` |
| Configuration tool | `scripts/kconfig` | Kconfig file, symbols, files on disk | parse, edit, read, write, run | `Expr`, `Menu`, `Symbol`, `Confdata`, `Conf`, `Mconf`, `Kconfig` |
| Dialog boxes | `scripts/kconfig/lxdialog` | position, scroll, text, screen | keys, resize | `Dialog` |
| User library, programs, boot, log, ELF, devices | `usr/lib`, `usr/*.c`, `arch/x86`, `lib` | | | not modelled |

The parts are stacked. The scheduler uses a spinlock and disables interrupts. A mutex
has a spinlock, a counter and a list of waiters, and passes the spinlock to `schd_block`.
Messages and the console buffer use mutexes and put threads to sleep by themselves,
and so does the creation of a process. What is hard here is the same everywhere: a
thread announces that it sleeps, gives something up and calls `schd_block`, and the one
that wakes it up may come at any point of this; `schd_run` stops the machine when the
thread is not `BLOCKED`. The memory manager and the file server have another difficulty:
fields that no lock protects. The configuration tool is one process, but it is killed, run
again and edited in any order, and it keeps values that must be recalculated.

## How the modules fit together

Each layer is specified twice, in detail and as the layer above sees it, so that the
layers above stay small.

    FifoLock  <=  Spinlock          (proved, checked)
    FifoLock  <=  Mutex             (proved, checked)      Mutex    on  Sched
    Sched     <=  Scheduler         (proved, checked)
    Mailbox   <=  Msg               (proved, checked)      Msg      on  Mutexes on Sched
                                                           Buf      on  Mutexes on Sched
                                                           Proc     on  Sched
    Frames    <=  Buddy             (checked)
                                                           IdxAlct  on  Rbt
                                                           VmAlct   on  Vm on Rbt
                                                           Memory   on  Vm
                                                           Services as if on Mailbox
    Kconfig on Mconf on Conf on Confdata on Symbol on Menu on Expr;  Dialog

`A <= B` says that B implements A: the specification of A, under a refinement mapping,
is a `PROPERTY` of a run of B. `Mutexes` is the mutex with `mutex_lock` and
`mutex_unlock` in one step each; that `Mutex` is a FIFO lock which is handed from thread
to thread is the justification, not a formal step of a proof.

The proofs are in modules of their own: `SpinlockProofs`, `SchedulerProofs`, `MutexProofs`,
`BufProofs`, `MsgProofs` and `ProcProofs`, the last four on `SchedTheorems` (lemmas about
the operations of `Sched`), and all of them on `QueueTheorems` (lemmas about queues).

**Spinlock.** One action for every access to shared memory: draw a ticket, see it
served, write `owner`, serve the next ticket, clear `owner`. The counters wrap after
`Tickets` values. `queue` is a history variable.

**Scheduler.** One CPU is described by `task` (to which thread the CPU is accounted),
`stack` (on whose stack it executes) and `pc`. The scheduler lock is a ticket lock, so
it is the queue of the CPUs that drew a ticket. It is taken on one stack and released on
another. The threads use the scheduler as `mutex.c` does (`Wait`, `Wake`), create threads
(`Create`), exit or kill (`Kill`) and disable interrupts (`IrqOff`, `IrqOn`). `ncli` is the
counter of `intr_irq_save` in the current task, `inservice` the timer interrupt that waits
for its end. The scheduler loop runs with interrupts disabled, as in the code. The bodies of
`schd_sleep` and `schd_wake` are commented out in the code, so nothing is `SLEEPING`.

**Mutex.** One action for every statement of `mutex_lock` and `mutex_unlock`; the thread
can lose its CPU between any two, also while it holds the spinlock.

**Msg.** The calls of `msg.c`, with two steps for a mutex operation: the spinlock inside the
mutex is taken (`spin_lock`; not by an unlock that finds nobody waiting), and the operation is
done and gives it back. In between the thread can lose its CPU, and a thread that has disabled interrupts in `msg_recieve` then
spins for ever (`Stuck`). `msg_size` is a `msg_read` as far as the state goes. Finding a box
and locking it are two steps, because the box can be deleted in between. Identifiers are
used once. A message that is deleted stays locked, as in the code. Contents are left out.

**Buf.** The serial interrupt runs on the stack of the thread that it interrupts, with
interrupts disabled, and may block there; `hpc` is where the handler is. A second
character can be taken on the stack of another thread while the first handler sleeps: the
end of any later interrupt ends the serial interrupt as well. A reader wakes a handler up in
three statements (`read_wake`, `read_clear`, `read_run`), between which it can be interrupted;
its own handler may then wait for the `writelock` of the one that it was about to wake up, and
both sleep for good (`WakesNext`). The updates of `freesz` are one instruction each in the optimised build, so on one CPU nothing divides them.

**Proc.** Processes are the lists of their threads. A new process starts with a kernel
thread that loads the program, creates the user thread and ends. The walk of
`proc_sys_exit` through the list is modelled with the pointer and the remembered next
pointer of `list_rep_s`, and every test and every kill is a step of its own. The creation can
run out of memory for the thread, the arguments and the program. `Machines` says which
system calls the programs make; `BootThreads` lists the threads of each process at boot.

**Buddy.** A `page_t` is a node of the tree below a block of `pm_insert`, named by its path,
so parent, buddy, order and address follow from the name. The allocator's lock makes each
operation one step; the recursion of `buddy_alloc` and the loop of `buddy_put` are written
as what they compute. Addresses are in pages: every caller rounds up to pages before
`pm_alloc`. `buddy_alloc` ignores that a slot may be missing and goes on with a page that
was never set; the model stops there (`unset`), since nothing is known of what follows.

**Rbt, IdxAlct.** A red-black tree is a value and a node is its key; `rbt_insert_color`,
`rbt_delete` and the order in which `rbt_update` visits the nodes are translated case by
case, with the side as a parameter where the code is written twice. `update()` of
`idx_alct.c` adds the left count for the right one, and reads below address 0 where there is
no left son; the model does the same (`rom` is what is read).

**Vm, VmAlct, Memory.** `Vm` has the areas of `vm.c` with the augmented free tree;
`VmAlct` is one allocator under all its calls. In `Memory`, threads of a process call
`umalloc` and touch what they got, or kernel threads call `kmalloc`: slab, heap, areas, page
frames and page table together. A step ends at a lock or at an access to a field that no lock
protects. When two threads meet in `slab_alloc` or `um_heap_alloc`, both may get the same
memory; the model stops there (`failed`). `mmu_pm_get` reads a page table through a window
whose lock it has already released, and another process, which is not part of the model, may
have moved the window: every lookup of `ptb_map` may be wrong, and `moved` remembers that one
was. `um_fork` copies a process.

**Services.** Programs register services, list them and call them; the six services of the
file server each have a listening thread, and each request a thread of its own. A call of
the box operations is one step, as `Mailbox` promises, except that a listener sleeps on its
empty box and is woken up by a call; a second call before it runs is the panic of
`msg_second_send`. Memory can run out at every allocation (`MaxFails` times). A search of the registry that meets an insertion, which only
`srv_call` can do, may have any result. A path is the sequence of its names. `path_cut` has
no return statement: the thread goes by the path that it was given, by another one (`Strays`),
or by an address that nothing is mapped at. `base` and `done` are history variables: the files
when no call was in progress, and what was answered since.

**Expr, Menu, Symbol, Confdata.** The simplification of expressions; the actions of the
parser and `menu_finalize`, which distributes conditions, builds submenus and settles choices,
and the check for recursive dependencies; the calculation of values with its `VALID` marks;
reading and writing. The C functions that change the symbols in place are operators from a
state to a state. `zconf.y` is modelled from its actions; the scanner is left out. Symbols
are bool, tristate or int; the values of an int are a small set.

**Conf, Mconf, Kconfig.** Programs run one after the other over the files on `disk`: `conf`
in all its modes, and the menu program with its menus, search, load and save. Every change on
the disk is a step, a program may be killed between any two, and a rename may fail. The
minimal configuration is written in place: it is empty when it is opened, and holds its first
lines, any number, until it is closed. `last` and `before` remember the last two
configurations that were saved. The user
may give any answer. A build may start when the files are in order, and remembers from which
values it was made.

**Dialog.** Each key of each box is an action. What is drawn is state, so that it can be
compared with what a key acts on.

## What the runs check

| Run | Instance | States | What it shows |
|---|---|---|---|
| `spinlock` | 3 contexts, 3 tickets, fair | 2.7 thousand | mutual exclusion and FIFO order across the wrap, `owner` never names a wrong holder, no context spins for ever |
| `scheduler_smp` | 2 CPUs, 3 threads | 303 thousand | stacks, lists, lock hand-over, interrupt counters, no panic, implements `Sched` |
| `scheduler_up` | 1 CPU, 3 threads that kill each other, fair | 143 thousand | a killed thread stays dead, every runnable thread runs |
| `mutex` | 2 CPUs, 3 threads, fair | 6.8 thousand | assertions, no lost wake-up, FIFO and with it mutual exclusion, no starvation |
| `msg` | 1 CPU, a sender and a reciever in two processes or two threads of one, 1 or 2 messages, fair | 631 thousand | queued messages are listed and not deleted, a box is a FIFO, no lost wake-up, a woken reciever finds its message and recieves unless the kernel has stopped or is `Stuck` |
| `buf` | 1 CPU, 2 readers and another thread, 3 places, 7 characters | 702 thousand | order of characters, `freesz`, a sleeper is known to the other side or in the hands of the thread that wakes it up |
| `proc` | 1 or 2 CPUs, 4 threads, 2 processes, five sets of calls, fair | 338 thousand | the waiting thread sleeps until the exit and returns after it; an exit has killed the other threads when it wakes its waiter |
| `allocators` | 7 pages in 3 blocks and 10 slots; 10 identifiers; 7 pages of areas; or 2 threads with a heap of 3 pages and 4 page frames | 2.2 million | no page frame lost or handed out twice, trees exact, no needless refusal; up to the first race nothing is shared however threads interleave, and what fails for good takes two threads |
| `services` | 2 programs with 2 calls, the services of the file server in pairs, one failure of memory, fair | 679 thousand | a search under the lock meets no insertion, requests that meet in the tree are answered as if they came one after the other, a call is answered |
| `kconfig` | 2.8 thousand Kconfig files for the parser, 9 projects with up to 3 programs and 2 edits each, 5 dialog boxes, fair | 337 thousand | conditions keep their meaning, values are exact, files are read back, nothing is lost unasked, changes are rebuilt, boxes show what keys act on |

The properties, in words, are above their definitions. A run that covers several parts
(`allocators`, `proc`, `msg`, `kconfig`) chooses one of them in its initial state.

**Why the bounds are enough.** Two CPUs give every race between two stacks, and three
threads a lock with a holder and two waiters in order. Two recievers compete for one
box, and the threads of one process for what it owns; two messages show their order. `Msg`
runs on one CPU with a preemption possible between any two steps, which gives the
interleavings of two CPUs except where `msg_recieve` has disabled interrupts: a second CPU
goes on there, so that `Stuck` is about one CPU, and `"schd_run"` below about two. Three tickets for three
contexts make the counters wrap all the time. Seven characters go twice around three
places. Seven pages give blocks of one, two and four, of which the largest is divided
twice, and ten slots run out. Ten identifiers and six areas make red-black trees of three
levels below the root, with every case of insertion and removal. Two threads are enough for
every race of `Memory` and `Services`, because these are between two accesses to one field;
four page frames run out in every function that asks for one. The pairs of file services are
those that can meet: contents, a directory that is listed while it grows, one that shrinks
while it is searched. Three calls without a failure of memory, 7.2 million states and too many
for a run that is kept, gave the same result. Requests are one slab object
of a quarter page and two pages. The Kconfig files combine all small conditions with all
places where a condition can stand; the projects have a range, a tristate choice, selects and
submenus, an optional choice, and a file small enough for three programs in a row. An int is
1, 3 or 4, below, at and above a bound of its range; two edits let a save follow one that
failed. The bounds
on counters are `MaxChars`, `MaxRefs`, `MaxCalls`, `MaxFails`, `MaxJobs`, `MaxEdits` and
`MaxDepth`.

Deadlock is checked for `spinlock`, `scheduler_smp` and `mutex`. It is not checked where the
program may really stop: threads may all exit or all sleep, messages, characters and calls
run out, and a panic stops the machine.

### What the code takes for impossible, and the models reach

Two runs end in a violation of what a panic of the kernel rules out; `PROJECT.json` quotes
the line.

| Run | What happens |
|---|---|
| `msg_second_send` | a second send before the woken reciever runs has no thread to wake |
| `buf_panic` | a character arrives between the announcement of a reader and its `schd_block` |

The variable `failed` (`panicked` in `Scheduler`) records the other places where an
assertion or a panic stops the kernel. They are reachable too:

| Module, value | What happens |
|---|---|
| `Scheduler`, `panicked` | with `KillOthers`: a thread kills one that runs on another CPU, sleeps or is already dead |
| `Msg`, `"schd_run"` on 2 CPUs | a send on another CPU comes before the reciever is `BLOCKED` |
| `Msg`, `Stuck` | a thread is preempted inside a mutex of the box while the woken reciever, with interrupts disabled, locks it (`msg.c:231`) |
| `Msg`, `"unlock"` | an unknown box is unlocked through a null pointer |
| `Buf`, `"write_assert"` | a handler is woken up for a place that is already taken |
| `Buf`, `WakesNext` with a sleeping reader | a reader is interrupted on its way to wake up a handler, and its own handler waits for the mutex of that one |
| `Buf`, `"mutex"`, `"mutex_unlock"` | a reader whose stack a handler uses is woken up in the place of that handler |
| `Proc`, `"killed_twice"` | a thread ends by itself between the test and the kill of an exit |
| `Proc`, `"kill_blocked"` | a process exits while one of its threads sleeps |
| `Proc`, `"kill_running"` on 2 CPUs | a process exits while one of its threads runs on another CPU |
| `Proc`, `"schd_run"` on 2 CPUs | a new process exits on another CPU before its creator sleeps |
| `Proc`, `"schd_run"` | a new thread was woken up by another thread of its process before its creator runs it |
| `Proc`, `"thread_wake"` | a thread is woken up that does not sleep |
| `Buddy`, `unset` | a block is divided when no slot is left |
| `IdxAlct`, `idx_failed` | after a deletion the wrong counts lead to an identifier in use, or to none |
| `Memory`, `"slab race"`, `"heap race"` | two threads take the same object or the same piece of heap, without a lock |
| `Memory`, `"slice assertion"` | two threads fault on the pages of one area; the second divides what is already divided |
| `Memory`, `pc = "spin"` | a fault finds that another thread has backed its page meanwhile, and loops for ever |
| `Memory`, `"window"`, `moved` | a page table is read through a window that another process has moved |
| `Memory`, `"fork assertion"` | a fork finds no page frame for the page directory |
| `Memory`, `ptb_leaked`, `vm_leaked` | `ptb_map` and `vm_fork` return with a lock held when page frames run out |
| `Services`, `leaked` | a registration, or a list of services, returns with the lock of the registry held |
| `Services`, `"srv tree race"` | `srv_call` searches without the lock while a service is inserted |
| `Services`, `"schd_run"` | a service is called twice before its listener runs |
| `Services`, `"path_cut assertion"`, `"wild read"` | `path_cut` has no memory, or its callers go by what it left in the register |
| `Services`, `"tree race"`, `"create assertion"` | two requests change one directory, or make the same file |
| `Services`, `"listener panic"`, `"called error"` | a listening thread has no memory for a request, or its service is not there |
| `Services`, `"overflow"` | a file appears between the count and the copy of the names of a directory |
| `Services`, `"wild write"`, `pc = "hung"` | a deletion goes by `ffile`, which nothing sets; a reply that failed leaves its caller waiting |

Also, between the assignments of `state` and `owner` in `msg_recieve` the sender's process
can delete the message that is being recieved. What the passing runs show holds up to the
moment at which the kernel stops itself.

Of the configuration tool, the properties or the instances leave out the following, which the
code does:

* A number out of its range in `.config` is replaced, and symbols calculated before from
  the old number are not calculated again.
* A tristate choice that was set to `y` counts as not seen when another value of it shows,
  and keeps its value only until the next calculation (`Forgetting`).
* `savedefconfig` leaves out a bool default of a tristate choice that is not optional.
* When the second rename of `conf_write` fails there is no `.config`, only `.config.old`; the
  changes stay counted, but the symbols count as written, and a second attempt writes only those
  that were calculated again since. `ConfigKept` is that `.config.old` then has what was saved
  last; the next program does not read it and starts from the defaults.
* Loading a file that is not there resets the count of changes, so edits that were not saved are
  dropped without a question. After another file was loaded, saves go to that file.
* A recursive dependency is reported, but the tool goes on when the check began at a symbol of
  the cycle; a range with a symbol as its bound is not part of the check.
* `conf_choice` asks for ever when the choice is `y` and none of its values can be taken
  (`InVain`).
* After a resize a box draws its first button while another stays chosen, and a menu that was
  entered scrolled is printed from its old first item, past the end of the list. A text whose
  last line has no newline moves when it is shifted to the side.

### Fairness

The scheduler loop executes without an end, and dispatches the head of a FIFO: `WF` for
the steps of a CPU. A timer tick that comes while interrupts are disabled stays pending:
`SF` for the timer interrupt. A thread that has started a call goes on with it whenever it
is dispatched long enough: `SF` for the steps of a thread, which in the modules above
`Sched` can be interrupted at any point. Nothing forces a thread to start a call. In
`Scheduler`, a thread that disabled interrupts enables them again. Most uses in the
kernel do so after a few statements; `proc_create_from_mm` sleeps in between, and `msg_recieve`
(`msg.c:225-233`) sleeps and locks a mutex, which is why `Msg` has `Stuck`.

A listening thread of the file server, and the threads of a request and of its caller, go on
(`WF` in `Services`): they are threads of the scheduler, which runs every runnable thread.
That a program makes a call is up to it. In `Kconfig` the user answers a question that can be
answered (`Answered`); a program that nobody answers waits.

## What is proved

TLAPS checks the following for every set of CPUs, threads, contexts, messages, boxes and
processes. No property below is inductive by itself; each module of proofs begins with the
inductive invariant `Inv` and the argument in words, has one lemma per action, and in it one
step per conjunct that the action can disturb. `Inv` was model-checked before it was proved.

* `SpinlockProofs`: `SpinlockMutualExclusion`, `SpinlockOwner` and `SpinlockIsFifo`.
  Assumption: there are no more contexts than tickets. The invariant ties the counters to
  the history queue: the context at place i drew the ticket `ticket_now + i - 1`, modulo
  the width. The queue is not longer than the number of contexts, so its tickets differ
  and only the head sees its own. That the queue is that short is a counting argument,
  lemma `QueueLength`.
* `SchedulerProofs`: `SchedulerTypeOK`, `SchedulerThreadsExact`, `SchedulerLockAndIrq` and
  `SchedulerKilledForGood`, also when threads kill each other; `SchedulerNoPanic`, if they
  do not; and `SchedulerImplementsSched`. Assumptions: the threads that boot are different
  threads and `NULL` is none. A thread is put on the runnable list while its CPU still is
  on its stack; what saves it is that this CPU is at the head of the queue of the
  scheduler lock until the switch is complete. `Inv` adds what each label says of task and
  stack (`StackInv`), who is in the queue of the lock (`LockInv`), the nesting of disabled
  interrupts of a thread that is not running (`NcliInv`), that a thread on a wait list is
  `BLOCKED` or holds the spinlock (`WaitInv`), and that nobody else is about to run a thread
  that one is about to run (`RunInv`).
* `MutexProofs`: `MutexHandOverSafe` and `MutexIsFifo`, from the assumptions of the
  scheduler. The threads that `count` has counted in stand in one line, `claims`
  (`ClaimsInv`). `wait_ls` is that line without the thread in front, if that one has the
  mutex, and without the one that has not pushed itself yet (`WaitInv`), which holds the
  spinlock (`LockInv`). So `mutex_unlock` finds the whole line on the list, asleep, and
  `owner` is the thread that it has chosen (`OwnerInv`).
* `BufProofs`: `BufFreeszExact`, `BufSleeperServed` and `BufReadInOrder`, for every size of
  the buffer. Assumption: one CPU, as nothing else protects `freesz`. The places behind `b`
  hold the characters behind the last one that was read, and the handlers in the queue of
  `writelock` carry the next ones in this order (`OrderInv`). A handler that cannot sleep
  where it is has the CPU (`HandlerInv`). A handler that sleeps for a place holds `writelock`, so
  no other one can touch `wblkt`, and what a reader found there is still the sleeper when it
  comes to wake it up. One exception to the order of the locks is named,
  `Stray`: a thread interrupted on its way to sleep is woken up in the place of its handler;
  the kernel then stops itself, in `mutex_lock` or in the `mutex_unlock` before it.
* `MsgProofs`: `MsgSleeperWakeable`, `MsgSentIsThere` and `MsgIsMailbox`, on any number of
  CPUs. What is deleted stays locked by the thread that deleted it, so a thread that found
  it before and locks it later waits for good, and one that holds a mutex holds that of an
  object that can be found (`FoundInv`). Who holds the spinlock of a mutex makes no
  difference to this: each step of the data is the one of the atomic mutex. One thread at
  most waits for a box: either the box is empty and knows it, or it was woken up and its message is still there (`WaitInv`).
* `ProcProofs`: `ProcWaiterSleeps` and `ProcExitKillsAll`, on any number of CPUs.
  Assumption on the constants: the threads that boot are each in one process. The walk of an
  exit leaves only killed threads behind it (`KillsInv`); no thread joins the list in front
  of it or behind it, because a loader is alone in its process until it has created the
  first user thread (`SetupInv`). So one thread reaches the wake-up of a process, once
  (`ExitedInv`). No `schd_run` of a new thread wakes a creator up, because the new
  thread is still `UNSCHDED` (`ChildInv`), so only the exit does (`WaitInv`). As the
  properties say, the first argument needs that the programs make no thread by
  `thread_sys_new`, the second that they do not call `thread_sys_wake`.
* `SchedTheorems`: each operation of `Sched` keeps the runnable list and the CPUs
  consistent and moves exactly one thread between two known states.
* `QueueTheorems`: what appending, taking the head and deleting do to membership, to places
  and to the absence of duplicates.

Only model-checked:

* liveness and fairness (`NoStarvation` and the like), and what is enabled, which are out of
  the prover's reach;
* `allocators` and `kconfig`: the red-black trees, the free trees of areas, the expressions,
  menus and symbols are recursive definitions, and what these compute for every input needs
  an induction over data that the prover cannot do. For the same reason the addresses in
  the tree of the buddy allocator, and with them that `Buddy` implements `Frames`;
* the invariants of `services`, for which there is no proof yet.

## Not modelled, and known limits

* Memory ordering: memory is taken as sequentially consistent. The spinlock and the mutex
  put `barrier()`, which includes an `mfence`, around their accesses.
* The spinlock inside a mutex is taken with interrupts enabled. Who spins for it with
  interrupts disabled waits for ever on one CPU if the holder was preempted. `Msg` shows this
  for `msg_recieve` (`Stuck`). The serial handler also locks a mutex with interrupts disabled,
  but `writelock` is locked by handlers alone, none of which is preempted while it holds the
  spinlock; so `Buf` uses the atomic mutex.
* `Buf` is about one CPU; on two, `freesz` has no common lock.
  A reader that finds the buffer empty and announces itself after the character arrived
  sleeps until the next one. A full buffer with a sleeping handler that holds the write
  mutex makes later handlers wait too.
* `ExitKillsAll` is checked for programs that create no thread by themselves: a thread
  that is appended when the walk of the exit is at the last element survives. It can exit
  the process a second time; `wait_t`, which is never reset, then wakes up the creator out
  of a later wait. `WaiterSleeps` names this case and shows that it is the only one.
* `WaiterReturns` is about a process that exits. If its creation runs out of memory, if it
  is killed, or if its last thread ends by itself, the code leaves the waiting thread asleep.
* The list of all processes, the new thread of a fork and the information calls are not in
  `Proc`; the memory of a fork is in `Memory`.
* `SearchExclusive` is about the searches under the lock of the registry.
* `Services` is about one CPU in one respect: on two, a call can also find its listener on the
  way to sleep, which is the panic that `Msg` has (`"schd_run"` on 2 CPUs).
* `OwnerNeverWrong` allows `owner` to be `NULL` while the lock is held: the late clear of
  `spin_unlock` may erase the name of the next holder.
* `ExitKillsAll` says nothing of `proc_sys_kill`, which wakes nobody up.
* `Memory` has no free: the bodies of `kmfree` and `umfree` are empty in the code.
* The user library wraps system calls; its mutex, which no program of the repository takes,
  makes a waiter visible before it blocks and would stop the kernel through
  `thread_sys_wake`, as `Proc` shows for any program.
* Boot, descriptor tables, APIC programming, the log, strings, the ELF loader and the
  devices are sequential input and output. The table of system calls is filled at boot. The
  shell and the other programs make system calls one after the other; the modules let every
  thread make any call at any time.
* Of the configuration tool: the scanner, string and environment symbols, help texts, colours
  and layout, and the handler of `SIGINT` in `mconf.c`, which writes the configuration from
  whatever state it interrupts. `nconf`, `gconf` and `qconf` repeat what `mconf` does behind
  the widgets of libraries that the repository does not contain. `scripts/basic` and
  `kxgettext.c` are filters from one file to another.
