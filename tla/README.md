# MY_AT_NANO_PRO: specification, model checking and proofs

The repository is the firmware of an STM32F103 board (`src/RTT_NANAO_AT`): an AT
command server that talks to a Bluetooth module over USART1, on the RT-Thread
Nano kernel, one Cortex-M3 core, with the serial port of the console on UART4.
This directory holds TLA+ modules of the server and of the kernel it stands on,
TLC configurations that check them on small instances, and proofs that TLAPS
checks for every value of the constants.  `P/` below stands for
`src/RTT_NANAO_AT/`.

    tlc -workers 2 -config AtServerSafety.cfg AtServer.tla     # a run
    tlapm AtServerProofs.tla                                   # a proof

`PROJECT.json` lists components, runs, mutants, the lines each definition
stands for, the findings, the hazards and the theorems.

## 1  The system

| component | state it keeps | operations | talks to | modelled by |
|---|---|---|---|---|
| AT command server (`P/applications/myat_sever.c`) | `ATCurrentCmdNum`, `ATNextCmdNum`, `ATRecCmdNum`, `CurrentRty`, `at_timeout_cnt` | `ATSend`, `at_process_entry`, `Rec_WaitAT`, `at_send_thread_entry`, shell command `at_comtest` | event object `rx1_event`; `timer2`; USART1; `process_buff` | AtServer |
| Serial receive path (`usart.c`, `stm32f1xx_it.c`) | DMA ring, `q_front`, `q_rear`, `process_buff`, `process_p`, `process_buff_p` | idle-line interrupt, `serial_entry` | `rx1_event` to at_process; echo to UART4 | UartRx, ByteStream, AtServer (whole packets) |
| Application timers (`my_timer.c`) | `timer1`, `timer2` | `timeout1`, `timeout2` in SysTick | `rx1_event` | AtServer, Timer |
| Scheduler (`P/rt-thread/src/scheduler.c`, `irq.c`, `clock.c`, `context_gcc.S`) | ready table, bitmap, current thread, lock, pending switch | `rt_schedule`, insert, remove, critical sections, SysTick, PendSV | everything | Scheduler |
| Threads (`thread.c`, `idle.c`) | state, priority, time slice, thread timer | startup, suspend, resume, yield, sleep, control, exit, delete | scheduler, timers | Scheduler, Mutex, IpcObject |
| Kernel timers (`timer.c`) | ordered lists of hard and soft timers, tick, flags | start, stop, `rt_timer_check`, timer thread | SysTick, callers' callbacks | Timer, SoftTimer |
| Event objects (`ipc.c`) | a set of bits, waiting threads | send, recv, reset | scheduler, thread timers | Event, AtServer |
| Mutexes (`ipc.c`) | value, owner, hold, original priority, waiting threads | take, release | scheduler, thread timers | Mutex |
| Semaphores, mailboxes (`ipc.c`) | counts, ring of mails, waiting threads | take/release, send/recv, reset | scheduler, thread timers | Semaphore, Mailbox, BoundedQueue, Ipc |
| Heap (`mem.c`) | block list, `lfree` | malloc, calloc, realloc, free | a semaphore | Heap, Allocator |
| Kernel objects and services (`object.c`, `kservice.c`) | object lists | init, detach, strings, printing | all | `rt_memset` in UartRx |
| Start-up (`components.c`, `main.c`, `board.c`) | - | initialisation in `main` | all | the Init of each module |
| Shell (`finsh`) | line, history | line editing, commands | console device | `at_comtest` only |
| Not compiled: message queues, memheap, mempool, slab; not ours: HAL, CMSIS, other ports, build tools; no state: pin and DMA set-up | | | | not modelled |

How they work together.  `at_comtest` calls `ATSend`, which notes the command,
loads `at_timeout_cnt`, starts `timer2` and sets the SEND bit; at_send_thread
transmits.  The answer arrives by DMA; the idle-line interrupt publishes
`q_front` and sets REC; serial copies the ring into `process_buff` and sets
PROCESS; at_process searches the text for the keyword of the command, stops the
timeout and sets ACK, for which `at_comtest` waits before the next command.
`timer2` counts `at_timeout_cnt` down in SysTick and sets TIMEOUT at zero;
at_process then transmits again, and after `RtyNum` retries resets the module.
serial (priority 3) preempts at_process (4), which preempts at_send (5), which
preempts the shell (20); interrupts preempt them all.

What is hard, and where it is looked at:

* preemption between the assignments of `ATSend` and between the two critical
  sections of `rt_timer_start`: AtServer, Timer;
* a packet, a timeout and an acknowledgement in any order, and several events in
  one receive: AtServer;
* an answer lost, late, or to a command that was given up: AtServer;
* reading or erasing a buffer another thread is filling, a full packet, an
  overrun ring: UartRx;
* interrupts that change their mind while a context switch is pending, the
  scheduler lock, reclaiming a dead thread's stack: Scheduler;
* a tick counter that wraps, timers started late or stopped by their own
  callback, two threads at one timer: Timer;
* a timer thread that decides to sleep while timers are started: SoftTimer;
* priority inheritance with timeouts and with two mutexes: Mutex;
* a thread that was woken and finds that another one was faster, or whose
  timeout fires before it runs; a loop that takes threads off the list it walks:
  Semaphore, Mailbox and Event, composed in Ipc;
* long sequences of splitting and merging, and a realloc that lets others in
  between its malloc and its free: Heap.

What makes each component correct is stated by its properties, in section 3.

## 2  The modules

All modules share the convention that one action is a stretch of code during
which nothing it reads or writes can change: code with interrupts disabled, or
a single access to shared memory.  Every other boundary is a place where
another thread or an interrupt may come in.

**AtServer.**  `pc[t]` is the next stretch of thread t, "wait" a thread in the
waiting list of `rx1_event`.  `Running` is the scheduler seen from above: the
highest-priority thread that is not blocked, unless `lock` holds it off (this
is what Scheduler's HighestRuns and LockKeepsCpu establish of the kernel).
`EventSend` and `EventRecv` are `rt_event_send` and `rt_event_recv` with the
options the application passes.  A packet is the reply to a command or noise,
and `KeywordsIn` says which of the keywords `strstr` finds in it.  `air` holds
commands the Bluetooth module has received; `Reply`, `Mute` and `Chatter` are
that module: it is an environment, and nothing of it is in the repository.
`tries`, `answered`, `dropped` and `fresh` are history variables that no guard
reads.  Here, and only here, the convention is given up for the text: copying,
searching and clearing `process_buff` are a step each, a packet is there or is
not; what comes of it when they preempt each other is UartRx.

**UartRx** is the receive path byte by byte; the bytes are their numbers in the
stream, 0 the empty byte.  `strstr` (Scan) and `rt_memset` (ClearByte) of
at_process touch `process_buff` a byte a step, with `reached` as their pointer, so
that serial may come in before each byte.  Which byte ends a match is left open.
`seen`, `again`, `text` and `spoilt` are history variables: what the last scan has
read, and when it began.  **ByteStream** is what it promises: each byte once
and in order.  `ImplementsStream` is the refinement, with `written` as sent,
`taken` as read and `got` as the byte last handed out.

**Scheduler** has the ready table with its bitmap, `rt_schedule`, the pending
switch (`rt_thread_switch_interrupt_flag`, from, to), PendSV, the scheduler
lock, the time slice, and the thread operations that change the table.
`cur` is `rt_current_thread`, `cpu` the thread whose registers the CPU holds:
they differ exactly while a switch is pending.  `isr` cuts SysTick at its two
calls of `rt_schedule`.  MCScheduler gives the threads of the runs.

**Timer** has the ordered list, start and stop in the sections the code runs
with interrupts disabled, and `rt_timer_check`.  The tick is taken modulo
`TickMod`, and expiry is the code's unsigned difference.  `due` is the time
that is really left, counted without the modulus; the properties compare the
two.  **SoftTimer** extends it with the timer thread of soft timers: the steps
of `rt_thread_timer_entry` and `rt_soft_timer_check`, its sleep, and the resume
at the end of `rt_timer_start`.  A program there has timers of one kind, which
`soft` tells; MCTimer gives the timers and their users.

**Mutex** has take and release with their sections, priority inheritance, the
waiting lists of both kinds, and the threads that use mutexes: they sleep, wait
with or without a timeout, and are preempted.  The ready table is seen from
above (`Reschedule` picks a ready thread of the highest priority; which one of
several equals is left open).  `pc` says where in a call a thread is: about to
call `rt_schedule`, or behind it and about to look at its `error`.  `inside` is
what the callers believe: who got RT_EOK and has not released.  MCMutex gives
the threads of the runs.

**WaitingList** has the list operations that Scheduler, Timer, Mutex and the IPC
modules share: insertion at a place, by order of arrival or of priority, removal;
and what it means that nobody loses the turn from one list to the next (`InTurn`).

**IpcObject** is what semaphore, mailbox and event have in common: threads of
fixed priority, each in at most one call, its `thread_timer`, the waiting lists,
and `rt_schedule` behind the section that made a thread ready (at once in an
interrupt, a step of its own in a thread).  `call[t]` holds what the function
keeps in its local variables and in the thread: the list, the mail or the mask,
and `error`.  A thread is *woken* if it was resumed without an error and has not
looked yet.  **Semaphore**, **Mailbox** and **Event** add one object each, every
function cut at its `rt_hw_interrupt_enable`; **Ipc** composes the three, which
meet in the threads: a thread waits in one of them at a time, and a reset, a
timeout or a release anywhere changes who runs.  The loop of `rt_event_send`
runs with interrupts disabled, a step per thread of the list (`loop`), so that a
removal in it is visible to its next step.  **BoundedQueue** is what a mailbox
promises; `ImplementsQueue` is the refinement, with `Inside`, the mails between
the two offsets, as the queue.  `balance`, `wrapped` and `got` are history variables.

**Heap** is `mem.c`: the list of headers by address, `lfree`, first fit,
splitting and `plug_holes`, and threads that call malloc, free and realloc.  What
`heap_sem` protects is one step (that it lets one thread in is TokensKept of
Semaphore with the value 1); a realloc that moves a block gives the semaphore up
three times and is three steps.  Addresses and sizes count words of
RT_ALIGN_SIZE bytes; the contents of blocks are left out.  **Allocator** is what
a heap promises: threads own regions of the memory that have no word in common;
they get one that nobody owns, give one back, or get another size in place.
`ImplementsAllocator` is the refinement: a thread owns, for each block it holds,
the words it asked for (`asked`, a history variable), wherever the headers are.

**AtServerProofs**, **UartRxProofs**, **SchedulerProofs**, **MutexProofs**,
**TimerProofs**, **IpcProofs**, **HeapProofs** and **WaitingListProofs** hold the
theorems.

## 3  The runs

| run | asks | size |
|---|---|---|
| at_safety | see below | 2 commands, 1 retry, timeout of 2 periods, one noise packet, one lost answer; 2.6 million states |
| at_live | does `at_comtest` end? | up to 3 lost answers |
| at_supervised | violated: finding 1 | as at_safety |
| at_ack | violated: finding 2 | 3 lost answers, no noise |
| uart_stream | the byte stream, indices, wake-ups, what is scanned, is the ring drained? | ring of 4, packet of 2, 9 bytes; 1.6 million states |
| sched_safety | ready table, switch, priorities, dead stacks, lock, turns | 2 threads that start each other, and idle, 3 priorities, time slice of 2, one level of lock; 0.16 million states |
| timer_safety | order, punctuality, stopping, waking the timer thread | 3 timers, hard or soft, 2 threads, tick modulo 10; 4.4 million states |
| mutex_safety | fields, truth of take, inversion, restored priorities, hand-over | 4 threads, 1 PRIO mutex, taken up to twice; 0.8 million states |
| mutex_nested | violated: finding 3 | 3 threads, a PRIO and a FIFO mutex |
| ipc | tokens, lost wake-ups, the mailbox as a queue, one taker per bit, turns | 3 threads and interrupts; a semaphore of width 3, also with a mailbox of 2, or an event of 2 bits; 1.1 million states |
| heap | one sound list, nobody's memory is another's, nothing lost, first fit finds | 2 threads, 21 words, headers of 3; 0.6 million states |
| heap_lowest | violated: finding 4 | as heap |

**at_safety.**  NoLostWakeup: no thread sleeps on a bit that is set.
TimerStartExclusive: at_process, which preempts the shell inside its
`rt_timer_start` of the same timer, never starts that timer itself then.
RetryBound and ResetOnlyAfterRetries: a command is transmitted at most
1 + RtyNum times, and the module is reset after exactly that many, although
`CurrentRty` is written by two threads and read by a third path.
SupervisedUnlessDropped: whoever waits for an acknowledgement is covered by a
running timeout, unless a TIMEOUT was dropped (finding 1).  AckOfNewText: one
text is not acknowledged twice.

*Bounds.*  Two commands make the acknowledgement of one meet the sending of the
next; one retry makes all three branches of at_process reachable (answer,
retry, reset); a timeout of two periods with at most one period of CPU work
lets the timeout fall into any stretch of code while the machine still gets
idle between two timeouts, as 5 s against a few ms do on the board; one noise
packet and one lost answer give every pair of orders of packet, noise and
timeout.  The state space is larger with more but no new branch opens: the
proofs of section 5 hold for all values.

**at_live** assumes a module that answers within the timeout or not at all
(Prompt) and sends no noise.  Both assumptions are needed: with either dropped
the run leads into findings 1 or 2.  Fairness: the CPU executes, the user types
the command, SysTick ticks, what is not lost is answered.  No fairness is
assumed between the threads: their priorities are modelled.

**uart_stream** paces the line so that the ring never holds 512 (here 4) unread
bytes; the code has no other protection.  LastPacketSeen: at_process begins a scan
after the last byte that serial has read, before both sleep.  ScanNotTorn: a scan
that serial does not preempt (`seen = taken` until its end) reads the packet as it
was sent, or a 0 because the packet was scanned before and erased.  The rest can
really happen: a scan that serial preempts may read the
front of one packet and the rest of the next, which is why another one must
follow; and an `rt_memset` that serial preempts, or that answers a match in a
preempted scan, may erase a packet before any scan read it (`spoilt`; section 4).
Drained: when the module falls silent, serial has read everything or
stopped at a full `process_buff`: the rest of a packet of more than 196 bytes
waits for the next idle line.  Fairness: the line goes idle after the last byte,
the interrupt is served, and the CPU runs one of the two threads.
The run has the paced line only.  With the ring overrun the indices, the wake-ups
and the last scan are covered by proofs alone: TypeCorrect, NoBytesForgotten and
LastPacketIsSeen do not assume `Paced`.  A ring of 4
and a packet of 2 let the indices wrap twice within 9 bytes and every packet
length around the limit occur.  Deadlock is not checked: when the line has
fallen silent and everything is read, nothing is left to do.

**sched_safety.**  SchedulerOK (a bit for every list that is not empty, each
ready thread once in the list of its priority), SwitchIsConsistent (however
often interrupts change the target of a pending switch, PendSV saves the thread
that runs and loads `rt_current_thread`), HighestRuns, NoUseAfterFree,
LockKeepsCpu.  Two threads and idle are the one that runs, the one an interrupt
wakes in between, and the one that reclaims; they share a priority until one of
them changes it, and each may start, suspend, resume and delete the other.  The
proofs of section 5 hold for any number of threads, priorities and levels of the
lock.  `Handled` and the guard of SuspendOther are bounds on the program: two
threads do not resume or delete one thread at the same time, and a thread
suspends another one only with the scheduler locked.  RoundRobin needs strong
fairness of SysTick and of PendSV per thread: a tick does not always hit the few
cycles between pending PendSV and taking it.  `Sleepers = FALSE` leaves out the
deletion of a thread whose timer runs (section 4).

**timer_safety.**  TimersOK, NeverEarly and HardNeverLate compare the list with
the true remaining times across the wrap (TickMod 10 wraps many times; the
code's 2^32 enters only through "less than half the counter").  A thread that is
preempted inside `rt_timer_start` inserts its timer late (`MaxLate`), and it
then fires at the next tick.  StopStops: a timer that was stopped, also by its
own timeout function, does not fire until it is started again.  AwakeInTime: the
timer thread does not sleep past the time of the first soft timer, whatever is
started and stopped while it goes to sleep; it excepts `collided` (section 4).
The users of soft timers are below the timer thread (`Above` is empty), and each
timer has one user.  The application keeps to that: `timer1` is started by one
thread, and `timer2`, which two threads start, never by both at once
(TimerStartExclusive), so that they count as one user.

**mutex_safety.**  TakeIsTrue: a wait ends by a release that hands the mutex
over or by the timeout, in SysTick, and the thread looks at `error` only when it
runs again; what it then returns is true.  Exclusive says the same of what
callers believe, MutexOK of the fields and lists; for several mutexes, of both
kinds, the proofs of section 5 show them.  NoInversion is a consequence of
inheritance and scheduling together.  HandedInTurn: a release hands the mutex to
the first of the list, and nobody gets in front of a thread that waits already
but by a higher priority.  Four threads are an owner, two that wait,
and one between them that would cause the inversion.  The run has one mutex,
because inheritance through several is not what the code does (finding 3; also,
releasing the inner of two mutexes drops what came in through the outer one, and
inheritance does not pass on to the owner of a second mutex).  Deadlock is not
checked in **mutex_nested**: threads may deadlock on two mutexes, in the code as
in the model.

**ipc.**  TokensKept counts the releases minus the takes that returned RT_EOK:
what is not taken is in the value, or on its way to a woken thread, through
timeouts and resets.  That ends when the 16-bit value wraps, which
`rt_sem_release` does not prevent (`wrapped`, section 4), and begins anew with a
reset; the model goes on behind the wrap, and the other properties hold there too.
The run lets it wrap in programs that use the semaphore alone (`"wraps"` in
`use`): to the mailbox a wrapped value is a value like any other.
NobodyWaitsInVain: a woken receiver may find that another thread took the mail
and waits again; still there is a woken thread for each mail inside while
anybody waits for one, and likewise for places; no thread waits for a token or
for bits that are there.  EventsAreTaken: the loop of `rt_event_send` clears bits
while it goes through the threads that want them.  ServedInTurn: a release, a
send or a receive serves the first of the list, and nobody is overtaken in it but
by a higher priority; the loop of `rt_event_send` alone resumes threads further
behind, and those in front keep their places.  IpcOK: each list holds
exactly the threads that wait in it, once each, and only a suspended thread has
its timer running.  Three threads, two of them of one priority, are one that
waits, one that overtakes it, and one that sends; the mailbox of 2 is full,
partly filled and empty, and its offsets wrap.  A program of the run uses the
semaphore and the mailbox, the semaphore alone, or the event: an object disturbs
the others only through the threads, and the proofs of section 5 cover all three
together.
Every wait has a timeout (`Timed = {TRUE}`), which may be never: a wait for ever
is one whose timeout does not come.  Deadlock is checked and cannot occur,
because an interrupt may always call.

**heap.**  HeapOK: from each header to the next and back, no two free
neighbours, `lfree` free or the end (`rt_malloc` asserts it); the blocks in use are those
the threads hold, each one thread's, large enough for what was asked.
ImplementsAllocator: each step gives a thread words that nobody owned, takes
words from it, or gives it another size where they are, whatever happens to the
list; a realloc that moves is a malloc and a free with other threads in between.
FoundIfThere: a block that fits is found.  21 words hold four
blocks of the smallest size, so that there are blocks with used and free
neighbours on both sides, and the sizes 1, 4, 6 and 10 meet the rounding up to
MIN_SIZE, the split that is just possible and the one that is not.
**heap_lowest** is finding 4.

Every property has a mutant of the code in PROJECT.json (a dropped guard, a
missing reset, an off-by-one) that makes the run fail.  The mutated operators
stand in the modules next to the originals, marked "mutant".

## 4  Findings

1. `at_process_entry` handles PROCESS and TIMEOUT with `if ... else if`
   (`P/applications/myat_sever.c:93`).  When both are received together and the
   packet does not match, the timeout is gone: `timeout2` has stopped `timer2`,
   nothing retransmits, and `at_comtest`, which waits for ever, hangs
   (at_supervised).
2. After the last retry the module is reset with `ATSend(AT_REST)`.  Its OK sets
   the bit `at_comtest` waits for, which goes on as if its own command had been
   answered (at_ack).
3. `rt_mutex_take` notes the current priority as the original one, also when it
   is inherited.  A thread that takes A, inherits, takes B, releases A, releases
   B keeps the inherited priority for ever (`P/rt-thread/src/ipc.c:832`,
   mutex_nested).  The function is compiled in; no thread of the application
   holds two mutexes.
4. `rt_realloc` that makes a block smaller leaves `lfree` above the block it has
   freed (`P/rt-thread/src/mem.c:480`): `rt_malloc`, which searches upwards from
   there, may return RT_NULL although the memory is free (heap_lowest).

Met while modelling, not made into runs:

* serial, of the higher priority, copies into `process_buff` while at_process reads
  it (`P/applications/usart.c:179`, `P/applications/myat_sever.c:199`).  A preempted
  `strstr` may find its keyword in the front of one packet and the rest of the
  next; the `rt_memset` that follows, or one that serial preempts, erases the new
  packet, or its rest, before any scan has read it.  PROCESS is set again, but the
  next scan then finds nothing, and the answer is lost as on the air.
* `rt_sem_release` increments the 16-bit value without looking
  (`P/rt-thread/src/ipc.c:459`): the release of a semaphore with 65535 tokens
  returns RT_EOK and leaves it with none.  Nothing in the repository counts on a
  semaphore that far.
* `rt_timer_stop` clears RT_TIMER_FLAG_ACTIVATED after it has enabled interrupts
  (`P/rt-thread/src/timer.c:444`).  If another thread starts the timer there, it
  is in the list without the flag, every later stop is refused, and the timer
  fires.  No thread of this application stops a timer that another one starts:
  `timer1` and `timer2` are stopped by their timeout functions (and `timer2` once
  before anything starts it).
* `rt_mutex_release` lowers the priority of the running thread and calls
  `rt_schedule` only if it has woken a waiting thread
  (`P/rt-thread/src/ipc.c:872`).  If the thread the priority came from has given
  up by timeout, the releasing thread runs on below ready threads of higher
  priority until something else calls `rt_schedule`.
* `rt_thread_timer_entry` looks at the list of soft timers, and then suspends
  itself (`P/rt-thread/src/timer.c:646`).  A thread of higher priority than the
  timer thread (RT_TIMER_THREAD_PRIO is 8, serial has 3, at_process 4) would start
  a timer in between in vain: with `Above = {high}` TLC finds AwakeInTime violated.
  The application has no soft timer.
* `rt_timer_list_next_timeout` returns RT_TICK_MAX for "no timer", which is also
  a tick: a first timer that is due then lets the timer thread suspend itself
  (`collided`), until another timer is started.
* `rt_soft_timer_check` unlocks the scheduler for the timeout function, locks it
  again and then goes on with `n` and `t` from before.  A one-shot timer that its own
  timeout function starts again loses RT_TIMER_FLAG_ACTIVATED behind it
  (`P/rt-thread/src/timer.c:627`) and cannot be stopped; a function that stops
  another timer may leave the iterator on it.  The timeout functions of the run
  stop at most their own timer.
* `rt_thread_delete` takes a suspended thread off its list and then stops its
  timer (`P/rt-thread/src/thread.c:419`).  If the timeout fires in between, the
  thread is ready again, and is then closed and freed while it stands in the
  ready table: with `Sleepers = TRUE` TLC finds NoUseAfterFree violated.  Nothing
  in the application deletes a thread.
* `rt_thread_suspend` of another thread looks at its state before it disables
  interrupts, and `rt_thread_resume` enables them between the suspend list and
  the ready list: without the scheduler lock the other thread may have gone to
  wait meanwhile, and a second resume links it twice.
* The search of `rt_malloc` ends before `mem_size_aligned - size`: a free block at
  the end of the heap that fits exactly is not found.  `rt_realloc` to a size that
  is a little smaller moves the block, and fails when there is no room for the
  copy; the block it splits off may be below MIN_SIZE_ALIGNED.
* `rt_event_detach`, `rt_sem_delete` and the like call `rt_ipc_list_resume_all`,
  which looks whether the list is empty with interrupts enabled.
* The command table has a column TimeOut ("超时时间（10ms单位",
  `P/applications/myat_sever.h:37`), 200 for each command; `ATSend` uses the
  constant 500 instead.

## 5  Proofs

Assumptions are those of the modules (CmdAssumption, RtyAssumption,
TimeAssumption, DeviceAssumption; SizeAssumption, EnvAssumption;
ThreadAssumption, TickAssumption; TimerAssumption, SoftAssumption;
MutexAssumption; IpcAssumption, SemAssumption, MailAssumption, EventAssumption;
HeapAssumption), which TLC evaluates in the runs.  The restrictions beyond them are stated in the theorems: `NoConb` in
AcksAreOfNewText, `Paced` in StreamCorrect and ScansAreWhole, `Sleepers = FALSE`
in those about Scheduler, `Own` and `Apart` in those about timers; a discipline of
the program where the findings are about leaving it (NoReset and NoLateRetry,
InOrder and LowestLast, `~shrunk`).

*AtServerProofs*
* TypeCorrect.  TypeOK is inductive together with LockInv (a thread holds the
  scheduler lock exactly between enter and exit) and RetryInv (nobody resends
  with no retry left: otherwise `CurrentRty - 1` leaves its range).
* NoWakeupIsLost.  A step receives, sends or leaves the event alone
  (StepKinds); each kind preserves WakeInv.
* TimerStartedOnce.  ExclInv says that whenever a TIMEOUT is on its way to
  at_process, `timer2` is off and the counter is zero, so that the thread that
  would start the timer has no reason to run while another one does.
* WaitIsSupervised.  SupInv: a waiting shell is covered by a running timeout, a
  bit on its way, or a thread on its way, unless a TIMEOUT was dropped.
* AcksAreOfNewText.  FreshInv: without a new packet `process_buff` holds nothing
  to match.  For AT_CONB, whose case of the switch does not clear the buffer,
  the argument fails, hence the assumption.
* RetriesBounded and ResetIsLast.  Two invariants carry the count.  OneTransmission:
  between the TIMEOUT and the end of the transmission it leads to no second
  TIMEOUT arises and no thread is in ATSend; it holds because `at_timeout_cnt`
  was set at the start and the CPU has not been idle since (CountInv), and one
  burst of work is shorter than the timeout (TimeAssumption).  CountsInv: at each
  place of that way, `tries` plus `CurrentRty` says how many transmissions are
  left, and `ATCurrentCmdNum # ATNextCmdNum` tells a first one from a repetition.

* AnswersAreForCommand is finding 2 turned round: what exactly must not happen for
  AckIsForCommand to hold.  At_process must not give a command up (NoReset), and
  must not resend one that the module still answers or has answered already
  (NoLateRetry); packets without a keyword, lost commands and retries in time
  then do no harm.  Dropping any part of the premise makes it false, as TLC shows.
  AnswerInv says that the module owes one answer at a time: from ATSend to the
  transmission nothing is owed and no old text is anywhere between the ring and
  `process_buff` (OwedInv); the current command is at_comtest's (CommandInv); an
  acknowledgement stands for an answer that has been given, and leaves no text
  behind that could be acknowledged again (AnnounceInv).

*UartRxProofs*
* TypeCorrect: for all sizes, overrun included, no index leaves its array.
* StreamCorrect: the refinement, step by step.  RingOK says where each unread
  byte lies: byte k at index (k-1) modulo the size; the lemmas on arithmetic
  modulo n at the top carry it over the wrap.
* ScansAreWhole, for scans that serial does not preempt.  PacketOK says what
  `process_buff` holds at each place of the two threads: while serial copies, its
  front is the last `process_p` bytes of the stream; once the packet is handed over,
  it is whole, unless a scan of it has begun and at_process is erasing it from the
  front, or has.  ScanOK: a scan that has gone beyond its first byte, and has not
  been preempted, has found the packet whole so far.
* NoBytesForgotten and LastPacketIsSeen, from the invariants Announced and
  Handed: what was published after the last look, or handed over after the last
  scan began, is still announced by a bit.

*SchedulerProofs*, without the deletion of a thread whose timer runs (section 4)
* ReadyTableConsistent, SwitchConsistent, NothingFreedIsUsed, FirstOfTheHighestRuns
  and LockKeepsTheCpu follow from one invariant IInv.  Its parts: the table
  (each list holds the ready threads of its priority, each once, and a bit is set
  exactly for a list that is not empty), TargetsOK (what a startup, resume or
  delete that is under way may assume of the thread it is about, between its
  sections), StatesOK (a closed thread is in no list, has no timer, and is
  defunct or freed), CurrentOK (which states the current thread can be in before
  its next `rt_schedule`), FirstIsCurrent (the current thread is the first of the
  highest priority unless a call of `rt_schedule` is still to come) and the two
  properties about the switch and dead stacks, which need each other: a thread
  may only be freed because PendSV has left its stack, and PendSV only loads what
  is ready because nothing ready is freed.
* TopIsChosen and TurnsAreKept are about steps and have no run of their own.  What
  Mutex and IpcObject take for granted of the scheduler is the first (their
  `Reschedule` picks a ready thread of the highest priority); the second is the
  safety half of RoundRobin: in a ready list nobody gets in front of another
  thread, except of one that gives way.  AppendedAhead, InsertOrder, RemoveOrder
  and RotateOrder say what each operation on a list does to its order.

*TimerProofs*, for timers of one user each (`Own`), those of soft timers below the
timer thread (`Apart`)
* ListInOrder, NoTimerIsLeft, StopMeansStopped, ThreadWakesInTime and
  NoTimerIsEarly follow from one invariant IInv, for every number of timers, all
  intervals and every width of the tick counter.  Its core is TimesOK: the
  timeout of each timer whose time runs is the tick `due` ticks ahead, and `due`
  is so near (at most MaxLate + 1 behind, InitTick ahead) that any two differ by
  less than half the counter.  Hence PlaceRight: the code's comparison of ticks
  finds the place where the true times want the timer, on either side of a wrap.
  The lemmas at the top carry that over the modulus.
* The other parts: ListOK (order, each timer once, activated, not stopped),
  CallsOK (a timer that is being started, or was just taken off, is in no list;
  a thread that inserts late is not later than MaxLate), LateOK, FiringOK (the
  timer thread's `t` is in no list, its `n` is in the list and was seen at
  `current_tick`, which may be older than now) and SleepOK, which follows the
  timer thread from its look at the list into its sleep: each later start is
  about to resume it.

*MutexProofs*
* TypeCorrect, FieldsAgree, TakeReturnsTheTruth and MutualExclusion are four
  conjuncts, or consequences, of one invariant IInv.  It adds to the properties:
  ThreadsOK (who is suspended wants something, and the CPU stays with a
  suspended thread only until its `rt_schedule`), OwnersOK (an owned mutex has an
  original priority that is one), WaitOK (a waiting thread has no error and is
  not the owner; one whose wait is over owns the mutex or has an error).  WaitOK
  is what makes the rest inductive: it holds from the section that ends the wait
  to the moment the thread looks.
* The lemmas on waiting lists (SuspendedList, RemovedList, TailList) say what
  each change of a list does to the set of its threads and that no thread gets
  in twice.  The assumption is MutexAssumption.
* PriorityRestored, NothingOvertakes and FirstGetsIt have a second invariant,
  PInv, beside IInv, and the premise OneMutex (FirstGetsIt, which holds for any
  number of FIFO mutexes, has it for PRIO ones): with two mutexes they are false,
  as run **mutex_nested** shows.  Remembered: the owner alone may have another
  priority than its own, and the mutex remembers it.  ListsSorted (of a PRIO
  mutex, by the priorities given; SuspendedInOrder, RemovedInOrder and
  TailInOrder are the lemmas on lists) makes the new owner at least as high as
  those who go on waiting, so that Inherited survives a release; NothingOvertakes
  therefore needs AllByPriority, the first of a FIFO list may be lower than the
  second.  HighestWhileWaiting is weaker than "the highest ready thread runs",
  which is false after rt_mutex_release with nobody waiting: the thread falls
  back to its own priority without rt_schedule.  While a thread waits, though,
  the one that runs was chosen after that release.

* For any number of mutexes.  NeverDemoted, without a premise: whatever is nested, no
  thread is left below its own priority.  RestoredInOrder is finding 3 turned
  round: threads that take their mutexes in the order of some rank and release the
  lowest one last have their own priority again when they own none
  (LowestRemembers: the mutex a thread took first remembers the priority it was
  given).  NoDeadlock: threads that take mutexes in the order of a rank never wait
  in a circle; Ascending is its invariant, and a circle would have a highest rank
  that is waited for (Largest, by counting, since there is no induction).

*IpcProofs*
* NobodyIsOvertaken.  TurnStep: every section inserts one thread in its
  place, removes one, or empties a list, and WaitingListProofs has for each of
  these what it does to the order (SuspendedInTurn, KeepsInTurn, RemovedKeeps,
  TailKeeps).  With PRIO the place found is right because the list is sorted.
* ObjectsAreSound, NoTokenIsLost, NoWakeUpIsLost, EventsReachOneTaker and
  MailboxIsAQueue, for any threads, sizes and widths.  The lemmas SuspendStep,
  LeaveStep, ResumeStep, ReturnStep, TimeoutStep and ResumeAllStep say what each
  section does to the lists and to the woken threads.  Each object has its part
  of the invariant, which its own steps keep (SemStep, MbStep, EvStep), and which
  the steps of the others keep because their threads are Undisturbed; the
  composition is one case per object.
* The semaphore needs TokensKept, which says nothing behind a wrap of the value,
  and NoWaitWithToken together.  The mailbox needs
  the ring (`in_offset` is `out_offset + entry` modulo the size, RingOK) and the
  two counts of woken threads, MailsAreFetched and PlacesAreFilled: a wake-up that
  is used up by a faster thread is matched by the mail it took.  The event needs
  LoopOK: the threads in front of the one the loop looks at want what is not
  there, also after bits were cleared, and what a woken thread has cleared is not
  set.
* MailboxIsAQueue maps Put to an append behind `Inside`, Get to its head and tail,
  over the wrap of both offsets.

*HeapProofs*
* HeapIsSound, HeapIsAllocator and MallocFinds, for every size of heap, header,
  smallest block and request.  The list needs the way back from each block as
  well as the way forth (Sound): `plug_holes` goes both ways.  MarkStep,
  SplitStep and MergeStep show that each operation on the list keeps it sound;
  ForwardStep and BackwardStep that `plug_holes` leaves no two free neighbours
  when the only ones are at its block; Leaves is what a step does not do to the
  other blocks, from which the threads' memory follows (HeldTakes, HeldGives).
* HeapIsAllocator maps Malloc and MoveMalloc to the allocator's Malloc, Free and
  MoveFree to its Return, Shrink to Resize, and the rest to no step (OwnsMore,
  OwnsLess, OwnsOther).  That the new words are nobody's follows from the
  invariant after the step: the data of a block ends before the next header
  (WordsApart), and the blocks others hold are where they were.
* MallocFinds rests on `lfree` being the lowest free block, an invariant until
  `rt_realloc` makes a block smaller (finding 4); hence its premise `~shrunk`.
  LowestUntilShrunk states that by itself: no other call breaks the comment on
  `lfree`.

Only model-checked: the liveness properties (TLAPS cannot do fairness and
ENABLED).  Induction over recursively defined data is out of the provers' reach
as well; the modules use no RECURSIVE operator.

## 6  Not modelled

* `rt_*_detach` and `rt_*_delete` of IPC objects and timers: they resume or remove
  like the resets and `rt_timer_stop` that are modelled, and nothing in the
  repository calls them.  `rt_thread_detach` differs from `rt_thread_delete` in
  what idle frees.
* Message queues, memheap, mempool and slab are switched off in rtconfig.h and are
  not compiled; RT_TIMER_SKIP_LIST_LEVEL is 1.
* The object lists of `object.c` are written at start-up, on one thread, and read
  by the list commands of the shell only.  Start-up itself is the Init of the
  modules.
* The shell's editing and printing, strings and formatting of `kservice.c`:
  sequential code on data of one thread.
* The electrical side (UART framing errors, DMA set-up), the vendored HAL and
  CMSIS, and the kernel's ports to other processors.  These are about 220 thousand
  of the repository's 236 thousand lines, which is why the share of lines that the
  map covers is small; of the application and the kernel that are compiled and
  hold state the modules cover the functions named above.
