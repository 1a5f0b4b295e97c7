# A TLA+ model of linuxAppSamp

The repository is a collection of small C programs for an embedded Linux board
(a Zynq MicroZed): each file under `src/` is a program of its own that shows one
facility of the system, and a few, named `app_..`, put several to use. There is
no code shared between them but one header. What they share is what the system
gives them: TCP and UDP port 9880, the queue `/mq`, the semaphore `/sem`, the
System V key of `mrecv`, the GPIO pins 47 and 51.

The programs are short and sequential; what is hard in them is what happens
between two calls: another thread, another process, the network, the kernel.
That is what is modelled here. The modules are checked with TLC and, where it
says so below, proved with TLAPS.

## Inventory

| component | state | operations | interaction | what is hard | what makes it correct |
|---|---|---|---|---|---|
| 1 MB block transfer, `app_05*` | server: `start`, `leftSize`; client: `rcvdEOF`, `rcvOK`; the socket | request, `sendReqOK`, `sendOnePacket`, `rcvDataBlock` | TCP stream, both directions | a stream has no packets; server or client die; a size in two bytes beside a marker | the whole block arrives before an end is reported; nobody waits for ever |
| LED, button, time display, `app_01timerOut.c` | `s_bfStart`, `hist[3]`, LED | `ledTask`, `swTask`, `mainTask` | one flag, no lock; sysfs GPIO | bounces, stale flag, sysfs errors | one toggle for one press; the LED follows |
| the first two tasks again, `gpio_ledTask_swTask.c` | same | same | same | same | same |
| FIFO threads, `posix_thread_4fifo.c` | counter, two mutexes, a condition, results on the heap | create, hand-shake, barrier, work, join | mutexes, condition variable, pointer to main's local | spurious and lost wakeups, failed creation | own number each, common start, results alive while used |
| POSIX message queues, `mqueue_0..3` | the queue behind `/mq`, outliving the process | open/unlink, send, count, receive, close | shared name | overlap, kill, full queue, stale count | nothing is left behind, nobody waits for ever |
| GPIO edges, `gpio_input_{epoll,poll,select}.c` | open value file, `count` | set up, wait, read | kernel's edge notice | an edge between two calls | one push for one edge |
| GPIO sampling, `gpio_input_usleep.c` | LED | read, write | sysfs | errors as levels | LED follows |
| request and reply, `app_04{tcp,udp}_*` | receive buffer | `req` -> `req,OK` | TCP or UDP 9880 | loss, duplicates, split reads, old bytes in the buffer | every reply answers a request; the client ends |
| plain sockets, `socket_{tcp,udp}_*` | receive buffer | send three texts, print | port 9880 | same | texts arrive |
| non-blocking sink, `socket_tcp_nonblk_*` | none | send, drain | TCP | errors taken for "nothing yet" | the server ends with the client |
| named semaphores, `semaphore_named*.c` | `/sem`, `g_cnt` | wait, count, post | ten threads | value read before the wait; two programs, one name | exclusion; fifty counts |
| mutex and condition, `mutex_{signal,variable}.c` | `condition`, `s_val` | lock, signal, wait | two threads | wakeups; reads without the lock | the documented order; values only grow |
| System V queues, `msg_0*`, `msg_1*` | queue of key `mrecv` | send, count, receive | shared key | overlap, endless receive loops | messages arrive in order |
| thread arguments, `posix_thread_5*` | heap cell per thread | pass, free | pointer | ownership | own number, freed once |
| processes, `proc_fork.c`, `ipc-*` | pipe, segment, signal flag | fork, write, read, kill | kernel | orderings made with `sleep(1)` | documented output |
| thread creation, priorities, `posix_thread_{1,2,3,6}*` | none | print | none | scheduling | - |
| raising a signal, `ipc-signal_raise.c` | none | two calls | - | - | - |
| SD card, `sd_*` | mount state | mount, append, umount | kernel | failed mount goes on | - |
| elapsed time, `app_03*`, `time_nanosecond.c` | none | subtract timespecs | - | borrow, 32-bit overflow | the difference |
| clock, network, serial, shutdown, exec, build files | none | one call each | kernel | - | - |

## Plan

Most important first. Each module has its run, and its proofs where the
behaviour is worth stating for every size.

| step | module | composes / refines | status |
|---|---|---|---|
| 1 | `BlockTransfer` (+ `BlockDelivery`, `MCBlockTransfer`) | both programs, the stream; refines `BlockDelivery` | checked, proved |
| 2 | `LedSwitch` | three tasks over one flag | checked, proved |
| 3 | `ThreadFifo` | main and its threads | checked, proved |
| 4 | `PosixMqueue` | four programs over `/mq` | checked, proved |
| 5 | `GpioEdge` | three programs over the kernel's value file, and the sampling one | checked, proved |
| 6 | `UdpReqReply` | the UDP programs of app_04 and of the plain sockets on one port | checked, proved |
| 6b | `TcpPort` | the six TCP programs on that port | checked, proved |
| 7 | `NamedSem` | both semaphore programs under one name | checked, proved |
| 7b | `MutexThreads` | `mutex_variable`, `mutex_signal` | checked, proved |
| 8 | `SysVMsg` | both `msg_*` programs under one key | checked, proved |
| 8b | `ForkedProcs` | the programs that fork | checked, proved |
| 9 | `ElapsedTime` | the two subtractions against a reference, 32-bit | checked, proved |
| 10 | `MCPrograms` | one run for `ThreadFifo`, `SysVMsg`, `MutexThreads`, `ForkedProcs`, `ElapsedTime` | done |

Left: an abstract "each reply answers a request" that both `UdpReqReply` and
`TcpPort` refine where nothing is doubled or cut; an abstract atomic counter for
`NamedSem` and `MutexThreads`, so that their theorems become refinements.

## Modules

### BlockTransfer: the transfer of `app_05`

The server's `main()` (listen, accept, `recv`, then `sendReqOK` and
`sendDataBlock`) and the client's (connect, request, first `recv`, then the loop
around `rcvDataBlock`) each have a program counter (`srv`, `cli`); every blocking
call is one action. The stream to the client is the list of messages the server
sent (`chan`), with `skip` bytes of the first one already read. A `recv()` returns
any number of bytes on offer, so it may cut a message or join two; when the server
dies, a message may have been sent in part. Bytes exist only where the client
looks: `Byte(m, i)` gives byte `i` of a message from the rules of `sendOnePacket`,
the debug bytes included; what the client decodes and compares (`Decoded`,
`LooksLikeData`, `OnlyData`) is computed from those.

Taken for granted: the request of four bytes arrives in one piece; a `recv()`
spans at most two messages (the buffer is no longer than a packet); a send to a
peer that is gone either vanishes or raises SIGPIPE; after a reset `recv()` returns
-1 once and then 0. Undefined results are choices: a `rcvOK` that was never set, the
value of `rcvDataBlock()` after its `return;`, a write beyond `s_rxBuf`. Not
modelled: the sleeps and TCP_NODELAY, which make whole reads likely and never
sure; printing; the branch of `sendDataBlock` for `leftSize == 0`, which cannot be
reached, since the last packet breaks out of the loop.

Two history variables say what the client was entitled to believe: `whole` (every
`recv()` so far returned one message) and `got` (bytes accepted until then).

`BlockDelivery` is what a user of the transfer expects: pieces of one block
arrive, and the end is declared with the last one, or the transfer breaks.
`DeliversBlock` states that `BlockTransfer` implements it with `delivered <- got`.

Run `transfer`: packets of 12 data bytes, a block of exactly three packets (the
case in which the last packet is full and `sendEOF` matters), two messages in the
socket, `recv()` of every length, a server that may die anywhere. Twelve is large
enough for the debug bytes, the part that is compared, and the tail; three packets
give a first, a middle and a last one. The block is not one with a short last packet
as well: that case is left to the theorems, which hold for every size. It shows, as long as reads are whole:
complete delivery, no rejected packet, no mutual waiting, an end; and always: the
packets tile the block, and the server is done when the client is gone.
`MCBlockTransfer` also evaluates the assumptions for the sizes of `app_05common.h`.

Run `transfer_framing` finds what happens when a `recv()` is short: the client
reads A and B elsewhere and reports an end that is not there.

Fairness: both programs are processes the kernel schedules, so each takes its
next step if it can. The death of the server is not fair.

### LedSwitch: `app_01timerOut.c` and `gpio_ledTask_swTask.c`

The button (external) moves at will. `swTask` takes a sample in one action: read,
shift, and perhaps toggle. `ledTask` and `mainTask` take two each: they look at
`s_bfStart`, then act, because the toggle may come in between. A task whose sysfs
file is missing at the start ends alone. With `Faults`, opening a value file may
fail later too. Time is left out: a sleep may take any time, so every order of
steps the program can show is there. `pthread_create()` is taken to succeed.

Run `led_switch` (finite without bounds): the flag toggles exactly at the samples
that end two low and two high levels (`TogglesPerPress`); an outdated flag is used
once at most (`StaleOnce`); the LED ends up as the flag says (`LedFollows`). Each task is fair, the button is not. Run `led_switch_faults`: an `open()`
that fails counts as a pressed button.

`StaleOnce` is about the look at `s_bfStart` and what is done about it: the flag may
change in between, so the LED is set wrongly once and the time printed once too often,
but never twice for one change.

### ThreadFifo: `posix_thread_4fifo.c`

Every lock, unlock, signal and wait is an action, and so is the unlocked read of
the counter. `pthread_cond_wait` is three: let go and sleep, wake (by a signal, or
by nothing), take the mutex again. If `pthread_create` fails the process ends and
its threads with it. The priorities are left out, so every interleaving is
there. The results are followed from `malloc` to `free`.

Run `programs` (with `which = "fifo"`, see `MCPrograms`): three threads, as in the
program. Spurious wakeups are always possible; `spurious` remembers one. Shown: with
spurious wakeups too, all threads start together (`StartTogether`), results are ready
when used and all freed at the end (`ResultsReady`), and the program ends (`Termination`,
a part of `ProgramsEnd`); without them each thread has its own number
(`IndexUnlessSpurious`). `NoDeadlock`, a part of `NobodyStuck`, says that until `main()`
returns somebody can go on without a spurious wakeup: no wakeup is lost and neither
mutex is kept. It lists the guards of the actions; TLC's own deadlock check says
nothing here, for a spurious wakeup is always possible while `main()` waits. Run
`thread_fifo_spurious`: with one, it has not. Fairness: each thread of the process
runs if it can; a mutex is only contended finitely often, so weak fairness will do.

### PosixMqueue: `mqueue_0` to `mqueue_3`

Processes run any of the four programs one after another, may overlap and may be
killed anywhere. A queue is the number of messages it holds and may hold; the name
points to the latest. All messages of these programs are alike, so nothing more is
needed. `mq_send` waits on a full queue, `mq_receive` on an empty one. `mq_open`
and `setMaxMessages` may fail. Three history variables say what got in a run's way:
`alone` (nobody else has run), `raced` (somebody opened the name between its unlink and
its open) and `robbed` (somebody has received from its queue since it counted).

Run `posix_mqueue`: two processes, three runs in all, sends of two and five
messages, queues of three, four and seven places in place of 8, 10 and 60. As in the
programs, the few messages fit everywhere, two processes that are both still sending
them cannot fill the smallest queue, and the many fit only in the largest. Three runs let one leave messages
behind and two overlap, or one come between the unlink and the open of another and a
third find the result. Shown: `mqueue_2` and `mqueue_3` have the places they asked for
unless they were raced, whoever runs besides, and alone an empty queue
(`GetsItsAttributes`); a run waits for ever only if it was robbed, if somebody sends into
a queue that is not the one it made, or after a kill, which a lone `mqueue_3` survives
too (`RunsEnd`); and without kills nothing stays behind, however runs overlap (`NoBacklog`).
Two processes cannot fill each other's queue with messages still to be taken; with
four, `mqueue_1` could do that in the eight places of `mqueue_2`, so `RunsEnd` is a
statement about two. `CountedIsThere`, that a run which was not robbed finds
what it has counted, is a theorem and not in the run. A process that can go on does;
starts and kills are not fair. Not modelled: the text of a message, which is sent
without its final zero.

### GpioEdge: `gpio_input_epoll.c`, `gpio_input_poll.c`, `gpio_input_select.c`, `gpio_input_usleep.c`

One module for the four programs, `variant` says which. The kernel's part is
external: whether an edge came since the last read of the value file, and epoll's
own flag. The read is two actions, since an edge may come between noting and
reading. The set-up calls may fail; where the code does not look, it goes on: with no
value file, `select` has a descriptor of -1 to put into a set, which is undefined, and
waits for nothing or ends, and the others wait for ever.
`gpio_input_usleep` has no edges: it samples and shows the level for ever, and either
call may fail, with a level made of the error, or an LED left as it was.

Run `gpio_edge`: the four programs, a bouncing button, five rising edges (two
more than the programs count). Shown: no more pushes than edges (with epoll, one
for the level at the start; `CountsPushes`); a push that is held is printed, and a
level that stays is shown on the LED once no call fails any more (`HeldPushSeen`).
Run `gpio_edge_epoll`: that one push too many. `main()` is fair, the button is not.

### UdpReqReply: `app_04udp_*` and `socket_udp_*`

The network is a set of datagrams: any of them may be the next to arrive (`Arrives`),
may get lost, or may arrive and stay to arrive once more. The server's `recvfrom`
takes a datagram and looks for `req`; its `sendto` is a second action, so that other
datagrams arrive in between. A client sends, waits without a timeout for whatever
comes, and goes on, three times. Both servers may try to bind; nobody looks at the
result, and the one that comes second hears nothing. Requests and replies carry the
turn of the client's loop as a mark for the properties; the programs do not see it.
Two equal datagrams under way are one in the set; as it may arrive twice, nothing is
lost by that. Taken for granted: `recvfrom` and `sendto` report no error, and a text
ends with a zero, as both clients send it, so `strstr` sees no older bytes.

Run `udp_req_reply`: two clients and a stranger, three turns as in the programs, one
datagram of each client doubled. Three turns let a doubled reply of the first one
come in the third. Shown: a client that waits is owed an answer
(`AnswerOwed`); it prints the reply to its own last request (`InStep`) unless one of
its own datagrams came twice; and it ends unless one was lost (`ClientEnds`). What
arrives at a `socket_udp_server` that had the port first counts as lost. Every
program runs if it can; that strangers or `socket_udp_server` start is not assumed.

### TcpPort: `app_04tcp_*`, `socket_tcp_*` and `socket_tcp_nonblk_*`

All six programs use TCP port 9880, so any of the three clients may meet any of the
three servers; `srvKind` and `asks` say which run. A server accepts one client and ends
with it; who else has connected waits in the queue of `listen()` until then. That queue
has one place more than `listen()` was told; when it is full, `connect()` waits, and in
the end times out. Streams are counted
in units, three to a text (`ReqLen`: "re", "q", the rest), two to a reply (`ReplyLen`),
which is as fine as `strstr` for "req" can tell. A `recv()` takes any number of the
units there are. It may so end inside "req", and as the buffer keeps older bytes and
the text has no end yet, `Finds` is then a choice; two requests in one read are
answered once. `link` is the connection as a client meets it: open; closed by the
server (`fin`); reset, with the error still to report; dead. A `send()` after the end of
the stream brings a reset, but as the end came first, `recv()` goes on to return 0 and the
next `send()` raises SIGPIPE; only a connection that was reset while it was open
reports an error, once. `gone` is the same seen from the server, whose client may also be
killed with the connection aborted; what it sent before is taken to arrive.
Since no program looks at the result of `connect()` or `send()`, they go on after
each of these until SIGPIPE. Servers and clients may be killed at any point.
Left out: a `send()` that waits for room or is cut short; the server never stops
reading while its client sends, and the texts are short.

Run `tcp_port`: two clients, the three turns of app_04 (the 31 of the non-blocking
client say nothing new), and `listen(.., 0)` in place of `listen(.., 1)`: a queue of one,
so that two clients fill it. One client waits in it, or for it, or comes too late.
Shown: as long as reads are whole, each reply is that to the last request (`InStep`); a
line that `recv()` did not fill is printed only by a client that was never accepted or
whose server was killed (`StaleOnlyUnserved`); and all programs end, the ones in the
queue too, unless the accepted client asks a server that never answers, or one that has
read a request in pieces or two at once (`AllEnd`): how the replies are cut is of no
account. Every program runs if it can; kills are not fair.

### NamedSem: `semaphore_named.c` and `semaphore_named_blocked.c`

A process is a run of either program, which do the same but for what they print and
when they sleep. `main()` has one action for each call, a thread one for `sem_wait`, the
read and the write of `g_cnt++`, the print, and `sem_post`. A semaphore is called after
the process that made it; `/sem` stands for one or for none, and a killed process
leaves both as they are. `sem_open` and `pthread_create` are taken to succeed; the
`sem_getvalue` before the wait only decides whether `blocked` is printed and is left out.

Run `named_sem`: two runs that may overlap or be killed, two threads with two turns
each: enough for one semaphore to be contended by four threads of two processes, and
for a run to come after a killed one. Shown: a semaphore is free or held once, also
by the dead (`OneToken`); each printed number is that of its line, and at the end all
turns are counted (`LinesNumbered`); a run shares a semaphore only if another opened the
name between its unlink and its open (`OwnUnlessRaced`); and it ends unless a killed
process holds its semaphore (`Ends`). `NoDeadlock`, what a run that cannot go on waits for,
is a theorem; no run has it as a property, since on the instance `Ends` says more. Threads of a live process are fair; each waits a
finite number of times, so weak fairness will do.

### MutexThreads: `mutex_variable.c` and `mutex_signal.c`

`prog` says which program runs. Every lock, unlock, read and write is an action, and
so is each printed line of `mutex_signal.c`, which is kept in `lines`: the file
promises an output, and `DocumentedOrder` says how much of it is true. A wakeup may be
spurious, a bounded number of times. Shown: the promised order holds but for the last
line, which may come anywhere after the signal, and but for spurious wakeups; after
one of them too, main goes on only after the signal. What the loop without a
lock in `mutex_variable.c` prints never decreases (in `TypeOK`). Both programs end,
the first with every increment done (`EndsWell`, `AllIncremented`). `Output(n)` is the
promised output with the thread's last line after the `n`-th of the others. `NoDeadlock`
says that until `main()` ends somebody can go on without a spurious wakeup.

### SysVMsg: `msg_0send_rcv.c` and `msg_1thread_send_rcv.c`

Processes run either program over the queue they share by its key; they may be
killed, and the queue stays. It is the number of messages in it. `msgsnd` waits when
it is full, `msgrcv` when it is empty; `recv_func` of `msg_1` looks at the count first.
Shown: after that look `msgrcv` finds a message unless another process has received in
between, which `robbed` remembers (`SeenIsThere`); whoever receives empties the queue, of what killed runs have left
too, and the sender of `msg_1` never waits for ever (`Drains`). That of `msg_0` may, in a queue
full of old messages: it only receives when it has sent everything.

### ForkedProcs: `ipc-pipe.c`, `ipc-sharedMemory.c`, `ipc-signal.c`, `proc_fork.c`

A parent and up to two children; `fork()` may fail and nobody looks. What orders them
is modelled: the end of the pipe, which comes when its last write end is closed,
`wait()`, the removal of the segment, handlers, and pending signals, of which there is
one of a kind. `sleep()` orders nothing, so all that the programs hope for from it may
go wrong: the second child may see no text or half of it, a signal may come before
its handler. Shown (`EndsWell`): all processes end all the same, the child
of the pipe has read all lines, and no child finds the segment removed (`NeverTooLate`);
until then somebody can go on (`NoDeadlock`): a reader has a line or the end of the pipe
to come, a child that loops its SIGHUP. Not modelled:
after a failed `fork()` `ipc-signal.c` signals process -1, that is, every process there is.

### ElapsedTime: `time_nanosecond.c` and `app_03timeOfCalc.c`

The two subtractions as operators: the borrow, what is printed of it, and the
nanoseconds in a `long` of 32 bits, which wraps. `Diff` is the reference.
`BorrowExact`: the borrow is right for all readings, but what is printed is not when
the clock was set back by a fraction of a second. `ElapsedExact`: what `app_03` prints is right if and only
if the difference fits in a `long`, so up to 2.147 seconds, though
`dsec * 1000000000` may overflow on the way. The functions that `app_03` times change
nothing else.

### MCPrograms: one run for the small programs

Each behaviour of `programs` is one of `ThreadFifo`, `SysVMsg`, `MutexThreads` or
`ForkedProcs`, which `which` says in the first state; the others stay where they begin.
Fairness is that of the module that runs. The state space is so the sum of four, and
the properties of each are about its own part. Bounds: three threads; two processes
over a queue of three places, fewer than `msg_1` sends, so that it is full; three
increments and two unlocked reads for the loops of ten and twenty, so that a read can
come before, amid and after an increment; two spurious wakeups, so that `main()`
may go round its loop twice before the signal; the three lines and signals of the
programs that fork. `DifferencesOK` evaluates `BorrowExact` and `ElapsedExact` for all
readings from three seconds before to four after 0, with seconds of ten parts and a
`long` of 21 numbers each way: 2.1 seconds, as on the board. `BoundsOK` is all that is
assumed of the bounds: numbers, and at least one increment and one line. `NobodyStuck` is the
`NoDeadlock` of the three modules whose programs are meant to end.

## Proofs

`BlockTransferProofs`, for every size of packet, block, buffer and socket that
meets `SizesOK`, `ReadSizesOK` and `LastSizesOK`: `TypeCorrect`, `Tiling`,
`Completeness`, `Verdict`, `DeadlockFreedom`, `Refinement`. None of the properties is
inductive. The invariant has five parts: the types; what a channel may hold (tiles
of the block, only the last message cut); how far the server has got, tied to what
is in the channel; where client and server stand with respect to each other; and,
while `whole` holds, that the bytes accepted and the messages under way
add up to `start`. The step that matters is the last packet: a whole read decodes a
size of its own exactly when the packet is the last, which needs the arithmetic of
A and B and the assumption that neither is a `'C'`.

`ProgramsProofs`, about what `MCPrograms` puts together, for any number of threads,
processes, messages, turns, wakeups and lines. A step of `MCPrograms` is a step of one module
and a stutter of the others (`OneRuns`), so each module has an invariant of its own.

* `ThreadFifo` (`FifoInv`: `TypeCorrect`, `IndexFromHandshake`, `WakeupOwed`, `Barrier`,
  `Results`, `FreedOnce`). The invariant says who owns each mutex at each place
  (`OwnerInv`) and where an owner must be (`HeldInv`), which threads exist for which value of the
  counter (`CreatedInv`), who has signalled (`SignalInv`), that the barrier is closed
  behind main (`BarrierInv`), and where each result is (`PretInv`). The hand-shake needs
  `OwnerInv`, `CreatedInv` and `SignalInv` together: the counter moves only after a
  signal, a signal only after the wait, since main owns the mutex from the creation of
  the thread until it waits. `HeldInv` is for `NoDeadlock`: a mutex that is taken is
  taken by somebody who can go on to give it back.
* `SysVMsg` (`MsgInv`: `SeenBeforeTaken`). The property is inductive with the types: who has seen
  a message and was not robbed since finds at least that one.
* `MutexThreads` (`ControlInv`: `LinesInOrder`, `NoIncrementLost`). The lock has one owner, who
  is between its lock and its unlock, and the variable is the number of turns done
  (`CountInv`); main sleeps only as long as the condition is not set (`WaitInv`); without
  spurious wakeups the lines printed so far begin one of the outputs `Output(4)` to
  `Output(6)`, as far as both have come (`OrderInv`).
* `ForkedProcs` (`PrcInv`: `ChildrenInTime`). Who has the write end of the pipe open, and that
  every line written is read or still in the pipe (`PipeInv`); that the segment is removed
  only after the children have ended (`ShmInv`); that once the parent of `ipc-signal` has
  ended, its child has SIGHUP pending or handled (`KillInv`); and where parent and
  children of `proc_fork` are (`ForkInv`).
* All together: `TypesCorrect` and `NoneStuck`.
* `ElapsedTime`: `BorrowIsExact` for all readings and any division of the second,
  `ElapsedIsExact` for all readings and the numbers of the board.

`PosixMqueueProofs`, for any number of processes and runs and any sizes that meet
`SizesOK`: `TypeCorrect`, `NothingLeft`, `OwnQueue`, `NoneMissing`. As long as nobody was killed, what a
queue holds is going to be taken (`TakenInv`): some process has still to count it, or has counted at least that
much. `AloneInv` says what a run that nobody overlaps finds: nobody else at work, no
name between its unlink and its open, and then a queue with nothing but its own
messages. `OwnInv` says the same of the attributes for runs that overlap: who was not
raced has no name before its open, and then a queue with its own attributes. With
`CountedIsThere` it is inductive on top of the rest (`QueueInv`): a message more never
hurts who has counted, and one less is either his own or robs him.

`UdpReqReplyProofs`, for any number of clients, strangers, turns and doubled
datagrams: `TypeCorrect`, `Owed`, `RepliesInStep`. `InStep` is not inductive: one must know
that a client without doubled datagrams has at most one of them under way, of its
present turn, and not in the network and the server's buffer at once (`OneUnderWay`),
and that the buffer holds a request exactly between receipt and reply (`ServerInv`).

`TcpPortProofs`, for any number of clients and turns: `TypeCorrect`, `RepliesInStep`,
`NoStaleLine`. The invariant adds what the server has while it has a client
(`ConnInv`); which ends of the connections are still there (`LinkInv`), above all that an
error can only be met at a connection that is not the accepted one, or after a kill; and how far
client and server are with each other: one that waits to be accepted has asked
at most once (`Unaccepted`), which becomes the first request under way, and
from then on request, reading, reply and reading go round (`StepInv`).

`LedSwitchProofs`: `TypeCorrect` for any `Faults`, `UsedOnce` if opening a value file
does not fail, `Debounces` without faults. `UseInv` says how old a value each task may
hold; `HistInv` says that the shift register holds the last three levels, with the
start, when it holds fewer, kept apart by `pos`.

`GpioEdgeProofs`, for any mixture of programs and any number of edges: `TypeCorrect`,
`NoPushTwice`, and, without epoll, `PushesAreEdges`: `PushIsEdge`, which run
`gpio_edge_epoll` refutes for epoll. The invariant follows an edge from the kernel's
note of it to the print: pushes printed, the one about to be, and an edge noted
and not yet waited for add up to no more than the edges.

`NamedSemProofs`, for any number of processes, threads and turns: `TypeCorrect`, `TokenIsOne`,
`AllLinesNumbered`, `OwnSemaphore`, `SomeoneGoes`. The invariant says
who has which semaphore (`PsemInv`), that its value and its holder exclude each other
(`TokenInv`), and what the counter is at each place inside (`CountInv`). That
threads of one process are alone inside follows from the token. The semaphore of a
killed process is covered like any other. That a run ends with all turns counted is a
sum over threads; `TurnInv` says it without one: the counter is the cardinality of the
set of the turns that have counted, each step adds one turn to that set or none, and at
the end it is all pairs of a thread and a turn. `MadeInv` says which threads `main()` has
made; with it, who waits in `join` waits for a thread that exists.

The theorems assume what the modules' `ASSUME`s name, the same that TLC
evaluates on each run, and what their own `ASSUME` says (which `Faults`, which `Variants`).

Every invariant of a passing run is a theorem. Model-checked only are the
liveness properties (`Termination`, `LedFollows`, `RunsEnd`, `HeldPushSeen`,
`ClientEnds`, `Ends`, `AllEnd`, `Drains`, `ProgramsEnd`): they rest on fairness and
ENABLED, which are out of the prover's reach. The `NoDeadlock` invariants are
the part of them that is in reach: they write down the guards in place of
ENABLED, and say that whoever waits, waits for somebody who can go on.

## Findings

* A short `recv()` breaks the framing of `app_05` and may end the block early
  (`NoFalseEOF`).
* A failed `open()` in `gpio_get_hiLow()` is a HIGH sample (`TogglesPerPress` with
  `Faults`).
* The wait of `posix_thread_4fifo.c` has no loop around it (`IndexCorrect`).
* `gpio_input_epoll.c` asks for EPOLLIN and so prints a held button as a push
  (`PushIsEdge`).

## Not modelled

Programs that are one library call and a print (`time_get`, `time_msecGet`, `time_set`,
`network_*`, `os_*`, `exec_*`, `bash_output.c`, `app_02*`, `ipc-signal_raise.c`), that
only show the scheduler (`posix_thread_{1,2,3,6}*`) or share nothing
(`posix_thread_5*`), a byte copier (`sio_input.c`), the SD card programs, and the build
files. Of the modelled programs: time and priorities, the wording of what is printed,
the text of queue messages, and the failures named with each module.
