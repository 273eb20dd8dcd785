# A verification project for psvita-gdb

psvita-gdb is a gdb stub that runs as a kernel plugin of the PlayStation Vita.
This directory holds TLA+ models of its core, the TLC configurations that check
them on small instances, and TLAPS proofs of the main properties for every value
of the constants. `PROJECT.json` relates every definition to the lines it models.

## The system

| Part | State | Operations | Source |
|---|---|---|---|
| Listener | listening socket | accept, start a worker | `gdb/main.rs`, `kernel/tcp_socket.rs`, `kernel/thread.rs` |
| Connection | `CONN_POOL` slot (claimed, buf, len, closed, err), read position, write buffer, one event flag | `new`, `read`, `write`, `close`; thread `net_rx` | `gdb/tcpconn.rs`, `kernel/event_flag.rs` |
| Event loop | gdbstub's state (idle, running, interrupted, disconnected) | poll session, read a byte, wait | `gdb/event_loop.rs` |
| Target | session, `detached`, resume actions | attach, detach, run, kill, resume | `gdb/target.rs`, `gdb/multi_thread.rs` |
| Session | `SESSION_POOL` slot: pid, evflag, breakpoint tables, step, step_result, exited, event ring | claim, reset, push and pop events | `gdb/sessions.rs`, `kernel/mpsc.rs` |
| Exception handlers | none of their own | halt, then announce the stop in the session | `gdb/handlers.rs` |
| Process callbacks | none of their own | create: `EV_PROCESS_STARTED`; kill: `exited` | `gdb/handlers.rs` |
| Software breakpoints | table of saved instructions, the text of the process | set, clear, clear_all; the step's own breakpoint | `gdb/sessions.rs`, `kernel/utils.rs` |
| Hardware slots | tables of breakpoints and watchpoints, the comparators of the process | set, clear, clear_all | `gdb/sessions.rs`, `gdb/target.rs` |
| Registers | core and VFP registers of a halted thread | packets g, G, p, P | `gdb/multi_thread.rs`, `gdb/armv7.rs` |
| Next PC | none | where a single step leads | `arm-next-pc` |
| Monitor, libraries, process list, cp14, mep | none that matters here | queries, formatting, device registers | the rest |

How they interact. Each connection has a worker (`gdb_worker`) and a receiver
(`net_rx`), two kernel threads that share a buffer without a lock and block on two
bits of one event flag, `EV_WAKE_WORKER` and `EV_WAKE_READER`. The debugged threads
run the exception handlers in their own context: a handler finds the session by
its pid, halts the process, stores an event and sets `EV_WAKE_WORKER` in the
connection's flag. The kill callback does the same with `exited`. The worker polls
these events and its input, then waits on the flag. Session slots and connection
slots are static and are used again. No lock covers a session as a whole: there is
one spinlock per table, and atomics or bare cells for the rest.

What is hard. Wake-ups between a poll and a wait; a buffer handed over by a length
alone; a slot that is reset while a handler still holds it; a process halted before
its stop is announced; a session dropped at any point; a text patched outside the
table's lock; a socket's number that outlives the socket; failures of single kernel
calls; three tables of register numbers that have to agree; the corner cases of the
instruction set. What makes each part correct: the
connection delivers the peer's bytes once and in order and can always be closed;
the session never leaves gdb waiting on a halted or dead process, and never leaves
a process halted that nobody debugs; the breakpoint table and the text agree, and
nothing is left in the text or in the hardware after a detach; every socket, slot and
event flag is given back once, after its last user; the ring is a queue; a step
breakpoint is where the processor goes next. The list of hazards, line by line, is
in `PROJECT.json`.

## The modules

### TcpConn (with ByteStream)

The receive side of one connection, used again by connection after connection.
`claimed, buf, len, closed, err` are `ConnState`; `readLen` and `wlen` are
`TcpConn::read_len` and the local `len` of `read()`; `flag` is the set of bits in
the event flag; `wpc` and `rpc` say where the worker and `net_rx` are. Every
load, store and kernel call another thread can observe is an action: `Read*`
are the lines of `read()`, `Close*`, `Join` and `ReleaseState` those of `close()`,
`Rx*` those of `net_rx_thread`. `Handle` is what a packet may do to this state: end
the connection, or drop a session, whose `reset()` clears the worker's bit.
`New`, `NewFails` and `NewRefused` are the outcomes of `TcpConn::new`.
`PeerSend` and `PeerFin` are the outside world. `ByteStream` is the promise: a
reliable stream with an end, `delivered` a prefix of `sent`, and the end seen only
behind the last byte. `StreamSpec` says that TcpConn implements it. `ConnBuffer`
has what the two directions share, the size of a buffer and its bytes.

### WriteBuffer (with OutputStream)

The send side of one connection. The worker alone uses it, so what is hard is not
interleaving but failure: `Send` is one round of `flush_write_buffer`'s loop, in which the
kernel takes any part of what it is offered, and `SendFails` ends the call with the rest
kept. `call` is the worker's place: in `write()` before the byte is stored
(`make_room`), at the store, behind it (`drain`), or in `flush()`. `written` is
what `write()` has stored, `wire` what the kernel has taken. The writer may call again
after an error, as gdbstub does for a monitor command that prints several lines: each
line is a packet of its own and the error is handed on when the command has ended. A
`write()` that failed in `drain` has stored its byte all the same, one that
failed in `make_room` has not, so `written` has the byte in the first case only.
`OutputStream` is the promise: `wire` grows, is a prefix of `written`, and is all of it when
`flush()` answers Ok (`flushed`). `Close` drops what the buffer holds.

Abstractions: the kernel takes at least one byte when it does not fail (`sendto` on a
blocking socket); which bytes gdbstub writes is any choice.

### DebugSession

One slot of `SESSION_POOL` and its actors: the worker (`wpc`; event loop, attach,
resume, detach, reset), an exception handler per thread (`hpc`), the kill callback
per process (`kpc`). `evflag` is the number of the connection the flag belongs to,
so that a handler's stale copy (`hev`) can be told from the current one; setting a
deleted flag does nothing. Of the ring only the indices are kept, `head` and
`tail`, and a handler's local `hhead`; `has_excp` is `head # tail`, as it is in a
release build, where `len()` wraps. `susp` and `tsusp` are the processes and threads
the kernel holds. Three history variables name what a property has to exclude:
`raced` (two pushes overlapped), `late` (an event was stored on behalf of an ended
connection), `orphaned` (a handler halted a process that was being let go).

Abstractions: a packet is read in one step and comes with its wake-up (TcpConn
shows why that is sound); whether a stop is at the step's address is any choice,
as `is_step` compares addresses only; suspending and resuming take effect at once
and fail only for a dead process, so the polling loop of `halt_process` is one
step; gdbstub is external and reduced to which state it is in after a call.

### SwBreakpoints

The table of saved instructions (`sw`), the step's address, and the text of the
process. `Add` and `Step` start `set_sw_breakpoint`; `SetClaim`, `SetWrite`,
`SetWriteFails` and `SetUndo` are its parts, split where the lock is taken or
released. `Remove`, `StepClear` and `ClearAll` restore. `StepTake` and `StepClear`
run in a handler while the worker is anywhere. `program` is the text as the
program and gdb's writes made it, without breakpoints. `spoiled` becomes true when a write to
the text fails, when gdb writes over an inserted breakpoint, and when a step ends
while its address is being set: these are known ways to break the table (see the
hazards), and the properties say that there is no other.

Abstractions: an address stands for the bytes its breakpoint covers, and addresses
do not overlap; an instruction is a model value; `next_pc` may lead anywhere.

### Launch

`ExtendedMode::run`, with one connection and one session slot. The worker's
places (`wpc`) are the launch, `detach()` with the `reset()` of a session it drops,
the claim of the slot, the store of the event flag and the ten-second wait; `ret`
is where `detach()` returns to. Beside it the kernel creates each process once
(`Create`), at any moment from the launch call on, and its callback
`handle_proc_create` goes through `cpc`: look up the session, load its flag, set
`EV_PROCESS_STARTED` (`started`). `AttachPacket` is here because it drops a session
and claims the slot as `run()` does. `early` remembers the processes created
before their `run()` waited.

Abstractions: a failed launch changes nothing and is left out; finding no slot is a
choice of `Claim`; time is a choice of `WaitFails`; what else a session does, its
resumption in `detach()` included, is in DebugSession.

### MpscRing (with BoundedQueue)

The event ring with its contents, one step per load or store of `head`, `tail` or
a slot. `ppc`, `phead`, `pval` are a `push()` in a handler; `wpc`, `wtail`, `whead`,
`wval` are `pop()`, `clear()` or `len()` in the worker. `BoundedQueue` is the
promise, and `QueueSpec` shows that the ring implements it under the mapping
`q <- contents`, the slots from `tail` up to `head`. The code calls the ring
multi-producer but takes no lock in `push()`; `overlap` remembers that two pushes
were under way at once. From then on events are lost or come twice, and only the
range of the indices is still promised. `len()` keeps its width (`UsizeMod`),
because `has_excp()` depends on what a wrapped difference is. `clear()` throws
away what was there when it read `head`, so the queue's `Clear` drops a number of
the oldest events, not all of them.

### Server

Who owns what, with several connections at once. `open` is the kernel's set of
sockets; `lfd`, `afd`, `fd` are the handles of the listener, of `accept()` and of the
workers, `rxfd` is the bare number `net_rx` was given; `claimed` and `closed` are
`CONN_POOL`, `pid` and `sflag` are `SESSION_POOL`, `evflag` the event flags that
exist. Main loop, worker and `net_rx` are three places `mpc`, `wpc`, `rpc`. Every
kernel call that creates something has a failing twin (`ListenFails`, `AcceptFails`,
`SpawnFails`, `EventFlagFails`, `StartRxFails`), which takes what the code's early
return drops and no more. `leaked` and `lost` name what the code does lose: the
socket of a `listen()` that fails behind `ksceNetSocket`, and the slot of a connection
whose `net_rx` did not start. A process may be attached by two connections, as in
the code. What goes on inside a connection is in TcpConn, inside a session in
DebugSession, so a `recv` here is any outcome a socket may have.

### Target: HwSlots and Registers (with TargetSession)

What the worker does to a halted process, in one session after another. `HwSlots`
has the two tables (`bps`, `wps`), the comparators they program (`phbp`, `phwp`), and
the kernel's debug switch, which anybody may flip (`SwitchFlips`). A request whose
kernel call fails, or that is refused, changes nothing and is a stuttering step.
`moved` says that `set_hw_watchpoint` has given the comparator of one address to
another; `left` holds the comparators `clear_all` could not disarm.

`Registers` has the packets g, G, p and P on the two kernel objects they touch, and
the three tables that have to agree about a register's number, size and place:
`from_raw_id`, `gdb_serialize` and `gdb_deserialize`. A word stands for four bytes.
`reply` is the last packet and its answer. `write_register_panics` is P of a D
register. `Target` puts both together; `TargetSession` is the variable they share.

The kernel has two sets of core registers of a thread (`entries`); `Current` is the one that
`read_registers` and `read_register` choose, by the mode in the cpsr of the first set
(`multi_thread.rs:77` and `458`). A successful G or P may change that choice. What the kernel does
with what it is given is not in `src/` and is left open in the models and in the proofs:
`SetRegisters` lets a write go to either set, to both or to none, and `ReportedVfp` is any
function from the D registers the kernel was given to those it reports. The repository says
that the reported ones are not right (`src/readme.md:17`: "neon registers dont read
correctly"; `armv7.rs` calls the D registers NEON, `todo.md:5` lists them). So nothing is
claimed of the values of D registers: `SingleReadIsSlice` says that p and g, which make
the same kernel call, agree on them, `WritesAreLocal` which calls are not made.
`WriteReadsBack` is about core registers: those written are those read if the kernel put
them in the set that is then chosen, which it promises nobody. In the run, `ReportedVfp`
exchanges the halves of each register.

### NextPc

`next_pc` as a function of a decoded instruction, registers and memory, on words of
`W` bits with wrapping arithmetic; `Init` chooses the input, `Step` computes. Every
opcode with an arm in the source, the conditions, the operand forms and the errors are
there, and every `unreachable!()` arm that depends on the operands (`lib.rs:127`, `138`, `145`,
`154`, `163`, `203`, `269`, `354`, `362`) is an outcome `Panic`. The decoder is not in `src/`, and
nothing is assumed of which operands it gives an opcode: `WellFormed` only has the types of
a decoded instruction. `Architecture`, at the end, is written from what the processor
does: conditions, ALU results, load addresses, compares with zero, table branches.

`StepsToNext` compares the two. Four deviations are named, and only they excuse a difference:
- `TableDeviates`: `TBH` scales its index by four, not two (`lib.rs:243`).
- `LiteralDeviates`: a literal is taken relative to an unaligned pc (`lib.rs:191`).
- `ResultDeviates`: an ALU result written to pc loses bit 1 and never changes the
  instruction set (`lib.rs:185`).
- `CompareDeviates`: a CBZ or CBNZ that is taken goes to its immediate, with bit 0 as
  the instruction set (`lib.rs:150`, `159`), so to ARM if it is even. The decoder is given the
  bytes of the instruction and not its address, so the immediate can only be an offset from
  the pc, and the processor stays in Thumb.

Where the last two apply the property says more, that the step breakpoint is never where the
processor goes. Of a taken B, BL or BLX with an offset (`OffsetBranch`) only the instruction
set is compared, and only if the decoder returned the kind of offset of the set it decodes
(`OwnOffset`): whether lines 122 to 132 undo the decoder's bias cannot be told from `src/`.
Nor is it compared whether the Thumb form of BLX aligns its target.

`PanicsOnShiftedOnly` says exactly when the worker panics: the condition holds, and
either a shifted register or a register offset is to give the pc, which the instruction set
has (`ShiftsToPc`), or an operand is none of those expected of the opcode (`Expected`).

`BitAnd`, `BitOr` and `BitXor` are constants with the bits they have as their assumption;
`MCNextPc` gives them the operators of `Bitwise`, which the prover cannot use. Instructions are
at even addresses. TLC evaluates these assumptions on the run.

## The runs

| Run | What it asks | Bounds |
|---|---|---|
| `tcpconn` | types, one user of the buffer, no lost wake-up on either side, a quiet free slot, the stream refinement; bytes and end arrive, `close` returns; the send side stores inside its buffer and refines the output stream | buffers of 2, three bytes received and five written per connection, two values, any number of connections and failed sends |
| `session_threads` | types, no silent stop | one process, two threads, ring of 2, one connection |
| `session_slot` | wake-ups and detach when the process dies and a second connection takes the slot over | one process, one thread, one kill, two connections |
| `session_live` | halts and exits are reported | one thread, one kill |
| `session_unwrap` | *violated*: `step_finished` never meets a missing event flag | one thread |
| `sw_breakpoints` | one slot per address, text and table agree, a clean detach | three addresses, two slots, two instructions, one thread |
| `launch` | a start during the wait is heard, no new session is reported dead, `run()` answers | three processes |
| `launch_missed` | *violated*: `run()` waits only for a process that has not started | three processes |
| `ring` | indices in range, a bounded queue as long as pushes do not overlap, `has_excp()` is right | ring of 3, two producers, two values, 16 for 2^32 |
| `server` | sockets, slots, sessions and flags are given back once and after their last user, an ending connection ends | two workers, three sockets, two slots of each pool, one process, one failing call |
| `target` | tables and comparators agree, a hit is known, a detach disarms; p and g agree, core registers written are read back, a write is local | two slots and addresses of each kind, two kinds; two general and one D register, two register sets, one write |
| `next_pc` | the next instruction is the processor's but for four deviations, and exactly what panics | every opcode with the operands it may have and some it may not; words of 5 bits, five values of two registers, four addresses, every flag |

Why the bounds are enough. A buffer of two shows a partial and a full hand-over,
and the third byte makes the buffer be used again; two byte values show a byte read
twice or skipped. A send takes one byte of two or both, and five bytes fill the write
buffer again and again. The two directions share no variable, so `MCTcpConn` lets a
behaviour move in one of them. A ring of two is full after one event, so overflow and
wrap-around happen at once; two threads make pushes overlap and a thread end
another's step. Two connections are what it takes to meet a handler of the one
before. With more addresses than slots the table fills up, and two instructions
tell stale bytes from fresh ones. Three processes let a `run()` follow one
that timed out, with an attach in between. A ring of three holds two events, enough
to come out in the wrong order and to lie across the wrap. Two workers and the
listener use three sockets, so a number is in short supply and is given out again
at once; one failure meets every order of the rest. In `target` the initial values
of all registers differ (`MCTarget`), so that any two swapped show, and the set that is read
may change either way; slots and registers share only the session, so `MCTarget` uses them
one after the other. Five bits
are enough for wrapping addresses, for a sign, and for shifts by the word size or
more; memory holds different words at different addresses, one of them unreadable.

`MaxSent`, `MaxWritten`, `MaxConns`, `MaxKills`, `MaxFailures` and `MaxWrites` are guards of
`PeerSend`, `WriteBuffer`'s `Write`, `Connect`, `killed`, `Fails` and `Registers`' writes and
appear nowhere else; the proofs hold for all of them. Symmetry is used only where no liveness is checked. The
DebugSession, Target and NextPc runs do not check deadlock: after the last connection,
with a halted process and a silent gdb, after a panic, and behind the one step of
`next_pc`, the system really stops. The two safety runs of DebugSession share its four
invariants between them, each on the instance that can break it; the proofs cover
them for all constants, more than one process included.

Fairness. `tcpconn` and `server` assume that a worker that closes and its `net_rx`
are scheduled again and again: they are kernel threads of one priority (0x40) on
a preemptive kernel. `session_live` assumes the same of the worker, the handlers and
the kill callback. `launch` assumes that the worker runs on and that the kernel ends
its wait after the timeout; of the launched process it assumes nothing. Nothing is
assumed of the peer, of faults, of failures, of packets, or of the end of a connection.

What `server` shows besides. `net_rx` may call `recv` with a number that its worker has
closed and the kernel has given to a new connection: `ForeignRecvOnlyInClose` bounds
that window to the join, and `EndingEnds` names it as the only reason for which an
ending connection hangs: the join waits until the stranger's connection receives
something, which the old `net_rx` then takes.

What the violated runs show. `session_unwrap`: worker in `reset()` between the
removal of the event flag and the clearing of the pid, handler between the take of
the step and `evflag().unwrap()`: the handler panics and spins in the debugged
thread. `launch_missed`: the process is created, and its callback runs, between the
launch and the claim of the slot; the callback finds no session and `run()` waits
its ten seconds for an event that is gone, though the readme blames gdb's patience.

Known deviations without a run of their own, listed as hazards: `resume()` may restart
a process over an exception pushed after it looked at the ring (the event is still
reported, `NoSilentStop`); the kind `Thumb32` is patched with the ARM `bkpt`
(`patched`); a second watchpoint is forgotten or takes the first one's comparator
(`moved`); P of a D register panics the worker, and so do an instruction that cannot be read
and an operand without an arm while resuming (`ResumePanics`): the worker then spins for ever
with its session claimed; the four deviations of `NextPc`. Some hazards are modelled but
excluded from the property nearest to them, and no property catches them: a thread that
faults while its process is let go (`orphaned`, `DetachedRuns`), the session kept by a
failed attach, a step that ends between the saving and the patching of its address
(`spoiled`, `TextIsProgram`), a start event of a launch given up (`RunAnswers`), the takeover
(`moved`, `HitIsKnown`).

## The proofs

Each proof module extends its component and TLAPS, states one inductive invariant
`Inv`, proves `Init => Inv` and `Inv /\ [Next]_vars => Inv'` with one lemma per
conjunct and one step per action that can disturb it, and derives the theorems.
`Inv` was also checked by TLC before it was proved.

`TcpConnProofs` (any buffer size, bytes and bound): `Inv` adds to the properties
the life cycle of the slot (which places of the two threads go together), the
hand-over (a length of zero is what lets `net_rx` receive, a length other than zero
what lets the worker read), the two wake-ups in inductive form (who still has
to set which bit), the position of the read pointer in the peer's stream, and
what `closed` says about its end. Without the position `StreamSpec` is not
inductive: that the next byte is the right one needs the whole unread part of the
buffer to be the next part of the stream. Theorems: `TypeCorrectness`,
`ExclusiveBuffer`, `WorkerIsWoken`, `ReaderIsWoken`, `FreeSlotIsQuiet`,
`ImplementsStream`.

Its second part is about WriteBuffer: `WriteInv` adds to the properties `Held`, that
`written` is `wire` followed by what the buffer holds, and `Drained`, that no call has followed
a flush that returned Ok. `Held` is what moving the rest down after a partial send has
to keep (`SendStep`), and what makes an empty buffer mean that everything is out. Theorems:
`WriteTypeCorrectness`, `WriteIndexInBounds`, `FlushMeansOut`, `ImplementsOutput`.

`DebugSessionProofs` (any processes, threads, ring capacity of at least two):
`Attached` ties the slot's pid and event flag to the worker's place; `Ring` says
that a handler in the middle of an undisturbed push holds the current head and that
there is still room, so that its store makes the ring non-empty; `Dying` orders
the kill callback behind the death; `EventWake` extends `NoLostWake` from the wait
back to the poll that found nothing. Theorems: `TypeCorrectness`,
`StopsAreAnnounced`, `WorkerIsWoken`, `DetachResumes`.

`SwBreakpointsProofs` (any addresses, slots, threads): `Fresh` says that what
`set_sw_breakpoint` read before it took the lock is still true behind it, unless
spoiled; `Empty` that outside a session the table is empty. Theorems:
`TypeCorrectness`, `SavedOnce`, `TextIsKept`, `DetachLeavesNothing`.

`TargetProofs` (any addresses, kinds and table sizes): `Empty` says that outside a
session the tables are empty, `WatchTable` that at most one watchpoint is in the table and
that slot and comparator are in use together. Without the first a detach would not be the
end of it, and without the second `moved` could be cleared while another comparator is still
astray. That the search for a slot ends at one of the set (`FirstIsMember`) needs
well-foundedness of the naturals. Theorems: `TableIsHardware`, `HitsAreKnown`,
`DetachDisarms`.

`ServerProofs` (any numbers of workers, sockets and slots): `Lifecycle` and `MainPlaces` say at
which places a worker and the accept loop have a socket, a slot, an event flag and a
thread; `ConnsAreHeld` and `SessionsAreHeld` are `SlotsAreHeld` with the owner of every slot
named, which is what makes it inductive: two workers with one slot would each give it
back. `FlagIsOwners` ties the flag in a session slot to the worker that has the slot.
Theorems: `TypeCorrectness`, `HandlesNameOneSocket`, `SocketsAreClosed`,
`SlotsAreGivenBack`, `FlagIsDeletedLast`, `ForeignRecvIsBounded`.

`MpscRingProofs` (any size of at least two, any handlers and events): distances on the
ring. `OnePusher` says that `phead` is the head while no pushes overlap, `PushHasRoom` that room
which `push()` found is still there, `WorkerIsRight` that what the worker has read
stays true: the ring non-empty, the value it is about to return, the part `clear()` is about to
drop. All of it only while `overlap` is false; the type invariant holds regardless. The
refinement then shows, for each step, what the sequence `contents` becomes. Theorems:
`TypeCorrectness`, `RingIsQueue`, `HasExcpTells`.

`LaunchProofs` (any processes): `WorkerPlaces` says what the worker has set at each of its
places, `StartsEarly` that a process created before its `run()` waits counts as early, so that
a start that does not is one the callback will announce; `DetachedPlaces` names the few
steps during which `detached` and a session coexist. Theorems: `TypeCorrectness`,
`RunHearsLateStart`, `NoExitOfLiveProcess`.

The second part of `TargetProofs` (any numbers of general and D registers, any words):
`gdb_serialize`, `gdb_deserialize` and `from_raw_id` agree. `Serialized` says which word of g each register is,
`OffsetValue` where `Offset` finds a register, `RoundTrip` that reading what was
written gives it back, `MaskedWrite` that P changes the one register, `ViewIsSet` that g answers
a whole set whichever is chosen and whatever the kernel reports. `Offset` is a fold over a
set; its sum is found without induction over data: a closed form satisfies the
fold's equation (`SumExists`), and any two solutions agree, since otherwise they would differ
on a set of least cardinality (`SumIsWords`, by well-foundedness of the naturals).
Theorems: `ReadsAgree`, `WritesAreRead`, `WritesStayLocal`.

`NextPcProofs` (any word size, memory, instructions and bitwise operators that meet the
assumptions): the invariant is that `result` is what `next_pc` returns, so nearly all of the
proof is about operators. Powers, quotients and bits come first, since the provers know
little of them: a power of two counts subsets, quotients are unique, a word is known by its
bits. Then each operation of `eval_alu` is shown to have the bits that `AluResult` gives it
(`AndIs` to `MovesIs`, together `EvalAlu`), `eval_cond` to be the architecture's conditions
(`ConditionIs`), and each group of opcodes to end where the processor does (`AluIs`,
`LoadIs`, `MultipleIs`, `TableIs`, together `TakenIs`) or in `unreachable!()` (`PanicIs`).
Theorems: `StepsLikeTheProcessor`, `PanicsExactly`.

Assumptions of the proofs are the named `ASSUME`s of the components: a buffer of at
least one byte, a ring of at least two slots (the code has 8) and fewer slots than a usize has
values, numbers of registers that are natural numbers, owners of threads are
processes, words of at least one bit, bitwise operators with the bits they should have,
instructions whose fields have their types, at even addresses, the kernel reports D registers, the reserved values (`NoPid`, `NoFd`, `None`) are not ordinary ones, and instructions
of the program are not the two patches.

Only model-checked: the liveness properties of `tcpconn`, `session_live`, `server` and
`launch`, and the two violations. Liveness and ENABLED are out of the prover's reach; every
other property of the runs is a theorem. `SwBreakpoints`, `Server`, `WriteBuffer` and `Launch` have
their type invariants as theorems only, `FlushedIsOut` likewise (`OutSpec` contains it).

## What is not modelled

All models are sequentially consistent; the one `Relaxed` store that matters
(`tcpconn.rs:119`) is listed as a hazard. Interrupt
masking in `write_user_text`, the asynchrony of process suspension, a join that fails,
a `GdbStub` that cannot be built, and the contents of memory are left out. A thread in the
panic handler spins; the models let it stop. What the kernel does with registers it is given
is external, the D registers it reports are not compared with anything. In `NextPc` the decoder
is external, and the target of a branch to an offset is not compared; IT blocks are no
input of `next_pc`.
Monitor commands, printing, FFI bindings, process and library queries are I/O without
state of their own. `cp14.rs` and `mep.rs` write device registers, and `enable_debug`
returns before it uses them.

## Plan

DebugSession on top of MpscRing, without the premise `raced`.
