# A TLA+ model of Luminara-OS

Luminara-OS is a 32-bit hobby kernel: a heap, interrupt dispatch over two 8259
PICs, a round-robin task scheduler, PS/2 keyboard and mouse drivers, a text
terminal, a PCI scan, a driver for the AMD Am79C973 network card and the
beginnings of Ethernet and ARP.  This directory holds the specifications of its
parts, the TLC configurations that check them on small instances, and proofs.
Source paths below are relative to the repository (`src/` holds the `.cpp` and
`.s` files, `include/` the headers).

Contents: 1 the system, 2 the plan, 3 the modules, 4 the runs, 5 bounds,
6 fairness, 7 what is proved, 8 what the checks found, 9 what is not modelled.

## 1. The system

One address space, one CPU, no user mode.  `kernel_main` (`src/kernel.cpp`) builds
every object on its own stack, activates interrupts, resolves the gateway's
address through ARP and halts between interrupts.  All concurrency comes from
interrupts: a gate clears IF, so that a handler runs to its end, with one
exception (the ESC key), and preempts `kernel_main` or a task anywhere.  Devices
run in parallel with the CPU.  Nothing is persistent: there is no crash recovery.

| component | state | operations | interacts with | what is hard | what must be true |
|---|---|---|---|---|---|
| Memory manager (`src/memory_manager.cpp`) | `first`, the chunk headers in the arena | constructor, `malloc`, `free` | callers: PCI scan (driver objects), `EthernetFrameProvider::send` | split and merge histories, `size_t` overflow, exact fits | chunks tile the arena; no block is handed out twice; free space is not lost; failure is honest |
| Interrupt manager (`src/interrupts.cpp`) | `active_interrupt_manager`, `handlers[256]`, the IDT; the PICs' registers; IF | constructor, `activate`, `deactivate`, `handle_interrupt`, handler registration | stubs call it; it calls drivers and the scheduler; it programs the PICs | nesting in the ESC handler, EOI order, the window in `deactivate` | every EOI ends the interrupt it is for; contexts survive |
| Task scheduler (`src/task_scheduler.cpp`) | `tasks`, `num_tasks`, `current_task`, each task's stack and `cpu_state` | `Task()`, `add_task`, `schedule` | called for the timer | stack pointers stored and loaded at any instruction | the stored pointer is the innermost frame of that task; every task runs |
| Interrupt stubs (`src/interruptstubs.s`) | `interrupt_number`, the words on the stack | one stub per vector, `interrupt_bottom`, `interrupt_ignore` | CPU, `handle_interrupt_wrapper` | the stack must balance on every path, across a switch, and with other stubs between any two instructions behind the ESC handler's `sti` | the interrupted code sees nothing |
| Am79C973 driver (`src/am79c973.cpp`) | two descriptor rings, the driver's two ring positions, CSR0 | constructor, `activate`, `handle_interrupt`, `send`, `receive` | the card (shared rings), Ethernet provider (callback), `kernel_main` | card and CPU share descriptors; `send` from `kernel_main` and from the handler; acknowledging | frames once and in order; no frame stuck in a ring; buffers not shared |
| Ethernet provider (`src/ethernet_frame.cpp`) | `handlers[65535]` | handler constructor and destructor, `on_raw_data_received`, `send` | driver below, ARP above, heap | byte order of the table's key, destroyed handlers, a heap block per frame | a frame reaches the handler of its type, and only if it is for us |
| ARP (`src/arp.cpp`) | cache of 128 pairs | `on_ether_frame_received`, `request_mac_address`, `get_mac_from_cache`, `resolve` | Ethernet provider | waiting loop against the handler, lost answers, full cache | what `resolve` returns was answered |
| Keyboard (`src/keyboard.cpp`) | shift, ctrl, alt, caps, E0 flag | `initialize`, `activate`, `reset`, `handle_interrupt` | terminal; sets `tasks_should_stop` | lost and repeated scan codes, reset in between | modifiers follow the keys |
| Terminal (`src/terminal.cpp`) | cursor, colour, video memory | `put_char`, `printf*`, `scroll_screen`, setters | everybody, from handlers too | `kernel_main` interrupted inside `put_char` | cursor stays on the screen |
| Mouse (`src/mouse.cpp`) | packet buffer and offset, x, y | `initialize`, `activate`, `reset`, `handle_interrupt` | video memory | lost bytes, acknowledgements that look like data, 8-bit arithmetic | packets get out of step by known causes only; the pointer leaves no trail |
| Driver manager, drivers (`src/driver_manager.cpp`, `src/driver.cpp`) | table of drivers, `is_active` | register, unregister, initialise, (de)activate, reset all, shut down | PCI scan, `kernel_main`, the table of interrupt handlers | order of calls; drivers that share a line; `kernel_main` casts the last driver | the table is a list; a line leads to the driver last constructed for it |
| PCI (`src/pci.cpp`) | where the scan is | `select_drivers`, base address registers | heap, driver manager | fields left uninitialised, a full heap or table | every card's driver gets that card's port |
| GDT (`src/gdt.cpp`) | four descriptors | encoder, decoder | `Task()` | limit granularity | decode inverts encode, up to a page |
| Ports, loader, build | none | one instruction each | | | |

`PROJECT.json` lists every component with its status, and every hazard of the
code at its line with the properties aimed at it.

## 2. The plan

The order is that of importance: what all else stands on first.

1. `Allocator`, `MemoryManager`, `MemoryManager_proofs`: the heap, its abstract
   specification, refinement, and proofs.  *Done.*
2. `InterruptManager`: dispatch, PICs, scheduler, nesting.  *Done.*
3. `InterruptStub`: the words on the stacks.  *Done.*
4. `Am79C973`: card, handler and `kernel_main` on the rings.  *Done.*
5. `AddressResolution`, `AddressResolution_proofs`: the cache, the loop of `resolve`
   against the handler, lost, duplicated and late messages, and proofs.  *Done.*
6. `Terminal`, `Keyboard`, `Mouse`, composed in `Console`: three writers of one screen;
   scan-code sequences and mouse packets with losses.  *Done.*
7. `DriverList`, `DriverManager`: registration and the life of a driver, the interrupt
   manager's table of handlers, shown to implement a list.  `PCI`: the scan.
   `EthernetFrame`: the provider and its handlers.  `Kernel` composes them in
   the order of `kernel_main`.  `DriverManager_proofs`: the refinement and the table of
   handlers, proved.  *Done.*
8. `Boot`: the encoding of segment descriptors and the arguments of the heap, proved.
   *Done.*
9. Proofs of every safety and action property the runs check: `InterruptManager_proofs`,
   `Am79C973_proofs`, `Kernel_proofs` (the scan and the provider), `Console_proofs` (terminal,
   keyboard, mouse), `Machine_proofs` (stubs and `Boot`).  *Done.*
10. To come: the stages of `interruptstubs.s` composed with `InterruptManager`'s frames (each
    has its own stacks so far); an abstract specification of the card's rings as a queue,
    with `RxInv` as the ground of the refinement; what `DriverManager`'s theorems give the
    interrupt manager, which has its handlers fixed.

Modules to be proved about declare their parameters as CONSTANTS with a named
assumption, have one action per operation, and use no RECURSIVE operator.

## 3. The modules

**`MemoryManager`** maps the address of every header on the list to its contents
(`mem`).  `MallocCall`, `MallocSkip`, `MallocTake` and `MallocFail` are the entry, one
iteration of the loop, and the two ends of `malloc`; `Free(c)` is the whole of `free`
with both merges.  One action each is faithful: no interrupt handler of the
kernel calls either.  Every sum of `size_t` values is taken modulo `WordSize`.

**`Allocator`** is what the heap promises, without a list: a set of live blocks, one
added or removed per step, disjoint from the others.  `MemoryManager!ImplementsAllocator`
states the refinement; `LiveBlocks` is the mapping.

**`InterruptManager`** has a stack of frames per context (`Boot`, where `kernel_main`
runs, and one per task).  `Deliver` is the CPU and the stub's pushes, for the most
urgent request the PICs let through; `Schedule`, `HandleDevice`, `HandleEscape` and
`Ignore` are the branches of `do_handle_interrupt()`, `Eoi` its end, `Return` the stub's
way out on whatever stack pointer was answered.  `HandleEscape` sets IF, so that
`Deliver` may come between it and its `Eoi`.  `cpu_state` holds what `schedule()`
stores.  `Deactivate` and `DeactivateCli` are the two stores of `deactivate()`.
`ignored` is a history variable.

**`InterruptStub`** looks into a frame: every push and pop is a word, tagged with the
context, the number of the interrupt and the `CPUState` field it belongs to, so that a missing
or extra word shows up as a register with the wrong tag.  IF and the place in the code are
words too (`eflags`, `eip`), so that the gate saves and the `iret` restores them.  From the gate
to the call IF is clear, and an action is a run of pushes.  `Sti` is the ESC handler's; from
there on an action is one instruction (`WrapperReturns`, `SwitchStack`, `PopRegister`,
`DropErrorCode`, `Iret`), and `Interrupt` may come between any two of them: another stub then
writes `interrupt_number`, pushes its frame on top, and may leave for another stack by
`Schedule`, to come back to the middle of the outer stub.  `interrupted` is a history: what
each interrupt under way on a stack has interrupted, the innermost last.  What handlers do
otherwise is `InterruptManager`'s affair; which tasks exist and which of them `schedule()` picks is
left open here.

**`Am79C973`** has three actors on the two rings: the card (`Arrive`, `Transmit`),
`kernel_main` in `send()` (`SendClaim`, `SendAdvance`, which is a load and a store of
`current_send_buffer`, and `SendPublish`: the points between which it can be preempted
differently) and the interrupt handler (`Interrupt` to
`Acknowledge`), which may itself call `send()` for an answer.  A received frame is its
number; `bytes` keeps which frame was last stored at each buffer's start.  `inTurn` and
`seen` are history variables.

**`AddressResolution`** has `kernel_main` in `resolve()`, one action per test of the search
loop (`Return`, `Advance`, `NotFound`) and one for the request, and `Deliver`, the handler
`on_ether_frame_received()` called between any two of them.  The arrays hold
`Junk`, or what looks like an address, until they are written.  `network` only grows: a
message can be delivered late, twice or never, and a station may answer what nobody has
asked.  Who calls the handler is external; at
this commit nobody does (section 8), so the module says what the class does for a
caller that keeps the provider's convention.  `claimed`, `askers` and `resolved` are
histories.

**`Terminal`** gives each function of `terminal.cpp` as an operator on a screen (cursor,
the cells that do not show a space, and the cells whose two colours are exchanged), and
`put_char_colored()` a second time as `kernel_main` executes it, one load, store or test
of the shared variables per action (the `Makefile` asks for no optimisation), scrolling
one cell at a time.  `begun` and `disturbed` are histories.  `kernel_main` may print any
character, also `\b` and `\r`, which no caller passes at this commit.

**`Keyboard`** extends it with the keys, the bytes under way (`queue`), the driver's flags
and `handle_interrupt()`, one action per path, which applies the terminal's operators
at once: the handler is not interrupted while it prints.  Each byte remembers the key
that sent it and, for a key that shows the modifiers, the character expected at that
moment (`shows`); the handler looks at neither.  `Initialize` discards any part of what is
under way, `Activate` enables interrupts.  Acknowledgements of commands (0xFA) are not among
the bytes: the driver sends its commands before interrupts are enabled, and the keyboard
drops what it had not sent when a command comes, so that none falls into a sequence.  `missed`, `lock`, `torn` and `capsRepeated` are
histories.

**`Mouse`** writes the same screen: the pointer is a cell with exchanged colours.  Its
bytes (`sent`) are those of packets, acknowledgements and what follows a reset; each
`data_port.read()` of the driver takes a byte only if one has arrived by then (`Read`,
`ReadPort`), `LoseByte` is a byte that the driver never sees, and `HandleByte` one interrupt.
`InitializeMouse` is `initialize()` as the constructor and the driver manager call it, before
interrupts are enabled.  `reset()`, with the `initialize()` behind it, runs with interrupts
enabled: it is one action per access (`BeginReset` to `ReadAck`, `resetting` says which is
next), and `HandleByte` may come between any two.  `cell` is what it has loaded of the
starting cell; the three loads of the same cell are one action.  `starts` and `slip` are
histories: how often the starting cell was turned over, and by how many bytes answers and
losses have put the driver out of step with the packets.

**`Console`** interleaves the three.  A session (a member of the constant `Sessions`) says
which keys, how many characters and how many mouse packets there are, so that one run
covers several mixes without their product.

**`DriverManager`** has the array `drivers` with its count, the interrupt manager's table
`handlers`, and for each driver the lifecycle function last called on it (`phase`).
`Construct` and `Destroy` are the constructor and destructor of `InterruptHandler`, every
other action is a function of `driver_manager.cpp`.  `latest` is a history.
**`DriverList`** is what a user relies on: a list of distinct drivers in the order of
their registration; `DriverManager!ImplementsDriverList` is the refinement, `List` the mapping.

**`PCI`** is `select_drivers()`, one function of the bus per step, or two when a driver is
constructed and then registered.  A result that `get_base_address_register()` leaves
unwritten is a choice (`Ports`): nothing, or what the iteration before left on the
stack.  The heap has `room` for some number of drivers.

**`EthernetFrame`** has the stages of the provider's construction (announced to the card
by the base class, then clearing its table from `index` on, then up), of each
handler's (`base`, `derived`), and `on_raw_data_received()` between any two of them.  An
ether_type is the number the host computes with; `Swap` is the byte order of a
frame.  The table is kept at the indices that any handler or frame can name.  `lost` is
set when a call goes through what is no handler, and ends the behaviour.

**`Kernel`** composes the three modules in the order of `kernel_main` (`KernelMain`), with
frames arriving once interrupts are enabled (`Hears`: the line leads to a card's driver, and
a provider was announced to that driver).  Two more callers stand for uses of the
headers that `kernel_main` does not make: `CallManager` calls the driver manager in any
order, `CallProvider` constructs and destroys providers and handlers, in memory that is
not clear.

**`Boot`** holds functions only: what `gdt.cpp` encodes and reads back, and the size of the
heap.  They have no state to explore; `Machine_proofs` says what holds of them.

Operators called a mutant in their comment belong to no specification.  Each is a
plausible wrong version of the definition below it, and replacing that definition
by it must make the property named in `PROJECT.json` fail.

## 4. The runs

| run | question | result |
|---|---|---|
| `MCMemoryManager` | does any history of calls break the list or the promise to callers? | passes: all safety properties, `MallocReturns`, refinement |
| `MCInterruptManager` | do contexts, EOIs and the round robin survive nesting, switching and `deactivate`? | passes |
| `MCInterruptManager_lost_eoi` | is EOI always sent? | violated, see 8 |
| `MCInterruptStub` | are stubs transparent where the words balance, nested and switched away anywhere behind `sti`? | passes |
| `MCInterruptStub_exceptions` | and for every exception vector? | violated, see 8 |
| `MCAm79C973` | are frames received once and in order, and does the card come to every frame sent? | passes |
| `MCAddressResolution` | does `resolve` return only what was answered, always the same, and at all? | passes |
| `MCConsole` | do the flags follow the keys, is the cursor on the screen whatever handlers do between two steps of `put_char`, is the pointer one cell, how far are packets out of step? | passes |
| `MCKernel` | is the table of drivers a list, does a line lead to the right driver, does the network run on a card through its port, and are frames passed to living handlers only? | passes |
| `MCKernel_wrong_key` | does a frame of ARP's type reach ARP? | violated, see 8 |
| `MCAm79C973_strand` | is every frame that arrives served? | violated, see 8 |
| `MCAm79C973_overlap` | is the frame passed on the one stored? | violated, see 8 |

Some properties carry a condition that the code does not enforce, and the condition
is the point.  `SendRingHasNoGap` and `SendsComplete` hold while `inTurn` does:
`send()` neither excludes a second sender between reading `current_send_buffer` and
advancing it, nor looks at OWN before it reuses a descriptor.  Either makes the
driver's and the card's positions part, and a frame waits until the ring has come
round.  `EoiUnlessAbandoned` names the one place where an EOI is lost.
`EveryTaskRuns` asks that the manager stay active.
`ModifiersAgree`, `PrefixApplies` and `TypedAsHeld` except what `initialize()` causes when it
throws away a press or half a sequence (`missed`, `torn`), and `TypedAsHeld` a caps
lock key held until it repeats: the driver cannot tell a repeat from a press.
`PrintsExactly` is about calls that no handler disturbed.  `PacketsSlip` has no exception: it
says how far out of step the mouse's driver is with the packets, at each byte, and behind
`activate()` that is not zero (section 8).  `PointerAlone` says where the pointer's colours are on a screen that
nobody else writes, including the starting cell that every `initialize()` turns over
again.  `HandlersAreActive` excepts a driver for which the manager's table had no room,
whose line still leads to it.  `NetworkOnCard` is about machines with a card, and says
nothing of its port if the card has no I/O address.  `CallsAreLive` excepts the entries
not yet cleared, type 0xFFFF, one past the table, and a destroyed handler whose type is
not the same in both byte orders.  `ResolveReturns` says that a
stored answer is enough; nothing repeats a request whose answer is lost.
`InServiceMatchesFrames` and `EoiUnlessAbandoned` except an interrupt that hits the window in
`deactivate()` (`ignored`): it gets no EOI.  `Balanced` (in `MCInterruptStub`)
leaves out the exceptions without an error code, for which `Transparent` is false, as
`MCInterruptStub_exceptions` shows.

A property with such an exception does not catch the hazard it excepts; it shows that this
hazard is the only one.  The notes of the hazards in `PROJECT.json` say which these are, and a
hazard all of which is excepted names no property.

## 5. Bounds

* Heap: eleven bytes with two-byte headers hold up to four chunks, so that every
  combination of free and used neighbours occurs around a `free`; the arena ends at
  the top of a 5-bit address space, and the requests include 0, exact fits, sizes one
  and two headers too large, and sizes whose sum with a header wraps.
* Interrupts: timer, keyboard and one line of the slave PIC are the three kinds the
  code tells apart.  Two tasks fit in the table and a third add finds it full.  Two ESC
  presses let a handler nested in an ESC handler be on another task's stack than a
  second ESC handler.  `kernel_main` may add fewer tasks or none.
* Stubs: three stacks, with two interrupts under way on each (`MaxDepth`): one behind the `sti`
  of another, or an exception in a handler, on every stack at once.  A vector of each kind that
  the stubs tell apart: timer, keyboard, an exception with an error code and one
  without, and a vector with no stub.  The two tasks are interchangeable (symmetry): no
  action and no property tells one from the other.
* Card: rings of three descriptors (eight in the code), three frames, with answers,
  and two sends: five frames for three send descriptors, so that the ring wraps,
  fills and is lapped.  `MCAm79C973_overlap` uses the code's eight buffers.

* Address resolution: a cache of two entries is filled by duplicates of one answer; two
  calls and three messages (answer, change of adapter, answer) are what it takes for
  a second answer to differ from the first.
* Keyboard: five key events and three bytes under way: a key held before another,
  both shifts, a repeat, a release still under way when the next key is struck.
* Terminal: four columns (a tab stop) and two rows (one to copy, one to blank); three
  characters print to the bottom and beyond, two interrupts fall between any two steps.
  Backspace stands for Delete too, which calls the same function.
* Mouse: two packets, or one and a reset, which may come in the middle of it, with the handler
  between any two steps of it; the driver is set up in the same run, so that packets behind
  `activate()` are read out of step by none, one or two bytes; movements of 127 and -1 (255)
  leave the screen on every side, and wrap the 8-bit coordinates.
* Drivers: four, and a table of three: one is turned away.  Two of them share a line with
  others.  The machines have no card, one, two or three, behind devices with one function
  and with two (eight in the code: the loop is the same), with and without an I/O address,
  next to bridges and to devices without a driver.  `handlers` has the lines in use.
* Frames: handlers of ARP's type, of its byte-swapped type and of a type that is the same
  in both orders; frames of these, of an unhandled type and of 0xFFFF, to us, to everybody
  and to somebody else.  The table has its real length; the loop that clears it is
  stepped over the indices that nothing names.

## 6. Fairness

* `AddressResolution`: `resolve()` keeps executing.  No message has to be sent or delivered.

* `MemoryManager`: a call of `malloc`, once made, keeps executing (the CPU does not
  stop); nobody has to make a call.
* `InterruptManager`: the CPU executes and takes interrupts it may take (weak); the timer
  ticks for ever (weak, it is a free-running device); an ESC handler, which runs with
  interrupts enabled, reaches its EOI although ticks may interrupt it (strong: a handler
  has a few instructions left, and a tick comes every 55 ms).
* `Am79C973`: the handler and both senders keep executing, the line of a card with a
  status bit set is answered, the card polls its send ring.  No frame has to arrive.
  `InterruptStub`, `Console` and `Kernel` have no liveness property: what would be worth
  saying there, that ARP hears its answer, is false.

## 7. What is proved

`MemoryManager_proofs` proves, for every start, size, header size, word size and set
of requests that satisfy `HeapAssumption` (the arena fits in the address space and does
not contain address 0), each safety and action property of `MCMemoryManager` and the
refinement of `Allocator`, and that a heap all of whose blocks were freed is one chunk
again (`NothingIsLost`).  Only `MallocReturns` stays with TLC.

None of the properties is inductive alone.  The inductive invariant is

    HeapInv == TypeOK /\ Tiled /\ Coalesced /\ Scanned

`Tiled` says that headers lie end to end, that `next` and `prev` mirror each other and
that extents do not overlap; the last part is what makes the split's new header a new
address and the merged header a neighbour.  `Coalesced` needs `Tiled`, because a merge
looks at links.  `Scanned` says that every chunk below the cursor of `malloc` does not
fit, which gives `FailsOnlyWhenFull` when the cursor runs out.  The proof first treats
`Split` and `Absorb` as operators on an arbitrary tiled heap (lemmas with
ASSUME ... PROVE), then `Free` through the state in which a freed chunk may have free
neighbours on one side (`ClosedExcept`), then one step per action.
`FreedHeapIsWhole` follows from `Tiled` and `Coalesced` alone.

`AddressResolution_proofs` proves every safety property of `MCAddressResolution` for any
cache, stations, adapters and numbers of calls and messages, from `AddressAssumption` (no
station has our address, no adapter the broadcast address).  Its inductive invariant is

    IInv == TypeOK /\ Honest /\ Written /\ Searched /\ Remembered

`Honest` and `Written` say that what is under way, and what the cache holds below its
count, was sent by a station; `Searched` that the entries a search has passed are of other
addresses, although the handler appends behind it; `Remembered` that what `resolve()`
has returned is the first entry of its address.  The last two give `ResolvesAgree`: the
search stops at the first entry, and that one never changes.

`DriverManager_proofs` proves, for any size of the table, any drivers and lines and any
order of calls (`DriversSpec`), that a line's handler is the living driver last built for
it (`LinesLead`) and that the manager implements `DriverList` (`Refinement`), from
`DriverAssumption` (the table has an entry, the null pointer is no driver).  Its inductive
invariant is

    IInv == DriversTypeOK /\ Living /\ Distinct /\ Quiet /\ LineHasLatest

`Living` (what is registered was constructed and not destroyed) makes a lifecycle call
leave the set of living drivers as it is, on which `LineHasLatest` depends.  With
`Distinct`, shifting the array over the entry that `find_driver_index` returns takes
exactly one driver away; `Quiet` (what is not registered never ran or was deactivated)
is what the abstract `Go` asks for.

`Kernel_proofs` proves that `kernel_main`'s order of calls is one of those
(`KernelKeepsTheRules`: every step of `Kernel` is a step of the manager or leaves it alone), so
that both results hold in the kernel (`LinesLeadInTheKernel`, `KernelFillsAList`), and the four
properties of `MCKernel` about the scan and the provider, for any bus, any number of cards and
a table of any length below 256 (`driver_count` is a `uint8_t`).  The invariant of the scan,
`KernelInv`, says which drivers exist at which stage of `kernel_main`.  `NetworkOnCard` is about
the *last* card, so it needs that the scan passes every place of the bus once and in order
(`ScanProceeds`), that each card passed was constructed, and registered if the table had room
(`Entered`, `Counted`), and that nothing is registered behind the last card's driver
(`LastRegistered`).  `EtherInv` adds to the properties that an entry of the provider's table, once
cleared, is empty or an object constructed for that entry's number, and still there unless
the number reads otherwise in the other byte order (`TableInv`), and that no handler lives
without a provider (`HandlersWithin`).

`InterruptManager_proofs` proves the five safety and action properties of `MCInterruptManager`
for any number of tasks, any lines and any number of ESC keys.  The inductive invariant is

    IInv == TypeOK /\ ContextIntact /\ OnlyEscapeNests /\ InServiceMatchesFrames
            /\ StacksSettled /\ TopSettled /\ SwitchSettled /\ InactiveSettled /\ EoiOrder

The four `Settled` parts say where frames can be: whoever does not run is asleep in its
innermost frame; `kernel_main`, once it has given the CPU to a task, never has it again; IF is
set in a handler only behind the ESC key's `sti`; a stack pointer that is not the handler's own
belongs to a timer tick and to a task's innermost frame.  Without them `ContextIntact` breaks in
the step that loads the pointer.  `EoiOrder` is the heart of `EoiEndsOwn`: a non-specific EOI
ends the most urgent request in service, so each handler that still owes one must be the most
urgent, or be interrupted by the timer, and one that is on the slave must be alone there.  It
is inductive only with the nesting parts: they bound who can be interrupted by whom.

`Am79C973_proofs` proves the three safety and action properties of `MCAm79C973` for rings of any
length, any number of frames and sends, and buffers of any geometry.  For the receive ring the
invariant is `RxInv == TypeOK /\ AnswersInside /\ Queue /\ Order`: the host's descriptors are
those from the driver's position up to the card's (or all, or none, when the two meet), and
they hold ever later frames.  For the send ring, `Laid` relates the card's place, the driver's
position, the descriptors with the card and those that a sender has claimed and not yet
published.  `NoGap` alone is not inductive: a promise kept in a full ring would leave one, which
is what `Overrun`, `Doubled` and `Settled` exclude, and `LastCome` and `Turns` say where the handler's
`send()` can have cut in.  The lemmas on `Distance` along a ring are what the proofs have in
place of arithmetic with remainders, and are proved once.

`Console_proofs` proves every property of `MCConsole` for any screen (a width divisible by the
tab stop, at most 128; fewer than 256 rows), any sessions, and handlers that come
between any two steps of `put_char_colored()`:

    ConsoleInv == TerminalInv /\ MouseInv /\ PointerInv
                  /\ KeyboardTypes /\ KeysInv /\ TypedInv

* `TerminalInv`: the cursor is to the right of the screen only before the test for the right edge
  has stored a new column, below it only until the screen has scrolled, and the value in the register still
  fits the screen.  A handler leaves the cursor on the screen if it finds it near: hence
  what it does between two loads of `kernel_main` is harmless to `CursorOnScreen`.
* `MouseInv`: what is under way is the rest of a packet, and then whole packets and answers in
  any order (`Packets`), and the driver's offset is the part that the next byte of a packet will
  be, plus `slip`, modulo three (`Lined`): `PacketsSlip` speaks of that only when a packet's byte
  is next, and is inductive only when the answers before it are counted too.
* `PointerInv`: the exchanged cells are those of the pointer and, after an even number of
  `initialize()`, the starting cell (`Flip`, `Origin`).  A `reset()` that stores the cell it has
  loaded, after the handler has moved the pointer onto or off it, undoes that; `starts` counts
  it only if the store turned the cell over.
* `KeysInv`: a prefix is followed by its byte (`Sequences`), the last byte under way of a key says
  what the key is (`LastWords`), and a key of which nothing is under way is pressed for the
  driver exactly if it is down, which is `ModifiersAgree`.
* `TypedInv`: each byte under way shows what the driver's flags will make of it once the bytes
  before it are served (`Foretold`), by `Down` for the shifts and by the parity of the presses of
  caps lock before it (`Locked`).  `TypedAsHeld` speaks of the first byte only, and is
  inductive only with the whole queue.

`PrintsExactly` has an invariant of its own (`PrintInv`): at each stage of `put_char_colored()` the
screen is the one that `PutChar` is still to complete (`Progress`), in the scroll loop that
of which a prefix of cells has moved up (`Moved`).

`Machine_proofs` proves `Transparent` and `FrameIsCPUState` for any contexts, any depth of
nesting and any vectors among which each exception has an error code (`Balances`: without it
they are false, as `MCInterruptStub_exceptions` shows).  The invariant is

    StubInv == StubTypes /\ (\A x \in Contexts : Chained(x)) /\ Running
               /\ (\A t \in Tasks \ {current} : Parked(t)) /\ Numbered /\ Answered

`Running` says what lies on the current stack and in the registers at each place of the stub, in
terms of what this interrupt has interrupted (`Stage`).  `Chained` says the same of each
interrupt under way on any stack, at the instruction where the next one cut in: a pop restores
what was pushed whether the stack is a handler's or that of a stub half-way out, and the `iret`
of the inner interrupt makes the outer one's entry the `Running` one again.  `Parked` says
that what `schedule()` has stored of a task is the innermost `CPUState` on its stack, with
all that is below it; `Numbered`, that between a stub's write of the shared byte and its call no
other has written it, which rests on IF being clear there; `Answered`, that the stack pointer
in `eax` is of the one or the other kind.  It also proves, for every 32-bit
argument and from no assumption, that a descriptor's limit is read back as it was
given or up to a page short of it and never beyond (`LimitRoundsDown`), that its base is
read back unchanged (`BaseIsKept`), and that the heap of `kernel_main` lies in the machine's
memory exactly if there are 10250 KiB of upper memory (`HeapInMemory`): with less, the
size wraps.

The assumptions on constants, each named in the module that declares them, say what the code's
own constants and types say: a card has an ordinary header and is no bridge
(`BusAssumption`), `driver_count` is a byte (`KernelAssumption`), a null or uninitialised pointer
is no handler (`EtherAssumption`), a row has at most 128 columns, so that the row below the screen, where a
cursor can be for a moment, is among the cells the type invariant allows (`ScreenAssumption`;
the code has 80).  `Printf` prints the three
characters that its callers pass, where a fold over any string would need induction.

What stays with TLC: liveness (`MallocReturns`, `EveryTaskRuns`, `EoiUnlessAbandoned`,
`ResolveReturns`, `SendsComplete`, `SignalledFramesAreServed`), because the provers know neither
fairness nor ENABLED; and the five properties that are violated.  Every other property of a passing run is a theorem.

## 8. What the checks found

* `EoiAlwaysSent` (`src/interrupts.cpp:182`): a tick nested in an ESC handler that
  interrupted `kernel_main` abandons that handler for ever.  Needs a task in the
  table; at this commit the tasks are commented out (`src/kernel.cpp:129`).
* `ExceptionsReturn` (`src/interruptstubs.s:8`): exceptions without an error code return
  through a frame that is one word off.
* `EveryFrameIsServed` (`src/am79c973.cpp:147`): acknowledging after `receive()` what was
  read before it clears the signal of a frame stored in between.
* `ResolutionHearsAnswers` (`src/ethernet_frame.cpp:7`): a handler is entered under its type
  in the host's byte order and looked up under it in the network's.
* `FramesArriveIntact` (`include/am79c973.h:74`): the dimensions of the buffer arrays are
  swapped; consecutive buffers are eight bytes apart.

The mouse, if it were used, would be out of step from its first packet.  `activate()`
(`src/mouse.cpp:44`) sets `offset` to 0 and sends 0xf4, and nobody reads the answer: the handler
takes it for the first byte of a packet, so that the packet's first byte is read as the
horizontal movement, its second as the vertical one, and its third as the next packet's first.
`PacketsSlip` says so: `slip` is 1 behind `activate()` if the reads in `initialize()` came in time
for the answers before, 2 or 0 if one or two of those were left as well, and stays there until
bytes are lost or the driver is reset.  `reset()` adds its own answers, of which it reads two at most.  No run is
violated by it, because no line of the repository claims the contrary: `kernel_main` has the
mouse in a comment (`src/kernel.cpp:151`), and the repository's `README.md:11` calls it "WIP".
`reset()` is also interrupted by its own handler: a pointer that moves onto or off the starting
cell between the load and the store of it (`src/mouse.cpp:22`) is overwritten.

Seen while reading, with no run of their own: a task that returns uses a return address
nobody wrote (`src/task_scheduler.cpp:5`; the model's `LeaveTask` ends there); the
size of a received frame is taken from the length of the buffer
(`src/am79c973.cpp:191`); ARP's handler has another name than the virtual function
it should override (`src/arp.cpp:14`, `include/ethernet_frame.h:28`), so that even a frame
under the right key would be ignored, and `resolve()` cannot return.

Without a card, `kernel_main` takes the keyboard's driver for the network card's
(`src/kernel.cpp:175`; the model ends at `astray`).  Registering drivers and constructing them are
separate: a driver that the full table turns away keeps its interrupt line.  `activate()` of
a driver runs before interrupts are enabled, which is what keeps `handle_interrupt()` from
racing it.  Each `initialize()` of the mouse turns the starting cell's colours over, so that
the constructor and `initialize_all_drivers()` together hide the pointer; a fast movement to
the right wraps to the left edge, and a vertical one can leave the screen by up to a
packet's movement (`src/mouse.cpp:95,113`).  `loader.s` does not call the constructors that
`linker.ld` collects; the sized `operator delete` is empty (`src/driver.cpp:14`); GDTR's limit
is the table's size, not one less (`src/gdt.cpp:11`).

The screen of a terminal whose put_char() is interrupted can show less than was
printed: `kernel_main` may write to a cell that the handler has just filled or scrolled
(`src/terminal.cpp:125`).  The hardware cursor's index register is shared in the same way
(`src/terminal.cpp:36`).  `handle_backspace()` at the start of a line erases the last character
of the line above (`src/terminal.cpp:159,166`).  A held caps lock key toggles with every
repeat (`src/keyboard.cpp:256`).

## 9. What is not modelled

`PROJECT.json` lists what is `partly` modelled and why.  For good: port functions, the
loader's stack set-up and the build (no state), wording and colours of what is printed,
calls the code gives no meaning (double `free`), the contents of sent frames and the heap
blocks they are copied to (`EthernetFrameProvider::send` never frees them), sizes of frames, the hardware cursor, the keyboard
controller's configuration byte, and `deactivate()` and `reset()` of the keyboard, which no code calls while the
kernel runs: what a keyboard sends after a reset is not in the code.  What an exception costs in stack bytes
(`src/keyboard.cpp:284`) is left out as well.  Exceptions and software interrupts are in
`InterruptStub` only; non-maskable interrupts are in no module, and neither are the spurious
interrupts of the PICs (a request on line 7 or 15 that is gone when the CPU asks which it
was), for which the code has no case: it would send an EOI that ends another's service.  Tasks
that print while another task or `kernel_main` is in `put_char()` are left out of `Console`: the
tasks of this commit are in a comment (`src/kernel.cpp:129`), and what interrupts
`put_char()` there are handlers, which run to their end.
