# MAFIA: verification of the network on chip and of the tools around it

MAFIA is a system on chip in SystemVerilog (`source/`): RISC-V cores in a mesh
of tiles, or on a ring (LOTR), with caches, memory controllers, a UART gateway
and a few accelerators.  Nothing there runs as software would: every block is a
set of registers that move together at a clock edge, and all blocks move at the
same edge.  What is hard is therefore not the order of threads but what many
small machines do to one another in the *same* cycle: readiness that was true a
cycle ago, a push and a pop at once, a register that goes on changing while its
reader is stalled, an arbiter that forgets.

Around the chip stands a second system, in Python: the build script that compiles
and runs the tests, its GUI, the terminal that talks to the chip over a serial line,
and the scripts that convert files for it.  There the hard part is what one run leaves
behind for the next one, tools that fail, threads, and a line that loses bytes.

The hardware modules model the path of a memory access from one core to the memory
of another one and back: FIFO, arbiter, router, mesh, end point.  In all of them
**one step is one clock cycle**; combinational signals are operators, registers
are variables, and a handler is the whole `always` block of the edge.  The software
modules have **one action per stage, event or statement** that another actor, a
failure or an interruption can come between.

## 1. Inventory

| part (`source/`) | state | operations | interacts with | what makes it correct |
|---|---|---|---|---|
| `common/fifo.sv` | array, two pointers, counter | push, pop, both | every block that queues | a bounded queue; flags that match the contents |
| `common/arbiter.sv` | index of the last winner | one grant per cycle | routers, end points | one grant, to a candidate; a round robin, so that nobody waits for ever |
| `fabric/` (3 x 3 mesh, `router/`) | 5 x 4 FIFOs and 5 arbiters per tile | look-ahead lookup, allocate, arbitrate, forward | neighbours (valid/ready), the core of the tile | no loss, no duplicate, order per flow, right destination, no overflow, no lock-up |
| `mini_core/mini_mem_wrap.sv` | request and response FIFOs, `OutstandingReadReq`, response registers, data memory | local and remote load and store, WhoAmI, remote read and write served | the core (stall), the router | each load gets its own word; a store happens once; each remote read is answered once, with the right word |
| `mini_core/` pipeline (also `mini_core_rrv/`, `sc_core/`) | five stages, register file | fetch ... write back, stall, flush, forward | end point | an instruction takes effect once, with its own operands |
| `big_core/` (CSR, VGA, PS/2) | seven stages, CSRs | as above, and interrupts, exceptions | end point, devices | as above; a trap is precise |
| `mem_ss/d_cache`, `i_cache` | transaction queue with merge buffers, lookup pipe, tag and data arrays | lookup, miss, merge, fill, evict | core, memory controller | a load returns the last store; every miss is filled; one entry per line |
| `mem_ss/mc.sv`, `sdram_ctrl/` | request FIFOs; bank state machine, refresh counter | arbitrate, access, refresh | caches, DRAM | no request lost, response to the right cache; refresh in time |
| `lotr/rtl/rc` (ring controller) | C2F and F2C buffers with per-entry state machines, ventilation counters, age matrix | request, response, forward, broadcast | ring neighbours, core | no request lost or answered twice; the ring never fills up |
| `uart/gateway` | transfer engine, bus state machine, timers | read, write, burst, timeout | UART, ring | a transfer ends, with its own data |
| `mini_core_accel/` | systolic array control, multipliers | start, run, done | core through registers | a started product finishes with its own operands |
| `uart/` (uart16550, vendored), most of `FPGA/`, `app/`, `verif/` | | | | third-party or generated code, programs, test benches: left out |

| part (Python) | state | operations | interacts with | what makes it correct |
|---|---|---|---|---|
| `build.py` | files under `target/` and `FPGA/`; flags of each test, run status | compile software and hardware, simulate, FPGA, images, GUI of the simulator, post-process, clean | compilers, simulator, `ovrd_params.py`, `mif_gen.py`, post-process; its own earlier runs | a passed test ran, with the sources as they are; a failure is reported; no tracker is overwritten |
| `scripts/gui_build.py`, option panel | check boxes, entries, the command shown | clicks, selections, keys | lists of `gen_parameter_list.py`; the command goes to `build.py` | the boxes never contradict one another, and the command says what they say |
| `scripts/gui_build.py`, output | a process and a thread per command, a queue, polls, a window | run, print, read, poll, close | the process of `build.py` | lines in order, none missing, threads end |
| `scripts/pyterminal/` | input buffer of the port, place in a transfer or a file | write, read, and both in bursts | the gateway over a serial line | memory as asked, true reads, the prompt comes back |
| `verif/mem_ss/pp/` | two trackers, a temporary file | order each tracker, compare | run by `build.py` on its files | the verdict is about what was simulated, on a rerun and after an interruption too |
| `FPGA/big_core/scripts/mif_gen.py`, `scripts/vga_parser.py` | | convert a file | called by `build.py`, by hand | the image holds the program; the text shows what was drawn |
| `scripts/ovrd_params.py`, `gen_parameter_list.py` | the sources, in place | override, list | called by `build.py` and the GUI | they agree on what is a parameter |
| `sanity_check.py`, `create_unit*.py`, other generators, `app/flappybird/` | | | | straight-line scripts and a game: left out |

How they interact: a core's remote access enters `c2f_req_fifo`, leaves through
the tile's arbiter into the router, crosses the mesh rows first, enters the
memory of the destination tile when that tile is ready, and for a read comes back
the same way as an `RD_RSP`, which carries no tag: the core recognises it only by
having at most one read outstanding.

A developer sets the boxes of the GUI, whose command `build.py` runs: the override
rewrites the sources, the compilers fill the directory of the test, the simulation
adds trackers and a transcript, the post-process orders and compares them, `mif_gen.py`
makes the images of the board.  A second run finds all that.  The terminal then loads
a program over the line: it sends a command byte by byte, the transfer engine of the
gateway collects it, plays it on the bus, and answers with an acknowledge and words
that carry no tag either: what is in the input buffer is taken for the answer.

The hazards of this code are listed, line by line, in `PROJECT.json`.

## 2. Modules

    Queue  <=  Fifo                     abstract bounded queue; common/fifo.sv
    Arbiter  <-  ArbiterClients         the arbiter; its clients and its target
    Fifo, ArbiterClients  <-  FifoArb   a local port of a router: the two together
    Routing, Arbiter  <-  Fabric  =>  Channels     the mesh; ordered reliable channels
    Arbiter, Fifo  <-  MemWrap          the end point in a tile
    Build                               build.py, run after run
    GuiCommand, GuiOutput               the two halves of gui_build.py
    Terminal                            pyterminal, the line and the transfer engine
    PostProcess, Images, Params  <-  Tools         the scripts beside the build
    CommonProofs, FabricProofs, MemWrapProofs      theorems about the hardware
    BuildProofs                         theorems about build.py: statuses, files
    GuiProofs, OutputProofs             theorems about the GUI: panel, output
    ToolsProofs, TerminalProofs         theorems about the scripts; about the terminal
    MCxxx                               the instance of module xxx for TLC

Definitions marked *Mutant* in a module are variants of the definition that
follows them, each with a plausible mistake.  No specification uses them; they
are what shows that each checked property can fail.

**Fifo** translates `fifo.sv` register by register: an array, two pointers of
`$clog2(DEPTH)+1` bits, and a counter of the same width from which the flags come.
Reset is `Init`.  `Clock(push, pop, d)` is the edge.  `Legal` is what the two
assertions at the end of the file ask of the user, except that a push into a full
FIFO that is popped in the same cycle is allowed (the circuit handles it).
`Queue` is the promise: a sequence of at most `DEPTH` words.

**Arbiter** has no state: `Winner` and `NextLastWinner` are the two combinational
blocks, one-hot vectors being sets.  **ArbiterClients** closes it with four
clients that request, keep requesting or not after a grant, and a target that is
or is not ready, which is how `fifo_arb.sv` and `mini_mem_wrap.sv` form
`valid_candidate`.  **FifoArb** joins the two as `fifo_arb.sv` does at the local port of a
router: the FIFO of client 0 in all its registers is popped when the arbiter says so and
at no other time, whatever is pushed (`Edge`).

**Routing** is the geometry: tiles, neighbours, the priority mux of
`next_tile_fifo_arb.sv`, the four sides each port is filled from.  **Fabric** is the
whole mesh in one `Clock`: `fifo[<<tile, port, side>>]`, one arbiter per port, the
readiness each arbiter sees (`InReady`: that of the FIFO the transaction at its
head will need in the next tile), what it pops (`PopsFrom`), what arrives on each
side (`Arriving`) and what is pushed where with a refreshed look-ahead
(`Allocated`).  FIFOs are sequences here, which `CommonProofs!Refinement` justifies
as long as `NoOverflow` holds, and that is a theorem.  Cores are abstract: any
subset of flows sends in a cycle in which the router is ready for it, and
`core_ready` is arbitrary in `StallingTiles`.  **Channels** is the promise: per
flow, what is received is what was sent, in order, once.

**MemWrap** is one end point and what stalls with it.  It has two instances of
`Fifo` with all their registers (so that a push into a full one does what the
circuit does), the arbiter, the data memory, the registers of the response path,
and stages 103 and 104 of the core: `CoreStep` is the freeze of `mini_core_ctrl.sv`.
The program is an arbitrary sequence of operations of `Program`; the rest of the
mesh accepts when `fab_ready`, answers reads in any order after any delay, and
delivers reads and writes of other tiles whenever `mini_core_ready`.  A word is
named after its origin, so that "the right word" is a comparison.  A requestor has
one read on its way, which is `OneReadInFlight` of its own end point; any number of tiles
read, at most `ReadsAtOnce` of them at the same time (`MayRead`).  The memory includes its
first word, `BaseWord`, which the region comparisons leave out: a read of it over the
fabric gives zero and a write is lost, as in the code.

**Build** is `build.py` as a machine over the files it leaves.  Sources carry a version;
an image, a library and the board carry the version they were made from, a tracker and
a transcript the run that wrote them, so that "stale" is a comparison.  `Start` is
the command line up to the loop, `Backup` its first lines, then one action per method
of `Test` in the order of `main` (`CompileSw`, `CompileHw`, `Simulate`, `Fpga`, `Mif`,
`Gui`, `PostProcess`, `NoDebug`), `End` the verdict.  Every tool may fail, `Interrupt`
stops the script between any two, `Edit` changes a source between two runs.  The override
script may leave the sources as they were, or part of them changed, and the test goes on
all the same (`Overridden`; `unseen` is the history of it).  `-cmd` runs the same stages without their commands.  The post-process is that of `mem_ss`.

**GuiCommand** has the boxes, the entries and the text; each event ends in `Update`,
which is `update_command_display` with its four error messages and early returns, but for
those no event is bound to: a dut typed into its box, a value typed into the box of
`-cfg`, `-regress` or `-top` (`TypeValue`), a parameter's value pasted with the mouse (`PasteParam`;
a key in the same entry is `TypeParam`), and the command itself, which is an editable text
that Run reads back (`EditCommand`).  They leave a mark in `by_hand` until the next update.
Selecting a dut makes the rows of its parameters one by one with an update after each
one (`SelectDut`, `NextParam`, `Selected`), as the code does.

**GuiOutput** has a process and a thread per command.  `ReadLine`, `LoadQueue`, `Put` and `Poll`
are separate because the process can terminate and the window or the queue be replaced
between them: `self.output_queue.put(line)` loads the queue and then puts, so a line can go to
a queue nobody polls any more.  A line that cannot be read ends the thread with an error
message, which is shown in its place, though the process may live; `CheckForOutput` and `OnClose` are single steps because the main loop
runs them to the end.

**Terminal** joins `uart_term.py`, `file_parser.py` and `transfer_handler_engine.sv`.
`Ask`, `SendSection`, `ReadAck` and `ReadWord` are the terminal between two waits for the
port; `Gateway` is the engine, a byte or a word at a time; `tx` and `rx` are the line,
which `Lose` takes a byte from; the port's timeout is possible when nothing more can
come (`Silent`).  `ParseLine` is one turn of the parser's loop.  `Loaded` is the
reference: where the bytes of a file belong, byte by byte and without sections or words
(`PlaceLine` is one line of the file, `Placed` all of them).  `sound` and `well` are history: a transfer,
or the whole session so far, met no lost byte, no half word and no burst of no words
(`Whole`, `WholeSize`).  `MemoryAsAsked` speaks of files that are `Tidy`: every section begins
at a word (the transfer engine stores whole words and drops the low bits of an address),
no two lines ask for different bytes at one place, and the last byte is within the address
space.  A read burst is counted among these only if its whole answer fits
in the input buffer of the port: the gateway waits for nobody, and the code says nothing
of how fast the terminal empties the buffer.

**PostProcess** is `mem_ss_pp.py` on its three files, statement by statement.  **Images**
and **Params** are the converters as functions; **Tools** runs them on every input of a
few sets and compares them with reference definitions (`ImageWords`, `LogOf`, `Shows`).
`ImageWords` never looks at lines of text: it places each byte of the image at its address
(`AddressOf`, `BytesAt`) and reads the words off the bytes, an absent byte being 0.  `Objcopied`
is what the property takes for granted of an image, since `objcopy` writes it: an address comes first
and is that of a word, the lines of a section are equally long but for its last, eight words are
a whole number of them, and no two lines are for one address.
A line of source has a kind that says which patterns it meets: that of the override, which
begins at the start of the line and takes a declaration that ends in a comma, that of the list,
which begins anywhere and asks for a semicolon, both, or none.
A line of a tracker has a `Kind` (a request, a response, another event), and `OfKind` picks
the lines of one; `AddCharacter` is one turn of the loop of `vga_parser.py`.

## 3. Runs

| run | instance | checks | shows |
|---|---|---|---|
| `fifo_arb` | depth 4, 2 words, 4 clients | `CountMatchesPointers`, `ImplementsQueue`, `BoundedOvertaking` | FIFO order and honest flags through several wraps; a fair arbiter as long as it is never idle |
| `fabric` | 3 x 3, depth 1, 3 flows, 2 each | `RoutedRight`, `NeverGoesBack`, `NoLockup`, `NoOverflow`, `Conservation`, `ImplementsChannels` | routes of four hops in both directions, a third flow joining one of them, a stalling core |
| `memwrap_core` | 2 local words, 2 remote, 1 requestor | `ReqFifoHasRoom`, `OneReadInFlight`, `LoadGetsItsWord` | the core side, when no two remote stores follow one another without a remote load |
| `memwrap_serve` | 2 local words, the first one among them, 3 requestors, 2 reads at once | `RspFifoHasRoom`, `RepliesRight` | the fabric side, racing with stores of the core |
| `memwrap_stores` | bursts of 2 stores | `ReqFifoHasRoom`, **violated** | a stalled remote access is pushed anyway |
| `memwrap_readers` | 3 reads at once | `RspFifoHasRoom`, **violated** | readiness comes back when the response FIFO is full |
| `memwrap_starves` | 2 requestors, a router with room again and again | `ReadersServed`, **violated** | the arbiter forgets in an idle cycle whose turn it is |
| `build` | 2 tests, 7 command lines, 2 runs, 1 edit | `StatusHonest`, `PassedIsReal`, `PassedIsClean`, `BoardHasThisProgram`, `TrackersKept` | no failure forgotten, no stale library, program or board, over every failure of a tool that the script can see |
| `gui_command` | 2 duts, 5 switches, 1 value for each text | `PanelAgrees`, `DisplayCurrent`, `ParamsOfFrame` | the command after any sequence of events |
| `gui_output` | 2 commands, 2 lines each | `ShownInOrder`, `ShownWithoutGap`, `WindowIsServed`, `ReadIsShown`, `ThreadsEnd` | two commands overlapping, windows closed in between, a thread that fails |
| `terminal` | 3 words of 2 bytes, 2 transfers, 1 loss | `TypeOK`, `MemoryAsAsked`, `ReadIsTrue`, `NeverOutOfStep`, `TerminalReturns` | every pair of transfers, good and bad files |
| `tools` | trackers up to 3 lines; sets of images, drawings, sources | `PassIsHonest`, `FailIsDeserved`, `MifHoldsImage`, `TextShowsDraws`, `OverrideListed` | reruns and interruptions of the post-process; the converters against their references |

**What the three violated runs show.**  The end point is correct for bursts of one remote
store and for two reads at once, and one more of either breaks it.  `memwrap_stores`: a
remote access that is stalled because `c2f_req_fifo` is full is pushed all the same (line 288 of
`mini_mem_wrap.sv`).  `memwrap_readers`: `mini_core_ready` is `!almost_full`, which is true again
when the FIFO is full, so a third read is accepted and its response pushed over the first; a tile of
the mesh has eight possible readers.  `fifo.sv:87` asserts that neither happens, and
`mini_mem_wrap.sv:278` asks for a margin of one entry.  `memwrap_starves`: "the arbiter is a Round
Robin arbiter" (`mini_mem_wrap.sv:305`), but a cycle without a winner sets its register back to
client 0 (`arbiter.sv:67`): with room in the router every other cycle, and a core that always has
a request, the responses to other tiles wait for ever.  For the same reason no run claims that
the mesh delivers everything: the ports of the routers have the same arbiter.

**What is not claimed.**  Several stronger statements are false of this code, and the
properties above are what is left.
A local store stalled behind a remote load is performed once per cycle.  The first word of a
memory is read as zero over the fabric (exclusive comparisons with inclusive bounds).
On a rerun a test keeps the transcript of its first simulation, so an error that only the
rerun printed is not seen, and the `data_mem.sv` of a program that has no data any more.
An override that fails is not noticed; when it succeeds for a later test of the same run, that test
is simulated with a library of other parameters (`PassedIsReal` excepts them).  With
`-keep_going`, after a compilation with errors, tests run on the library of an earlier one.
A `mif_gen.py` that stops is not noticed.  A program without data leaves the `d_mem.mif` of
another test on the board: the copy of the default is composed (`build.py:359`) and never run.
The last lines of a process that terminates may never be read by the GUI, and those that go
to a replaced queue are lost.  The text that Run executes can be edited, and is behind the
boxes after a change that no event is bound to; a dut that is typed gets the parameters of the
one selected before.  After an override the list of parameters still has the old value of a
declaration that is commented out or stands behind other text.  An empty last section or half a word
in a file leaves gateway and terminal out of step; so does a late acknowledge after a lost byte, and a
burst or a write takes whatever is left in the input buffer for its own answer.

**Bounds.**  The depth of the router FIFOs is 1 instead of the default 4: a shorter
FIFO is full earlier, so back-pressure, the hard case, is reached with fewer
transactions; the end point has its real depth, 2.  `MaxSent` bounds what a flow may
send; two per flow fill every FIFO on a shared route and make the first
transaction wait for those behind it.  Everything after the bound is a drained mesh
whose cores go on becoming ready and not ready, so nothing stops and deadlock is
checked.  `StoreBurst`, `Requestors`, `ReadsAtOnce`, `Program` and `Accesses` are the assumptions on
the environment of an end point, not bounds on its state; the run `memwrap_serve` has a third
reader that waits for one of the two others.

`build`: every staleness is between one run and the next, so two runs with an edit
between them reach each; the second test has the name of the first one's copy
(`t`, `t_1`), and three copies are more than two runs make of one name.  The seven
command lines use every switch, lists of two tests and the same test twice.
`gui_command`: two duts with different tests, one without a post-process, one whose list
names a parameter twice; five switches are those that can contradict one another, the
others only add words, and of the three boxes with a text `regress` is the one that matters to them.  `gui_output`: two commands are the fewest that replace a queue,
two lines the fewest that can be out of order.  `terminal`: words of two bytes and a
space of three words, of which the last one does not answer, make wraps and byte orders
visible; an input buffer of five bytes is filled by a burst; sizes of a burst are 0, which wraps, and
two words (one that is no multiple of the word makes the gateway send for ever, and the run
too large); the second transfer starts from
whatever the first one left.  `tools`: images of up to three lines in one section or two,
with full, short and odd lines; files of two lines of source and of one, of each kind that names a
parameter; drawings of up to three characters on three rows.
The runs of software modules stop when the bounds are used up or the user leaves, so
they do not check deadlock, but for `gui_command`, whose panel always takes an event.

**Fairness.**  The hardware modules need it in one run only: in `memwrap_starves` the clock ticks
(`WF` on the whole step) and the router has room again and again (`[]<>fab_ready`), which
is what it guarantees while its neighbours take what it sends; the counterexample is fair in that sense.
In GuiOutput the threads are scheduled and the main loop turns
(`WF` on each thread and on the poll); processes and the user are not fair.  In Terminal
the program and the gateway run on (`WF` on `Serve` and `Gateway`), which includes the
port's timeout of 5 seconds; the user and the line's losses are not fair.

## 4. Proofs

The theorems hold for every depth, every number of clients, every mesh and every set
of flows, every list of tests and every panel, every tracker, every word and memory; they
assume only the named ASSUMEs of the modules, and those of `MemWrapProofs` what their
statements say of the program and of the readers.  The ASSUMEs are facts of the code:
sizes are positive, a pointer is wide enough, inputs are what the code reads.  Those that ask
for a little more:
`RoomAssumption` of Terminal (the input buffer is longer than a word, which a serial port's
4096 bytes are) and `WordAssumption` (the address space is a number of whole words and no
larger than the numbers of a word).  Those of Images and Tools say that a number is a number, a
byte one below 256, and that the mark of a word without an address (`Nowhere`) is no address.

- `CommonProofs`: `Invariance` (the counter is the distance between the pointers, so it
  never wraps) and `Refinement` (the step of the circuit is a step of `Queue` under the
  mapping `Contents`).  The invariant is inductive as it stands; the work is in showing
  that a slot after a slot is where the pointers say, across the wrap.
  `FairWhileBusy`: `BoundedOvertaking` is not inductive.
  `OvertakingBudget` strengthens it: overtakes so far plus clients still ahead of `i`
  in the rotation never exceed the number of the others.
- `FabricProofs`, in three parts.
  *Room and routes.*  The invariant `IInv` joins types, `NoOverflow`, `RoutedRight` and
  `OwnSideEmpty` (no port is filled from its own side).  `NoOverflow` needs that at most
  one transaction arrives on a side per cycle and that its sender saw `Ready` for the very
  FIFO it will enter, which is what `RoutedRight` says of the look-ahead; so neither is
  inductive alone.  `NeverBack` follows from `RoutedRight` by the geometry.
  *`NeverLocksUp`* needs no further invariant.  `Rank` orders the ports of the mesh: local
  ports lowest, then those along a row, then those along a column, each by the distance to
  the edge it leads to.  Routing rows first, a transaction always asks in its next tile for
  a port of lower rank (`RankFalls`).  Of the FIFOs that hold something take one at a port of
  least rank: what is at its head can only wait for a FIFO of lower rank, and that is empty.
  *A flow is a channel.*  `NothingLostOrDuplicated` and `FlowsAreChannels` see each flow as one
  queue laid out along its route.  `FlowInv` adds to `IInv`: a transaction waits on the route of
  its flow, in the FIFO of the side on which the route enters the tile (`KeepsRoute`); what
  waits was sent and is not received (`NoneInvented`); a later transaction is farther from
  the end, or behind in the same FIFO (`InOrder`); and what was sent and is not received
  waits somewhere (`NoneLost`).  Each needs the others: that a FIFO delivers the next number
  (`HeadIsNext`) is `InOrder` with `NoneLost`, and `InOrder` survives a cycle because the
  transactions of a flow at one distance are in one FIFO (`OneFifoPerHop`, by `KeepsRoute`).
  The refinement to `Channels` is then step by step: what a cycle adds to `received` is the
  next of what was sent.
- `MemWrapProofs` has two independent invariants, one for each side of the end point; both
  read the FIFOs by their registers, through one lemma on what a clock edge does to two slots.
  `CoreInv`: `RequestsFit` assumes at most one remote store between two remote loads
  (`ShortBursts`; the run `memwrap_stores` shows that two are too many) and needs to know
  where the read is, because the queue is known to be empty only when its answer comes
  back: `Room` and `Reads` (nowhere, last in the queue, or in the network behind an empty
  queue) are inductive only together.  `OneRead` is `Reads`; `LoadsGetTheirWord` adds `Gets`,
  which needs that a core is stalled by nothing but its own read (`CoreIsReady`).
  `ServeInv`: every response on its way is owed to a requestor of its own (`Held`), and no more
  than `ReadsAtOnce` requestors wait, so a third response needs three of them; hence the one
  assumption `FewReads`, at most two at once out of any number, without which the property
  is false of the code (run `memwrap_readers`).
- `BuildProofs!NeverForgotten`: for every list of tests and every outcome of every tool.
  The inductive invariant adds to `StatusHonest` that the flags are those of the list, that
  a stage touches the current test's flag alone (`OnlyThisTest`), and that there is no exit
  code while a test runs; each stage is then one and the same kind of step (`WithinATest`).
  The properties that relate two runs by the files between them stand on `FilesInv` (types of
  the files and the script) and this invariant.  `NothingOverwritten`: only the stages of one
  test write trackers, and before the first of them (`LogsMoved`) `Backup` has renamed whatever
  the test's directory held to a name that is free, the least one (`HasLeast`).
  `PassMeansSimulated`: `RealInv` says, stage by stage, what an unfailed test has so far: its
  images compiled, the library made in this run (once, for all its tests), and that it was
  simulated with both; the library is of the sources as they are, or of their version when an
  override of this run failed (`unseen`).  `PassMeansClean`: `CleanInv` follows the trackers and the
  transcript from the simulation to the verdict; the trackers are the test's own in every run, since
  `Backup` deleted older ones, and in a fresh directory there is no older transcript
  that could be kept in place of the new one.  `BoardIsCurrent`: `BoardInv` ties
  the two flags of a test, `app_flag` and `mif_flag`, to the images and the board.
- `GuiProofs!OneMessageIsEnough`: taking one option back leaves no contradiction among the boxes.
  It is not inductive: while the rows of a new dut are made the panel may
  contradict itself, but only in `-pp` (`OnlyPp`), since the event that came before had
  settled the rest; and an event can bring about contradictions of one kind only
  (`OneKind`), which one message settles.
  `TextIsCurrent` is inductive as it stands: an event ends in an update, which
  shows what the boxes say or nothing, or marks `by_hand`.  `OnlyOwnParams` needs `RowsInv`: the
  rows are a beginning of the list of the dut whose frame they stand in, and a click between two rows
  finds that beginning; and `DutInv`: that dut is the one in the box unless one was typed.
- `OutputProofs`: `LinesInOrder` has to hold across three places a line may be in, so `Order`
  says that the lines of a command increase in the window, in every queue, and from
  window to queue, and that all of them come before the line its thread holds and the next
  one it reads; a later command's queue takes the lines of an earlier thread without mixing
  them up.  `LinesWithoutGap`: of a command that was not cut, every line that has left its thread
  is in the window or in the queue (`NothingLost`), because the queue its thread has loaded is
  the one that is polled, or the command is cut already (`HeldKept`); a line missing between two that are
  shown would be in the queue, behind a later one in the window, against `Order`.  `SomethingPolls`
  is inductive with the types.
- `ToolsProofs`.  *Post-process.*  `OrderingDecides` is about the algorithm alone: two trackers
  are equal once in order exactly when they agree, whatever their length.  It rests on what
  the ordering keeps (`OrderedKeeps`), and on that a tracker in order is one again when it is
  put in order, which is why a rerun over the script's own output decides the same.  `PPInv`
  says, at each statement of the script, whether each of the files is gone, as the simulation
  wrote it, or in order; at the comparison both are in order (`ComparesSimulations`), so
  `PassMeansAgreement` and `FailMeansReason` hold over any number of reruns and interruptions.
  *`OverrideIsListed`* compares the two scripts on any tree: a row of the list after an
  override is a new value, a row of a parameter that was not given, or one of a line that
  the override does not reach (`RowAfterOverride`); a parameter reported missing has only
  rows of such lines (`RowOfMissing`).
  *`TextIsWhatWasDrawn`*: after n characters the page of the parser is what the first n drawings
  say (`Typed`): the last line begins with the last change of row, and the place of a character in
  its line is the number of those drawn before it in that line.
  *`MifIsTheImage`* has two halves.  The converter against the lines: after i lines its variables are
  those of a text whose last line is at an address and has some words (`Written`), and `Copied`
  says that the text has the words these lines ask for (`Asked`) and no others, that its end is
  where the next line of bytes goes, and that between two such lines it is filled in equal steps
  (`InSteps`), so that the next one always fits (`RoomForLine`): a line that did not would lose its
  address.  The lines against the bytes (`AskedIsImage`): the k-th word of a line is the word of the
  image at its address (`WordHere`), also where it is filled up with zeros, since another line with
  a byte there would begin at that word or before it and share an address with this one (`ByteHere`).
- `TerminalProofs`.  `NumberOfBytes`: a number survives the line.  The loop of the gateway
  shifts and adds modulo the space, and the terminal's division takes the same weights; the
  invariant of the loop is that i bytes make the number divided by the weight of the rest.
  `TypeCorrect`: `TypeInv` adds to `TypeOK` what each state of the gateway says of its registers
  (`GateSane`): its counter is 0 outside a burst, and its buffer is not full while it collects
  and not empty while it sends.
  `StaysInStep`: `NeverOutOfStep` speaks of the prompt only, and `InStep` says how the two ends get
  back to it.  A transfer without a fault is at one of two points: `Sending`, when what is in
  the buffer of the gateway and on the line is the rest of a command of this very transfer,
  to the byte; or `Answering`, when the line to the chip is empty and the bytes that are in the
  input buffer and those still to come (`ToCome`) are together what the terminal will read.
  `Books` ties that to the words printed.  So no timeout strikes (`Punctual`), and the
  last word read leaves nothing behind.
  `PrintsWhatIsThere` adds `Faithful`: the byte at each place of the input buffer, and the one
  that the gateway sends next, is the byte of memory that its place and the words printed
  so far say.  Bytes count modulo words and addresses modulo the space, so this is where an
  off-by-one of the burst's counter or a wrong end of a word would show.
  `WritesWhatWasAsked` needs both ends of a write.  *What the file says*: `FileImage` runs the parser
  and the reference side by side, line by line (`Beside`), and shows that the sections together
  bring to memory (`Image`) the very bytes the reference places; a line's groups of bytes are
  reversed by the parser and read from the other end by the memory; the words that are whole are
  the bytes of the line, none left out and none twice (`GroupsFull`).  `LoadedWords` turns that round: in a
  tidy file, each word of a section is what `Loaded` has at its address, and a word that no
  section covers is what it was.  *What is on its way*: a write is a list of jobs, one for each section,
  and `Loading` says how far it is.  Memory agrees with `wanted` but for the words that are
  `Undone`: those of later jobs, and those of this one at or past the gateway's counter
  (`Remains`); and what is in the gateway's buffers and on the line is the rest of the
  current job's command, to the byte (`Playing`).  A store of the gateway (`StoredWord`) then takes one
  word off the list and puts the right one in its place.  Sections of a tidy file may cover
  the same word, since they agree on it.

*Recursion in these proofs.*  What a recursive definition computes is not within reach by the
library's induction theorems, which take an operator as a parameter.  Instead sets of numbers
are shown to be all of them by a least counterexample (`NatSetInduction`, from the
well-foundedness of the order), the function that a LET definition chooses is shown to exist
on each finite beginning (`RunExists`, `PicksExists`, `AddsExists`), and its values then follow
one step at a time.  `OfKind`, `TextOf`, `PutWords`, `Convert`, `Reached`, `Number`, `Weight` and `ParseLines`
are written as recursive functions for that reason.

Every safety property that a passing run checks is thus a theorem.  Every liveness property is
only model-checked: fairness and ENABLED are out of the prover's reach.

## 5. Not modelled

Reset in the middle of operation (one reset of the whole chip is `Init`); the
instruction memory and its fabric port; byte enables and sub-word shifts; the VGA
space; addresses off the mesh.  In Fabric a core is an arbitrary source and sink; in
MemWrap the mesh is an arbitrary network.  Their composition, where requests and
responses compete for the same FIFOs, is the first item of the plan.

In Build the contents of files other than their origin, the FPGA tools beyond success
or failure, two builds at once, and the post-processes of lotr and big_core; in the GUI what
a shell makes of a command edited by hand; in Terminal the validation of what a user types, the bus
behind the engine, its cycle counters and its timeout for a bus acknowledge; in Tools two
tests that share `output.log`, the comments and `DEPTH` of a `.mif` file, a source line
beyond its kind, name and value (what stands behind a replaced declaration goes with it), and how the
last line of a file that has no end of line runs into the next file when the parameters are listed: that
hides a parameter only behind a declaration in such a last line, and no source file ends in one.  `sanity_check.py`, `create_unit.py`,
`create_unit_content.py` and the small generators keep no state and handle no failure; the
game is not part of the system.  The components
with status `not_modelled` in `PROJECT.json` give their reason there.

## 6. Plan

1. `FabricSystem`: Fabric with an end point of MemWrap's kind in each tile; can requests
   and responses block one another; a flow to an address off the mesh.
2. `DCache` (`d_cache_tq`, `d_cache_tq_entry`, `d_cache_pipe`) against an abstract memory
   per line: one entry per line, no lost miss, a load returns the last store; then
   `ICache`, `MemCtrl` (the unconnected readiness) and `SdramCtrl` (refresh).
3. `RingController`: one node, then a ring of two or three, with the ventilation
   counters; every request leaves the ring.
4. `Gateway`: the engine of Terminal cycle by cycle, with the bus, its timeouts and late
   responses, and a refinement to Terminal's.
5. `Pipeline`: hazards, flush and freeze of mini_core against a sequential machine.
6. Proofs: the invariants of the transaction queue and of the composed mesh.
