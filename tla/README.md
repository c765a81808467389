# Verification of the NJU course systems

The repository collects course systems that share no code: a small relational
database, three steps of a teaching kernel, six network labs, a compiler in five
steps, Hadoop jobs and logic circuits. This directory holds TLA+ models of the
ones with concurrency, failure, long protocols or passes that must agree, checked
with TLC, and proofs about them checked with TLAPS.

## 1. Inventory

| Component | State | Operations | Interacts with | What is hard |
|---|---|---|---|---|
| wsdb buffer pool (`storage/buffer`) | frames, free list, page table, replacer | fetch, unpin, delete, flush, sweeps over a file | disk manager below; every table handle, on every connection's thread | threads under one latch, sweeps without it, I/O that throws midway, a full pool |
| wsdb replacers | LRU list and hash; LRU-K nodes with histories | pin, unpin, victim | called by the pool only | order after interleaved pins; a counter beside the set it counts |
| wsdb table handle (`system/handle`) | table header (page count, head of the free chain), pages with bitmap and count | insert, get, update, delete, scan | executors above, pool below | no latch: a bitmap read in one step and relied on in the next |
| wsdb executors (`execution`) | a cursor per statement | open, next | table handle | rows change under a scan; a statement that fails midway |
| wsdb sessions (`system/system.cpp`, `database_handle.cpp`, `table_manager.cpp`) | databases, reference counts, open tables and their descriptors, the `.db` file, each table's file | create and open a database, leave it; create and drop a table; die and start again | client threads, pool and disk files below, statements above | who is the last to leave; descriptors used again; headers that are saved on closing only; two connections that open or leave at once |
| lab3 kernel (`kernel/irqHandle.c`, `kvm.c`, `doIrq.S`) | process table, kernel stacks, TSS | timer interrupt; fork, sleep, exit | hardware timer, user programs through `int $0x80` | interrupts nested in system calls, a switch in the middle of one |
| lab2 kernel | keyboard buffer, screen | keyboard interrupt; getchar, getstr | as above | an interrupt handler and a polling call share a buffer |
| lab-6 reliable transfer | the sender's window, timers and round of retransmission | send, resend, acknowledge, forward, drop | three hosts over links | loss, late and repeated acknowledgements, indices into a sliding window |
| lab-5 router | ARP table, forwarding table, queue of waiting packets | ARP request and reply, forward, ICMP errors, ARP retries | hosts and hops | retries and timeouts, packets waiting for an answer |
| lab-2 switches | a learning table | receive | hosts | three ways to give up entries |
| compiler lab3/4: semantic analysis (`semantic.c`) | symbol table with scopes, errors | one definition after the other | the tree; the translator calls some of it again | one table for all scopes; which error, and no other |
| compiler lab3/4: translation (`ir.c`) | a second symbol table, temporaries, labels, code | one definition; then one instruction made printable | code generation, lab5 | addresses and values told apart by flags; order of evaluation |
| compiler lab4: code generation (`code.c`) | frames, registers, assembly | lay out frames; one instruction | the MIPS machine | what is in which register across calls, what is in the frame |
| compiler lab5: reader and flow graph (`IR_parse`, `IR`) | functions of blocks | one line of IR | lab3/4's IR as text | labels, jumps and blocks nobody reaches |
| compiler lab5 optimizer (`IR_optimize`) | per-block facts, a worklist | solve, rewrite, go on | the IR | fixpoints in both directions; a rewrite that uses a stale fact |
| compiler lab1–4: lexer and parser | tree | one token | – | generated code |
| Hadoop jobs, circuits, boot code | – | – | – | – |

What makes each correct: a pool never gives two pages one memory, never takes a
page from its user and never loses a write; a table changes row by row and a scan
meets each row that stays exactly once; a kernel resumes each process where it
was, runs one at a time and starves none; a transfer confirms only what arrived
and confirms everything in the end; a compiled program, optimized or not, prints
what the language gives the program, and a program with an error is refused with
that error. `PROJECT.json` lists the places in the code
where these are at risk ("hazards"), with the properties that watch them.

## 2. Modules

### Buffer pool: `BufferPool`, `LRUReplacer`, `LRUKReplacer`, `PageStore`

`BufferPool` models `buffer_pool_manager.cpp` as client threads use it: `frames`
(`frames_`), `free_list`, `lookup` (`page_frame_lookup_`), `replacer` and the
files, `disk`. Each operation takes `latch_` for its whole body, so it is one
action: `FetchCached` and `FetchMiss` (FetchPage), `UnpinPage`, `Delete`, `Flush`.
`DeleteAllPages` and `FlushAllPages` walk the page table without the latch: a
sweep is a set of pages still to do, `SweepStep` one turn of the loop. When
another thread changes the map meanwhile, the C++ iteration is undefined
behaviour: the sweep is marked `raced` and `SweepSkip` may pass pages over (the
outcomes in which the program crashes end the system and are left out). A read
or write of the disk may throw; the action then leaves exactly what the code has
done by that line. `pin` holds the page and the frame a client was given, and
`Write` is the client's use of that memory.

A client holds one page at a time and unpins only the page it holds, as the
table handles do; one that wrote passes `is_dirty`. The operations on a page of a
client that holds another are covered by another client's.

Both replacers are modules of operators on a record of their state, one operator
per method; the pool picks between them by `REPLACER`, as the constructor does.
`LRUKReplacer` keeps the code's own count `cur_size_` beside the flags it counts,
and the nodes Victim creates by accident through `node_store_[i]`.

`PageStore` is what a client may rely on: pages that hold a value, pins, and a
memory that shows the page's value for as long as the pin is held.

### Table heap: `TableHeap`, `RowStore`

`TableHeap` models a table handle and the statements that use it: INSERT,
SELECT, UPDATE and DELETE of `execution/`. There is no latch on a table or page,
so every look at a bitmap and every use of what was seen are steps of their own
(`FindSlot`/`InsertRecord`, `Check`/`ReadSlot`/`Apply`). Updates within one page
are one step: other clients look at the bitmap only. Pages are plain
memory, which is what `BufferPool` is shown to implement. A row's content is the
client that wrote it; a WHERE clause may hold or not. `Writers` bounds the
statements that write at the same time, because two writers break the code's own
assertions (`page_handle.cpp:48` and `:58`: no latch lies between finding a slot and
writing it), after which nothing can be said.
`RowStore` is the table as a map from places to rows.

### Sessions: `Sessions`, `Durable`

`Sessions` puts connections on top of the pool and the tables: `ClientHandler` and
`DoDBPlan` (`CreateDatabase`, `OpenDatabase`, `Disconnect`), `DatabaseHandle` with its
count `ref_cnt`, its catalogue file `meta` and its `tables`, `TableManager`, and the
descriptors of `DiskManager`, `fid`. A table's id is the descriptor of its file,
so the next table to be opened may get the id of one that was closed; `pool` is
keyed by it, as `page_frame_lookup_` is. A table's file has a header and one page:
the header is in memory while the table is open and written by `CloseTable` only, the
page goes through the pool, which is here what `PageStore` promises of it.

Opening and closing are as many steps as there are tables (`LoadTable`, `CloseTable`),
CREATE TABLE and DROP TABLE two each, the second one being FlushMeta (`TableDone`);
the header write, the flush and the close of one `CloseTable` (`table_manager.cpp:91-105`)
are one step, so a `Crash` between them is not reached;
statements of other connections (`Begin`, `FetchPage`, `Write`, `UnpinPage`, `End`),
evictions and `Crash` come between any of them. A statement keeps the table id it was
given when it began. `CountDown` and `LastOut` are the two halves of `Close`'s first
line. `Crash` is the end of the process, by `shutdown;` or otherwise, and its next start:
everything in memory is gone, the files stay. Nothing is logged (`WriteLog` is empty), so
`Recover` has nothing to do.

Its bounds, all named where they are: one connection at a time opens, leaves, creates or
drops (`MayManage`; two that race on `ref_cnt_` and `tables_` are undefined behaviour);
no DROP TABLE under another connection's statement; no crash between DROP TABLE's removal
of the file and the `.db` file's update, after which the code cannot open the database
again; a count of `MaxRef`; the descriptors `Fid`. CREATE DATABASE is one step, and reads
and writes do not fail. `SIGINTHandler`, which closes databases under their connections, is
left out.

`Durable` is the promise: tables that change only by a statement on them, and a crash that
takes nothing away from a table that has not changed since it was last saved. In the
mapping a table is what a client would see of it: its handle's header and its cached page
while it is open, otherwise its file.

### Kernel: `Kernel`, `MCKernel`

The process table, the current process, `tss.esp0`, and for each process the
number of trap frames on its kernel stack, which is what the stack pointers
`stackTop` and `prevStackTop` point to. `Tick` is the timer in user mode or while
fork copies; `Sleep`, `Exit` and each copied byte run the timer's handler inside
the system call through `int $0x20`, so `TimerInterrupt` is one operator with
the nesting depth as its argument. All gates are interrupt gates and only fork
enables interrupts, so the rest of a handler is one action.

### Reliable transfer: `ReliableTransfer`, `Delivery`

`blaster.py`, `middlebox.py` and `blastee.py` over four one-way links, each a
queue. One action per call of a handler: `NoPacket` (with or without the coarse
timeout elapsed), `Ack`, `ForwardData` or `DropData`, `ForwardAck`, `Blastee`.
Python's negative list index is modelled by what it does (`Index`). `Delivery` is
the promise: the sender confirms only what the receiver has.

### Router: `Router`, `Forwarder`

`myrouter.py` of lab-5: the ARP table, the wait queue (its linked list from the
top on, each entry with its packets), and which part of `start`'s loop the router
is in. A received packet is one action with everything the handler does
(`IPv4Packet`, `ArpRequest`, `ArpReply`); `handle_wait_queue` is one action per
entry it visits, and the loop over the packets of an entry that failed is one
action for making an error and one for sending it, because the list may grow
meanwhile. Time is a flag per entry: more than one second since its last request.
The router's addresses are one. `Forwarder` is the promise: each packet is settled
once. `Polite` says that packets come only by hops known by ARP: a host that sends to
the router normally has asked for its hardware address.

### Compiler: `Compiler`, `Checker`, `Translator`, `CodeGen`, `Optimizer`, `DataFlow`, `Rewriting`, `Solver`, `Passes`, `CMinus`, `Machine`, `Interpreter`, `MCPrograms`

The compiler is a line of sequential passes, each a recursive walk, so each pass
is a module of operators from its state to its state, one operator per function
of the code, and `Compiler` has the steps: one external definition (`Check`,
`Translate`), one instruction (`Format`, `Layout`, `Generate`), one line of IR
read (`Read`), one block taken off the worklist (`Solve`), one block rewritten
(`Rewrite`), one pass over to the next (`Follow`), and one instruction of the
program that came out (`Execute`, `Interpret`). A tree is a tuple with its kind in front.

- `Checker` is `semantic.c`: `syms` is the hash table (newest first, which is what
  every lookup sees), `layers` the scopes with their names, `errors` the types of
  the errors printed. `stray` is the value of `write->param->next`, which
  init_symbol_table never sets: if it is not NULL, every call of write is error 9.
- `Translator` is `ir.c`, on a symbol table of its own that carries an operand per
  name. `stopped` stands for a failed assertion or a NULL that is followed.
- `CodeGen` is `code.c`: slots, registers with their age, and the MIPS instructions
  with their operands; the text around them is left out.
- `Optimizer` is lab5: what the grammar's actions build from lab4's IR, the second,
  iterative solver, and the order of the passes.
- `DataFlow` is what the optimizer's analyses are: the flow graph, the facts of the four
  analyses and the worklist solver, without recursion. One set of operators (`meetInto`,
  `transferStmt`, `newInitialFact`) picks the analysis by name where the code has a
  virtual table.
- `Solver` is one analysis of one function as a specification of its own: it starts from
  any linked graph, its step is the worklist's (`worklistDoSolve`), and `Solved` says what
  a solution of the data-flow equations is. `MCPrograms` instantiates it on the compiler's state.
- `Rewriting` is the rewriting each analysis is for: constants and copies put in the place of
  variables, available expressions and dead definitions taken out. `Rewritings` has what a
  block has become after each of its statements, with the fact there.
- `Passes` is one pass of one function as a specification: `Solver`'s steps, then one `RewriteBlock`
  per block. It has its own account of what a function does when it is run (`Able`, `Step`, `IsRun`), one
  statement per step, in which everything but arithmetic, copies and jumps is a function of
  its operands and the world (`Does`); so memory, calls, input and output are covered
  without being modelled. `PassKeeps` says that the rewritten function does what the old one did.
- `Machine` and `Interpreter` are the MIPS subset and the IR simulator that the
  output is for; memory nobody wrote reads as `Junk`.
- `CMinus` is the abstract specification: what a program of the language means,
  given its input, straight from the tree, with scopes, structures by reference
  and lazy `&&` and `||`, and whether it goes wrong. The passes are held against it.
- `Walk` is the left fold the passes thread their state with, and one step of it.
- `MCPrograms` is the family of programs: eleven right ones, each for a part where the
  passes must agree, and seventeen with one error each, one for every error type.

The model has been compared with the programs themselves: lab4 and lab5 were
compiled, and for every right program the intermediate code, the MIPS code
and the optimized code are the same line by line, and for every wrong one the errors.
(`e10` is undefined behaviour in the translator, where nothing definite follows.)

Known wrong behaviour that the family stays away from, found by reading the code
while it was translated:

- copy propagation keeps `use_to_def` one to one (`copy_propagation.c:105`). Program `twins`
  has two copies of one variable; the optimizer changes what it prints. It is the one
  exception `OptimizedComputes` names;
- an array's address is unknown to constant propagation (`newBoundaryFact` names the parameters
  only, `constant_propagation.c:125`), which counts as agreeing with any constant: a variable that held
  an address on one path and a constant on the other would be taken for the constant. The
  translator makes no such variable;
- print_semantic_error never counts an error, so main.c:72 generates code for wrong
  programs too;
- a structure assigned to another copies its first word;
- two blocks whose variables have the same name share one slot, which has the size
  of the first; a parameter named like an earlier variable is dropped;
- with five or more arguments, `s.x` at offset 0 among the later ones and `s` after it
  share a register; more than 18 arguments overrun `arg_reg`, more than 16 lab5's `args_stack`;
- `x = write(1)` reads a temporary nothing sets; `f().x` and `(a = b).x` follow NULL; a
  function that uses a global variable fails getOperand's assertion;
- a jump whose other side is nowhere, when it is flipped, is printed as a jump to `L0`;
  folding `x / 0` gives UNDEF, which a later constant may raise again.

## 3. Runs

| Run | Bounds | Shows |
|---|---|---|
| `pool_lru` | 2 frames, 3 pages in 2 files, 2 threads, 2 values, no I/O error | type correctness, `FrameOwnership`, `PinProtects`, `NoSpuriousFull`, `SweepComplete`, `StoreSpec`, `EvictsLeastRecent` under LRU |
| `pool_lruk` | the same pages, K = 2, 5 clock ticks, 1 I/O error, no sweeps | `LossBounded`, `DefaultNodeUnused` under LRU-K |
| `pool_lruk_full` | the same, no I/O error | *violated*: under LRU-K the pool is "full" with one page in use and the other unpinned |
| `table` | 2 clients, 2 data pages of 2 slots, INSERTs of 2 rows, 1 writer at a time | type correctness, `CountsAgree`, `ScanComplete`, `ScanOnce`, `RowsSpec` |
| `table_free` | 1 client, INSERT and DELETE | *violated*: INSERT is given a page without a free slot |
| `sessions` | 2 connections, 1 database, 2 tables, 2 descriptors, 2 values, a count of at most 3 | `HeldIsOpen`, `IdsInUse`, `SavedSpec` |
| `kernel` | 4 process slots, slices of 3 ticks, sleeps of 1 and 2, 2 bytes to copy | type correctness, `OneRunning`, `KernelStacks`, `WaitBounded`, `NeverLeaves`, `EveryoneRuns` |
| `kernel_fork` | the same | *violated*: the slot fork fills is still free |
| `transfer` | 4 packets, window 4 (three in flight), 1 round owed, 2 packets per link | type correctness, `WindowShape`, `ChannelSpec`, `AllDelivered` |
| `router` | 4 addresses, 4 routes, 2 packets, 2 requests per hop, polite hosts | type correctness, `Custody`, `PacketsSpec`, `NoEternalWait` |
| `router_loop` | the same, 1 packet, any host | *violated*: the router goes on receiving |
| `programs` | 28 programs, 1 or 2 inputs each, both values of `stray` | `Computes`, `OptimizedComputes`, `ErrorsFound`, `NeverStops`, `StoresInFrame`, `CallsReturn`, `SolversAgree`, `PassesKeep`, `Ends` |

Why the bounds are enough. Two frames and three pages make every fetch of the
third page an eviction, and two threads are enough for one to act at each point of
the other's work; pages of two files make a sweep leave pages alone. Under LRU-K
five ticks give frames full and partial histories. Two pages of two slots fill
up, leave and re-enter the chain of free pages; a scan meets pages behind, at
and ahead of it. Two connections are the last to leave and one that is not, and the count
of three lets one of them open the database again; with as many descriptors as
tables, a table that is created or opened gets the id of the other one or its own old
one. Four process slots hold the idle process and three that compete,
so a process waits for two others. Four packets through a window of three slide
it while packets are lost, acknowledged late and sent again.

`SolversAgree` says three things each time an analysis is over: the graph it started from is
one that the proofs about `Solver` speak of (`Ready`), its facts solve the equations
(`Solved`), and the other solver finds the same ones.

`PassesKeep` says two more at the same places: the function is as `Passes` takes it to be
(`Prepared`), and if it is `Traced`, it and what it is rewritten to are run for up to 60 steps from three
starts each, with the same effect. The numbers that reads, calls and loads give vary along the run, so
that conditions go both ways.

A program of the family is there for a part of the passes: calls within calls and
arguments beyond the fourth for the frames and registers, the same expression on two
paths and values carried round a loop for the analyses, names in two blocks for the
scopes. Each runs with inputs that take both sides of its conditions.

Deadlock is checked in the sessions, kernel and programs runs. The pool, table and transfer runs may
stop: their clocks, errors and pages are bounded, and a transfer is over once
everything is acknowledged. The router's queue, like the links of the transfer,
holds what its packets make of it: two packets meet in one entry or wait in two.

Fairness. `kernel` assumes that the timer goes on interrupting (its request stays
pending while interrupts are off) and that a process in the kernel proceeds when
it has the processor; nothing is assumed of user programs. `transfer` assumes
that each program's loop goes on, that the coarse timeout elapses again and
again while nothing is received, and that a packet sent again and again is
forwarded at some time, which the random drop gives with probability one. `router`
assumes that the router's loop goes on and that now and again it receives nothing
for a second. `programs` assumes that the one thread goes on: its fairness is weak
fairness of the next step, written with `Ended` where the definition has "no step is
possible", which the deadlock check shows to be the same. The other runs check safety only.

Findings. `pool_lruk_full`, `table_free`, `kernel_fork` and `router_loop` are disagreements
between the code and its own comments, quoted in `PROJECT.json`. `NeverLeaves` records another behaviour as it is: `timerHandle`
marks the process that gives way runnable whatever its state, so `sleep` and
`exit` only give up the rest of the time slice.

## 4. Proofs

`BufferPoolProofs` proves, for every pool size, set of pages and threads, K and
bound:

- `TypeCorrect`, `FramesOwned`, `PinsProtect`: the properties `TypeOK`,
  `FrameOwnership` and `PinProtects`;
- `Refinement`: the pool implements `PageStore` (`StoreSpec`), under LRU-K whichever reads and writes fail;
- `SweepsComplete`: the property `SweepComplete`.

All but the last assume `Reliable`: under LRU, reads and writes do not fail. This is
needed. GetAvailableFrame takes its victim out of the replacer before it is
written back; when WritePage throws, the frame still serves its page and the
replacer no longer knows it. DeletePage of that page puts the frame on the free
list, calls the replacer's Unpin, which throws for a frame it does not know, and
does not get to erase the page's entry: the page then shares its frame with the
next one. Under LRU-K, Victim keeps the node and Unpin does not throw.

`FrameOwnership` and `PinProtects` are not inductive. The invariant `IInv` adds
two parts: the types (`TypeInv`), and what the pool relies on in the replacer
(`ReplacerInv`): it offers only frames nobody holds, and it knows every frame
that serves a page, so that its Unpin never throws. What a replacer must
provide is stated once for both policies (`Known`, `CanEvict`), with lemmas for
pin, unpin and evict, so the proof about the pool has one step per action and
does not look into the policies. The refinement maps a page to its frame's data
if it is cached and to the file's otherwise; it has one step per action, most of
which stutter.

`SweepsComplete` assumes nothing about reads and writes; its invariant adds to
`SweepComplete` only the types of the sweeps and of the map. A step that changes
the map marks every other sweep as raced (`RaceOwes`), so only the sweep's own
deletion has to be looked at.

The second half of `BufferPoolProofs` proves what the pool needs its replacers for:

- `FullOnlyInUse`: the property `NoSpuriousFull`, under LRU and if no read or write
  fails (under LRU-K it is false, as run `pool_lruk_full` shows);
- `EvictsOldest`: the property `EvictsLeastRecent` of `MCBufferPool`, under the same two
  conditions;
- `LossesBounded`: the property `LossBounded`, under `Reliable`;
- `AccidentsUnused`: the property `DefaultNodeUnused`, without assumption.

`Effect` says what a step may do to the frames, the free list and the replacer in
six cases, and `StepEffect` derives it from the actions once; each proof then has one
step per case. `Spared`, for LRU: the list holds every frame of `lru_hash_`, `cur_size_`
counts the evictable ones, and a cached frame that nobody holds is one of them, so
that the iteration from the back of the list meets one (`VictimExists`). `Dead`, for
LRU-K: the frame of a node made by accident is not free and serves no page. Victim is
only called when the free list is empty, and a frame its replacer does not know serves
no page; so nobody ever asks for the node again. `Ordered`, for the order of eviction: no frame is
twice in the list, and of two cached pages the one fetched first is nearer to the back
(`Before`). `older`, the history that says which was fetched first, is a relation between
pages, not a sequence, so that a fetch changes it in one place; `UnlinkOrder` and
`PinOrder` say what the replacer's own list operations do to the order.

`KernelProofs` proves, for every number of process slots, time slice, set of
sleeping times and size of the memory fork copies:

- `TypeCorrect`, `RunsAlone`, `StacksSurvive`: the properties `TypeOK`,
  `OneRunning` and `KernelStacks`;
- `StaysInRotation`: the property `NeverLeaves`;
- `WaitsBounded`: the property `WaitBounded` of `MCKernel`, for more than two slots (with
  two there is one user process, which waits for nobody, and the bound is 0).

Its `IInv` adds two facts to them. `NoSleeper`: between steps no process is
marked blocked, because the one that sleeps is marked runnable again by the
timer handler its own `int $0x20` calls; without it, a switch could wake a second
sleeper in passing. `Calls`: a system call is entered on an empty kernel stack,
so what irqHandle puts back at its end is 0, and the slot a fork fills is not
the parent's own. Four actions end in the timer handler, so the proof is about
the handler once: `Ready` is what it needs of the table it is given, `Switched`
what it establishes, and `SwitchKeepsInvariant` derives the invariant from it.
The invariant does not say that fork's slot is free: it is not, as `kernel_fork`
shows; the second child then replaces the first, stack and all. `WaitBounded` needs
`Waits`: what a process has waited, a whole slice of each process ahead of it in the
rotation, and the rest of the current one's slice are together no more than the bound.
Every timer interrupt that runs either uses up a tick of the current slice or brings the
process one place nearer (`TurnsCome`, `AheadFalls`); a process that sleeps, exits or
forks in its slice leaves the places as they are. `AtBoot` covers the one slice that is
not a user's, initProc's.

`TableHeapProofs` proves, for any number of clients, pages, slots of a page and
rows of an INSERT, from `SizeAssumption`, `ClientAssumption` and the assumption
that one statement at a time writes (`Writers = 1`; with two, the code's own
assertions fail):

- `TypeCorrect`, `CountsCorrect`: the properties `TypeOK` and `CountsAgree`;
- `Implements`: a table implements `RowStore` (`RowsSpec`);
- `ScansComplete`, `ScansOnce`: the properties `ScanComplete` and `ScanOnce` of
  `MCTableHeap`.

Its invariant `TInv` says more than that a page counts its bits. `ChainOK`: the
head of the chain and every `next` in it lead to pages of the file that were
linked once, which is what keeps `first_free_page` a page. `StOK`: each place in a
statement implies what the statement has found out there and nobody may take back,
such as that the row a DELETE applies to is still there; that is where the one
writer is needed (`OneWriter`). `StepKeeps` is the step of one client seen from
the others, so each action is looked at from its own client's side only. For the
refinement, `RowSet` says what replacing a page does to the rows. For the scans,
`SInv` splits the rows at the scan's place into `Behind` and `AheadOf`: what was
read is behind, what is owed and not read is ahead (`BooksKept`).

`SessionsProofs` proves, for any number of connections, databases, names, descriptors and
values, from `ConnAssumption`, `ValueAssumption`, `RefAssumption` and `NoneAssumption`:

- `TypeCorrect`: the types of all variables, `TypeOK`, which no run repeats;
- `HeldStaysOpen`, `IdsHold`: the properties `HeldIsOpen` and `IdsInUse`;
- `Implements`: the databases implement `Durable` (`SavedSpec`).

None of the three is inductive. The invariant `Inv` adds what ties the copies of the same
fact together: `name_fid_map_` and `tables_` agree on ids, but for the tables a closing
connection has dealt with, whose header is then in the file (`Ids`); no two ids
are of one table (`Unique`); the pool has pages of open files only (`Pages`), and one of
them differs from its file only while it is dirty or somebody is about to mark it
(`Clean`); what each place in a statement, in opening and in closing implies (`Uses`,
`Phases`); and that a table is in the `.db` file and not open, or open and not in it, only
while somebody opens, creates or drops (`Lists`). `Counted` says that at least as many are
counted as hold the database, so a count of 0 means that nobody does (`NoneLeft`): that is
why closing cannot take a table from under a statement. `QuietKeeps` is a step that
manages nothing seen once for all five statement steps and the evictions, `AddKeeps` the
opening of a table for `LoadTable` and `CreateTable` together. For the refinement, `View`
says what a client sees of each table in terms of `tables` and `file` (`Mem`, `OnDisk`);
statements and DDL are the abstract steps, opening, closing and evicting are `Save` or
stutter, because each leaves the view as it is and unsaved tables can only become
fewer (`SavesIf`).

`TransferProofs` proves, for any number of packets, window and link capacity, from
`NumAssumption`, `WindowAssumption` and `BoundAssumption`:

- `TypeCorrect`, `WindowCorrect`: the properties `TypeOK` and `WindowShape`;
- `Implements`: the protocol implements `Delivery` (`ChannelSpec`).

Its invariant `Inv` has four parts: the sender's counters and its window, which
holds the packets from LHS to RHS in order; the links, which carry only packets
that were sent, and acknowledgements only of packets the receiver has; the window
never longer than `senderWindow`; and that what is confirmed has been delivered.
The step that needs all of them is `Ack`, which marks an entry of the window and
moves LHS past every acknowledged one (`LeadingIs`).

`RouterProofs` proves, for any hosts, forwarding table, number of packets and of ARP
requests, from `AddressAssumption`, `TableAssumption` and `BoundAssumption`:

- `TypeCorrect`, `CustodyKept`: the properties `TypeOK` and `Custody`;
- `Implements`: the router implements `Forwarder` (`PacketsSpec`).

Its invariant `Inv` has two parts that matter. `Books`: the queue has one entry per
hop, and a packet that waits is in one place of it, under its own hop, as no other
packet is (`Kept`). `Route`: the hops the walk over the queue has still to visit are in
the queue, and distinct; the walk drops one entry at a time and calls the whole
sending path in between, which may append to the queue, so this is what keeps it on
its way. `Lists` reads the queue as a function from hops to lists of packets, so that
each queue operation is one lemma about that function.

The first half of `SolverProofs` proves about the optimizer's worklist solver, for every function, every list of
statements and whatever the operations compute, from a linked graph (`Ready`):

- `WorklistSolves`: when the worklist is empty, the facts solve the data-flow equations
  (`SolvedAtEnd`), for each of the four analyses;
- `WorklistFalls`: no visit makes a fact stronger again (`FactsFall`);
- `WorklistExact`: for available expressions and live variables, what it ends with is the best
  solution (`Necessary`), in whatever order the blocks were visited;
- `GraphLinked`: the graph IR_function_build_graph makes is linked, whenever each jump's
  label is in the function. `programs` checks that it is, each time an analysis ends.

The invariant `IInv` adds to "solved once the queue is empty" that every block that is not
settled waits in the queue (`Waiting`), and the form of the facts (`Stored`). It stands on a few lemmas
about the meet of each analysis, collected in `MeetFacts`: a fact that has flowed in once
changes nothing the second time, what had flowed in before it stays so, and facts only fall.
A block's visit is a fold over its neighbours and then over its statements; `MeetRuns` and
`TransferRuns` read a fold as the run of its intermediate facts, so that an induction over
it is the choice of the first place where it goes wrong. When the fact a block passes on
does not change, its dependents have it already; when it does, all of them are queued, and that they are
all is where the graph has to be linked.

`WorklistExact` needs a block's statements to be monotone (`MonotoneFacts`). Two of the analyses are not,
by what the code does: constant propagation takes `x / 0` for undefined even when `x` is
not a constant, so that a value may go from not a constant back to undefined; copy propagation keeps
`use_to_def` one to one, so that one copy more on entry may be one less on exit. For these two
the worklist still ends with a solution, but it may depend on the order of visits; in the programs of
the family it is the same for both solvers.

The second half of `SolverProofs` proves that the optimizer's passes are right (`PassesPreserve`): for
each of the four analyses, any function and any world, once the worklist is empty
and every block has been rewritten with the facts found, each run of the old function has a
run of the new one that begins alike, does the same to the world, and ends when it ends
(`PassKeeps`). A run that reads a variable that has no value or divides by zero has no next step, so
nothing is claimed beyond that point. What it assumes:

- `Arithmetic`: numbers are integers, `+` and `*` commute. The machine's word size does not matter;
- `Prepared`: the graph is linked, an `if` is the last statement of its block, the entry block is
  empty; for constant propagation, a variable that holds an address holds addresses only
  (`Addresses`); for available expressions, merge_common_expr has been there: a variable
  that holds an expression holds no other, and its operands know that they end it (`Merged`).
  `programs` checks all of this before each pass of each function;
- `Traced`, for copy propagation: no variable is defined while it has two copies. Without it the
  pass is wrong (`copy_propagation.c:105`, program `twins`).

The argument has three layers. What a fact says of the numbers in the variables is
`Holds`: a constant is its variable's value, an available variable has the value of its expression, a copy
equals its original; for live variables it is the two runs that agree on what is
live (`Agree`). `StmtHolds` takes it through one statement, both as it was and as it has
been rewritten, and shows that the rewritten statement does the same or, if it is taken out,
would have changed nothing; `LiveStep` is its counterpart backwards. `FlowIn` and `FlowOut`
carry it along an edge, because the facts solve the equations. For constant propagation this
needs an invariant of the solver, which not every solution of the equations has:
no address is ever found constant (`NeverConst`), since the facts rise from UNDEF, and the entry's
fact stays the boundary's (`EdgeHeld`).
On top of that is a simulation (`Sim`): where the old run is after k statements of a block, the new
one is after those of them that were kept (`Place`), and their variables are related
as the analysis has it (`Alike`). `StepSim` takes one step of the old run to one of the new
or to none; `RunsAlike` is the induction over the run. At last the pass: `PassInv` says that what has been
rewritten so far comes from the function as it was when the worklist emptied, so that the
order in which blocks are rewritten does not matter.

The theorem is about the model's analyses, statement by statement; that each analysis is applied to
what the one before it left, and that a whole program still prints the same, is what
`OptimizedComputes` checks.

`SharedFacts` holds the lemmas several of these rest on: that a set of natural numbers
has a least one, and what a sequence is once it is cut or joined.

Only model-checked: liveness (`EveryoneRuns`, `NoEternalWait`, `AllDelivered`, `Ends`), which is
beyond TLAPS here; that the worklist empties is part of `Ends`. And what the passes of the
compiler do to a program (the other properties of `MCPrograms`): but for the optimizer's rewriting they are
recursive walks over a tree, and the prover has neither recursive operators nor induction over trees.

## 5. Not modelled

See "components" in `PROJECT.json` for each part's reason. Not modelled for good:
generated lexers and parsers, circuits, boot code and port I/O, text formatting,
the compiler's optimizeAndRestructureCode, which nothing calls, and the text it
writes; the Hadoop map functions. Most of the repository's lines are generated
(`lex.yy.c`, `syntax.tab.c`, three times over) or an earlier copy of a later lab
(`lab2` and `lab3` of the compiler, `lab-3` and `lab-4` of the networks), so the
lines the models stand for are a small share of all lines although they are most of
the lines written for the final labs of these components.
Known gaps in what is modelled: `InsertRecord(rid, record)`, which nothing calls;
the PAX page layout; the memory contents that fork copies; of sessions, the
bounds named in their section. Two places read memory they should not and are outside the
models: InsertRecord takes the page's id out of the frame it has just unpinned
(`table_handle.cpp:136`), and SortExecutor::Next moves an element from behind the end of
`sort_buffer_` after the last row (`executor_sort.cpp:73`).

## 6. Plan

1. `Sessions` with the races its bounds leave out: two connections that open or leave at
   the same instant, and SIGINTHandler under live connections.
2. The compiler on more programs: structures as values, scopes that reuse a name with another size.
3. Proofs: that merge_common_expr establishes `Merged` and the translator `Addresses`, which `PassesPreserve`
   starts from and `programs` checks.
4. lab2's keyboard buffer, lab-2's switches. The database's joins, aggregates and merge sort
   are empty in the code.
