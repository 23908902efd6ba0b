# Verification of rigel-sim

TLA+ specifications of the parts of `rigel-sim` in which several actors share
state, the TLC configurations that check them, and TLAPS proofs of what they
promise. Paths below are relative to `src/rigel-sim/`.

Run TLC in this directory with, for example,
`tlc -config MCDirectory.cfg MCDirectory.tla`, and the proofs with
`tlapm PipelineProofs.tla`. `PROJECT.json` lists the components, the runs, the
lines of code each definition stands for, the hazards, the mutants and the
theorems.

Contents: 1 the system, 2 plan, 3 modules, 4 runs, 5 proofs, 6 where the code
departs from its documentation, 7 what is not modelled.

## 1. The system

Rigel is an accelerator of many small in-order cores. Eight cores with a cache
form a *cluster*, clusters form *tiles*, and tiles share a banked *global cache*
in front of DRAM. The simulator clocks everything from one thread: `sim.cpp`
calls `PerCycle` of the chip, the chip that of its parts, and so on, so the
concurrency is that of the simulated hardware: messages in fifos, latches that
change at a clock edge, requests that stay outstanding for many cycles, and
calls of one cycle that see each other's effects.

Two generations of the machine live in the source. `user.config` selects one:

* `RIGEL_CFG_NUM 1`, the *legacy* machine: pipelined in-order cores
  (`src/stages`), L1 caches, cluster caches (`L2Cache`), the global cache, the
  directory, detailed networks and DRAM.
* `RIGEL_CFG_NUM 2` and `3`, the newer *functional* and *structural* machines:
  `CoreFunctional`, components joined by ports, `TreeNetwork` and `CrossBar`.
  In `user.config.default` the value 3 selects `ClusterCacheStructural` as
  `CCacheType` but leaves `ClusterType` a `ClusterFunctional`; the structural
  cluster runs only with that typedef changed. `TiledChip` models it so.

### Inventory

| Part | State it keeps | Operations | What is hard | What makes it correct | Module |
|---|---|---|---|---|---|
| Hardware task queue (`util/task_queue`) | a list of tasks; a latch per core with current and next state and a countdown | `TQ_Init`, `TQ_End`, `TQ_Enqueue`, `TQ_EnqueueLoop`, `TQ_Dequeue`, `PerCycle` | cores call in any order in a cycle; a dequeue stalls and retries; the barrier is a count taken between cycles | no task lost or handed out twice, no barrier while work is left, stalled cores are released | `TaskQueue`, `TaskPool` |
| Functional core (`core_functional`) | current thread, active flags, the stalled instruction of each thread | select, execute, send request, check for reply, halt | which thread runs next; a request refused or answered late | a request is made once, its reply finds it, no thread starves | `TiledChip`, `FunctionalCluster`, `Sequential` |
| Ports and fifos (`port`, `fifo`, `callback`) | one packet or a bounded list | `sendMsg`, `read`, `push`, `pop` | a full fifo refuses and nobody looks; a callback returns nothing | packets are neither lost nor doubled | `TiledChip`, `FunctionalCluster` |
| Cluster cache of the new machines | load-linked table, packets in its fifos | `doMemoryAccess`, LDL, STC, atomics | accesses of threads of a cluster interleave | a store-conditional succeeds only if nobody wrote | `MemoryService` |
| Tree, crossbars, tile, chip | fifos, ports, halted counts | `PerCycle` of each, in a fixed order | merging, backpressure, who is clocked when halted | packets are conserved and arrive | `TiledChip` |
| Decoders and operand tables | none: tables of the two decoders, the scoreboards, latencies and units | lookup | two decoders, four tables, generated code | both cores read and write the same registers | `Isa` |
| Legacy core and pipeline (`core_inorder_legacy`, `src/stages`) | latches between seven stages, speculative list, scoreboard and bypass network, units, ports, BTB, register files | the stages, the clock edge, flush, SYNC | stall, flush and replay; four fields of a register's state written by different stages | instructions issue in program order with the right operands; what is taken is given back; programs end | `Pipeline` |
| What instructions compute | registers, memory words | `execute`, `doMem`, `rigel_isa` | two implementations; signs and shifts at word edges | both cores compute alike | `Execute` |
| L1 caches, `CacheModel`, cluster cache (`L2Cache`) | tags, dirty and accessed bits, MSHRs, sleeping cores, barriers | access, fill, evict, pend, inject, reply, memory barrier | one line has several roles at once in the MSHRs; sleeping and waking; the eviction buffer | no dirty line lost, no line fetched twice, cores wake up, barriers wait | `ClusterCaches` |
| Directory (`caches_legacy/directory*`) | an entry per tracked line: state, sharers, who waits; a pending replacement per set | permission requests, releases, answers to probes, replacement | probes cross fills and releases; several messages in flight for a line; a set of fixed size | one writer, no untracked copy, fresh data, no entry locked for ever | `Directory` |
| Legacy networks (`tile_interconnect_new`, `global_network_new`) | buffers per level and virtual channel, wait lists of broadcasts | inject, move, split, combine, remove | backpressure across levels; a broadcast counts its answers | per-channel order, one answer of a tile for all its clusters, everything arrives | `Interconnect` |
| Global cache, legacy | tags, request queues, MSHRs to memory | serve requests in any order, atomics, prefetch | a request waits for the directory, then for memory | answers carry the latest data, once | `GlobalCache`; `Directory` (its part of the protocol) |
| DRAM controller and channel | request buffers, bank and row state, time stamps | schedule, issue a command, complete | reordering against starvation; two accounts of the same times | no latency is broken, nothing but row hits starves a request | `Dram` |
| Broadcast manager | the broadcasts under way and who has seen each | insert, read, acknowledge | readers of different clusters see different values meanwhile | a reader never goes back in time | - |
| Directory variants (probe filter, overflow, hybrid) | as the directory, with lists in memory | as above | a broadcast counts its answers | as above | - |
| Affinity schedulers (`TaskSystemInterval`, `IntervalLIFO`, `Recent`) | history of tasks per cluster | as the task queue | when an interval ends | `TaskPool` allows any choice | - |
| System calls, loader, checkpoints, shell, profiler | host state, counters | synchronous calls | little | - | - |

The parts talk to each other as follows. A core's memory stage calls
`TQ_*` on the task queue and the cache model; the cache model calls the cluster
cache, which exchanges messages with a global cache bank over the tile and
global networks; the bank asks the directory for permission before it answers
and takes from it the probes to send, and schedules its misses at a DRAM
controller. In the new machines a core sends a packet through its port to the
cluster cache, which makes the access itself and sends the packet back, or
passes it on through the tree and the crossbars.

## 2. Plan

Order of work, by how much of the machine depends on the part and how hard it
is to test. What is not marked as next or later is done:

1. **Task queue**: `TaskPool`, `TaskQueue`, invariants, proofs, refinement proved.
2. **The new machines**: `MemoryService` with proofs; that `TiledChip` and
   `FunctionalCluster` implement it, and that the network of `TiledChip` keeps
   its packets, proved.
3. **Directory coherence**: `Directory`, full-map and limited; every safety
   invariant proved.
4. **Pipeline**: `Isa`, `Sequential`, `Pipeline`; the three account books proved;
   that it implements `Sequential` is model-checked.
5. **DRAM**: `Dram`; no latency is broken, proved.
6. **Execution semantics**: `Execute`, model-checked.
7. **Cluster caches and networks**: `ClusterCaches`, every safety property
   proved; `Interconnect`, model-checked.
8. **Global cache**: `GlobalCache`, model-checked.
9. Later: proofs for `GlobalCache` and `Interconnect`, whose walks over
   messages and entries call for the lemmas on iteration that
   `ClusterCachesProofs` has.
10. Later: **broadcast manager**, and the variants of the directory.

Composition: `TiledChip` and `FunctionalCluster` contain an instance of
`MemoryService` and use its actions for the access itself, so a theorem about
`MemoryService` that follows from its `Spec` carries over wherever `ServiceSpec`
holds; for both it is a theorem. `Pipeline` contains an instance of `Sequential`, mapped by what has
issued. `TaskQueue` contains one of `TaskPool`.

## 3. Modules

Where a definition `X_Y` stands beside a definition `X`, it is `X` with a fault
that the code could plausibly have (`Y` says which). It is used by nothing in
the specifications; it is there so that one can put it in the place of `X` and
see that a property notices.

Every specification is translated from the code: one action per handler,
with its guard from the code's conditions and early returns. Data are reduced
to what the properties tell apart. Modules named `MC...` hold the values of the
constants for TLC, modules named `...Proofs` the theorems.

### 3.1 TaskQueue and TaskPool

`TaskQueue` is `TaskSystemBaseline` with the latch `TQ_CoreStateDesc` of each
core (`curr`, `next`, `cycles`, `pend` are its four fields), driven by the
memory stage of the cores.

| TLA+ | Code |
|---|---|
| `Clock`, `Announce` (`PerCycle`) | `TaskSystemBaseline::PerCycle`, without and with all cores blocking |
| `TQ_Init`, `TQ_End`, `TQ_Enqueue`, `TQ_EnqueueLoop` | the functions of those names |
| `TQ_Dequeue` | `TQ_Dequeue`; its disjuncts are the cases of the switch: `Deliver`, `AwaitLatency`, `BlockOnEmpty`, `SelectNextTask`, `WakeNext`, `PassBarrier`, and `UnknownState`, the default |
| `retval`, `acted` | what `memory_req.cpp` does with the result: BLOCK stalls the instruction, which calls again; one call per core and cycle |
| `issued`, `done`, `dropped` | history: no variable of the program |

A cycle is `PerCycle` and then at most one call of each core, in any order. A
core has one task-queue instruction in flight, because each of them locks
`TQ_RET_REG` in the scoreboard. A stalled core may miss cycles (its pipeline may
be busy for another reason), which is more than the code may do. Fields that are
written and never read (`OverflowPending`, `UnderflowPending`, `GlobalQueueLock`)
and states that no statement stores (`TQ_STATE_PENDING_END`, `INVALID`,
`PENDING_ENQUEUE_*`) are left out. `CyclesReady` goes on counting below zero in
the code; the model stops at 0, which no test distinguishes. Assertions are
compiled out unless the simulator is configured with `--enable-asserts`
(`Makefile.flags`), hence the constant `Asserts`.

Software calls `TQ_Init` once from one core before it uses the queue (constant
`Reinit` lets it call at any time) and may call `TQ_End` (constant `Ends`).

`TaskPool` is the promise: a set of tasks, each taken once, and a barrier that
opens when all cores wait and the pool is empty and that all must leave before
the next one. `PoolSpec` is the refinement: a task between its selection and its
delivery is still in the pool.

### 3.2 MemoryService

`doMemoryAccess` and the load-linked table, which `ClusterCacheStructural` and
`ClusterCacheFunctional` share word for word. `Issue` puts a packet in the hands
of a thread, `Serve` makes the access (`Load`, `Store`, `LoadLinked`,
`StoreConditional`, `GlobalAtomic`), `Retire` gives the answer to the core.
Words hold `0 .. WordSize - 1`, so additions wrap as they do in 32 bits. The
bitwise atomics differ from MIN and MAX only in the value and are left out.

A plain store or a global atomic does not break links, and the requester's own
link survives its store-conditional. That is the code's way and the reason for
`SyncAssumption`: what `LinkMeansUntouched` promises, it promises of words that
are accessed by LDL and STC only, from one cluster. Anything else the model
allows is unconstrained by it.

### 3.3 TiledChip

The structural machine. Each `PerCycle` is one step, and `turn` is the sequence
of calls left in the cycle, in the order of `ChipTiled::PerCycle` (request and
reply crossbars, then each tile's tree, its clusters from a rotating start, and
the cores of each cluster). `rand()` decides in which order a cluster clocks its
cores; since a core touches only its own ports the order makes no difference,
and the model takes them in ascending order.

A packet is the number of its thread: components pass pointers. `net` holds all
ports (one packet) and fifos (`Push` drops what does not fit, as `fifo::push`
does, and nobody looks at the result). Everything a handler does to `net` is to
take the packet at the front of one port or fifo and put it into another, so a
handler is a sequence of *hops* and `Route` makes them in order with `Transfer`.
They differ in what happens when the port is not ready: the packet stays
(`Hop`), or the component throws `ExitSim` (`FatalHop`, `RoutedHop`; the second
chooses the port by the packet). A loop that empties a fifo is as many hops as
the fifo has places (`UntilEmpty`).

| TLA+ | Code |
|---|---|
| `CrossBarHops` | `CrossBar::PerCycle`: `setOutports`, `route`, `readInports` |
| `TreeHops` | `TreeNetwork::PerCycle`, leaves to root and root to leaves |
| `CCacheReplies`, `handleMemsideInputs`, `CCacheRequests`, `CCacheStep` | the handlers of `ClusterCacheStructural::PerCycle`; the packet at the memory side is given its access in the same step |
| `Calls` | the order in which the chip clocks its parts |

A core is `Resume` (a stalled thread sends or checks for its
reply), `Execute` (select a thread and run an instruction) or `NoThread`
(`ExitSim`). `Try` is `thread_select`, whose stride grows with each try.

### 3.4 FunctionalCluster

The functional machine, where a core's port calls
`ClusterCacheFunctional::FunctionalMemoryRequest` directly. With
`CF_FIXED_LATENCY` 0 the reply is sent during the call; otherwise
`outpackets` keeps it. `Statuses` is what
`MemberCallbackWrapper::operator()` yields: it has no return statement, so the
value is undefined, and the model lets it be whatever a build produces.

### 3.5 Isa and Sequential

`Isa` holds the generated tables of both decoders: `DecodeSwitch`
(`decode_switch.h`, the legacy decoder) gives type and format of each opcode,
`StaticDecode` and `FunctionalType` (`simdecoder_new.cpp`) the functional
core's. `LegacyReads`, `LegacyWrites`, `LegacyLocks`, `WaitsUnlocked` are the four
scoreboard tables, `Latency` and `Unit` the tables of `instr_legacy`. A word is
its opcode, register fields and branch target.

`Sequential` is what a thread of the functional core does: one instruction after
the other on the registers as the ones before it left them. Values are symbolic:
an instruction writes the pair of its address and the parity of the backward
branches taken so far, so two passes of a loop write different values and a
stale operand shows. `Step` takes the operands of which nothing is claimed:
`{}` in its own specification, and for `Pipeline` those that the code gets wrong.

### 3.6 Pipeline

One thread of the legacy core. `at` says which stage runs next for which of the
two pipes, in the order of `CoreInOrderLegacy::PerCycle`.

| TLA+ | Code |
|---|---|
| `FetchIdle`, `FetchStall`, `FetchLine` | `FetchStage::fetch_2wide`: halted or no room, a miss, a line; with BTB, fixup and `AddSpecInstr` |
| `Decode`, `FpComplete` (`Passed`) | `DecodeStage`, `FPCompleteStage` |
| `ExecuteIdle`, `ExecuteStalls`, `Restart`, `Issue` (`MovesOn`) | `ExecuteStage::execute` and `Update`, `regfile_read`, `check_reg`, `get_reg`, `flush` |
| `Release` | the loop of `ExecuteStage::Update` that gives units and ports back |
| `MemPasses`, `MemStalls`, `MemSchedules`, `MemServes` (`HandOn`) | `MemoryStage::memaccess` and `Update` |
| `CachePasses`, `CacheStalls`, `CacheServes` | `CCacheAccessStage` |
| `WriteBack` | `WriteBackStage`, `put_reg`, `clear_reg` |
| `UpdateLatches` (`Moving`) | `CoreInOrderLegacy::UpdateLatches` |

The caches and the task queue appear as stalls: an access is served at once or
is late, at most `MaxStalls` times in a behaviour. `ProgramsAreClosed` says that
branches stay in the program and that its last two words are a loop;
`NullDecodesFromNothing` that no opcode decodes to the type of an empty latch.

`ImplementsSequential` names what the legacy core does otherwise: two kinds of
operand (`Swapped`, `Rewritten`) and two kinds of program (`Syncs`, `Links`). The
programs of the run meet all four, and each is needed (section 6, 3, 6, 8, 9).

### 3.7 Execute

The result, next program counter, access and global effect of every instruction
both cores execute, over words scaled to `Width` bits; a half is what the code
calls 16 bits, a quarter 8 bits. Floating-point operations are terms. `Excepted`
names the operands for which the two cores are known to differ (section 6).

### 3.8 Dram

The controller of one channel of one rank with the per-bank scheduler. The code
keeps the cycle of each event, the module its age, up to the point from which no
latency can tell it from an older one. `channel` is `DRAMChannelModel`, the
second account of the same times, whose assertions are one property. The other is about
the scheduler: `OnlyRowHitsStarve` says that every request is answered, unless a
row hit is served time and again while its bank has a request past the hard
limit that misses the row (`Overtakes`). The watchdog's assertion is left out:
what starves here waits for ever, in the code it stops the simulator.

### 3.9 ClusterCaches

The data caches of one cluster with coherence left to software, which is the
default: L1s, L2, its miss entries and eviction buffer, sleeping cores, memory
barriers, global operations. A cycle is `Tick` (`L2Cache::PerCycle`, then the
L1s) and one step of each core in the order of its number. Memory keeps the
values (`CacheModel` writes through to the backing store), so the module is
about who holds which line, which words of it are valid and which dirty.

### 3.10 Directory

The coherence protocol for one directory set: the cluster caches (`cache`, and
per line the `mshr` of a request or release and the `answer` to a probe), the
network (`requests` and `replies` on `VCN_DEFAULT`, which a bank scans in no
fixed order; `up` and `down` on `VCN_PROBE`, in order), and the directory
(`entry`, `replacing`, `outbox`). `pointers`, chosen at the start, is how many
sharers an entry can name: as many as there are clusters is the full map, fewer
the limited directory, whose overflowed entries are recalled by broadcast.

| TLA+ | Code |
|---|---|
| `Miss`, `StoreToShared`, `GiveBack` | `cache_model_*.cpp`, `L2Cache::evict` and `pend` |
| `Inject`, `InjectAnswer` | `L2Cache::ccache_handle_pending_misses` |
| `ProbeIdle`, `ProbeSquashes`, `ProbeMarks` | the cases of `helper_handle_coherence_probe`: nothing pending, pending and not sent, sent |
| `ReleaseDone`, `Fill` | `ccache_handle_tile_net_replies`, `L2Cache::Fill` |
| `Reply`, `ShareLine`, `InvalidateSharers`, `RecallOwner` | `GlobalCache` asking `request_read_permission`, `request_write_permission` and their helpers |
| `MayReplace`, `Allocate`, `Evict` | `CacheDirectory::replace_entry` |
| `SendProbe` | `helper_handle_directory_responses` |
| `SharerLeaves`, `ReadRelease`, `OwnerLeaves`, `WriteRelease` | `helper_handle_probe_responses`, `release_read_ownership`, `release_write_ownership` |

Abstractions: one set and one bank (sets and banks share nothing); the capacity
of the MSHRs, the accessed bits (they only put the answer to a broadcast off)
and the watchdogs only delay; the victim of a replacement is any way, whatever
the policy; `IC_MSG_LINE_WRITEBACK_REQ` is treated everywhere as
`IC_MSG_EVICT_REQ`. A fill and the release of its MSHR happen in one cycle
(`CURR_CYCLE + 0`), so they are one step; a blocked fill is retried at the start
of the next cycle, before any probe. Software prefetches are disabled when the
directory is on (`memory_req.cpp:326-334`), and the downgrade probe is reached
only in variants.

### 3.11 Interconnect

`TileInterconnectNew`, two levels of routers in each tile, and
`GlobalNetworkNew`, with the three virtual channels; a tile splits a broadcast
on its way down and combines the answers on their way up. `Tick` is one
`PerCycle` of both; what clusters and banks do happens between two ticks in any
order. A message is its type, cluster, address, ready cycle and what broadcasts
add to it; `n` numbers the messages of a flow and is no field of the code.

### 3.12 GlobalCache

One bank with coherence left to software. A request of a cluster names a line
and is *new*, *pending* (a miss handling entry was taken for it) or has its
*reply* ready, the three states of `GCacheRequestStateMachine`. `PerCycle` is
one call of the code's and one step: first the buffer from its front, then the
miss handling entries from any of them round.

| TLA+ | Code |
|---|---|
| `NewRequests`, `Look` | `helper_handle_new_requests`, one message |
| `Tell` | `helper_handle_bcasts` |
| `Hit`, `Answer` | `helper_handle_gcache_request_hit`; the scan then passes over a message |
| `Miss`, `Pend`, `Schedule` | the read of a line nobody has asked memory for; `pend`, `scheduleWithGlobalMemory` |
| `WriteMiss` | a write allocates its line at once |
| `Prefetches` | `helper_handle_prefetches`, in bulk or line by line |
| `PendingRequests`, `Served`, `Notified` | `helper_handle_pending_requests`, `notify_fill`, `PM_clear` |
| `Evict`, `WriteBack`, `Fill` | `evict`, `Fill` |
| `Offer`, `TakeReply`, `MemoryAnswers` | external: the global network and the memory controller |

A way whose victim finds no entry is *locked*: `victim` in its tag is the line
it gives up, and `is_being_evicted` asks for it. Memory keeps the values, so the
module is about which lines are valid, dirty or owed to memory. The replacement
policy names any way.

## 4. Runs

| Run | Instance | Distinct states | What it shows |
|---|---|---|---|
| `tq_any_order` | 3 cores, queue of 2, 3 tasks, latencies 2 | 419,963 | no task lost, no barrier while work is left, no common stall, barriers release, `TaskPool` is implemented |
| `tq_reuse` | 2 cores, re-initialisation, `TQ_End`, assertions on | 229,077 | what still holds when software re-initialises or ends the queue |
| `tiled_network` | 2 tiles x 2 clusters, 1 core each, fifos of 2 | 598,072 | packets are conserved, replies find their core, `MemoryService` is implemented |
| `tiled_cores` | 1 cluster, 2 cores x 2 threads, halting | 62,328 | every request is answered, every thread runs |
| `functional` | 2 cores, latencies 0 and 2, status ACK | 37,996 | requests are executed once; what a link is worth |
| `pipeline` | 97 programs, one late access | 228,092 | the pipeline implements `Sequential` with the exceptions named; the account books; programs end |
| `execute` | every instruction, 10 corner operands of 8 bits | 149,484 | both cores compute alike |
| `dram` | 2 banks x 3 slots, row hits without end and 1 of 4 other requests | 833,614 | no latency is broken; only row hits starve a request |
| `cluster_caches` | 2 cores, 2 lines, 1 way, sleeping or not | 294,312 | who waits is waited for; nothing dirty lost; barriers fence |
| `directory` | 3 clusters, 2 lines, 1 way, 1 or 3 pointers | 354,138 | coherence, and no locked entry stays locked |
| `interconnect` | 2 tiles x 2 clusters, 2 banks, lists of 1 | 182,542 | order per channel, combined answers, everything arrives |
| `global_cache` | 2 clusters, 4 lines, 1 way, 3 entries | 354,802 | a dirty line is written before it is read again; the bank never stops |

Every property has a mutant: a change to one definition, of the kind a slip in
the code would make, with which TLC finds the property violated.

### Why these bounds

* Task queue: three cores let one block, one run and one enqueue in a cycle; a
  queue of 1 or 2 is filled and overflowed by loops of 2 and 3 tasks; latencies
  of 2 make a promised task and an announced barrier last longer than a cycle,
  with calls in between. The proofs remove the bounds.
* Memory: two threads compete in a cluster; three values let an addition wrap.
* Chip: two tiles and two clusters in each are the least in which packets meet
  in a tree and in a crossbar. Two threads on each of two cores exercise
  `thread_select` and the shared fifos. `FifoDepth` must be at least the number
  of cores in the tile (section 6, 12). The proofs remove the bounds but that one.
* Pipeline: the programs are a load, an addition, one instruction of each kind
  that any of the tables tells apart, and a reader of its result; every triple
  of loads, additions and branches, forwards and backwards; a SYNC; a JAL and a
  JALR that link in another register than r31; and, for each type whose
  write-back clears scoreboard entries, one that writes a register, a load or an
  addition that writes it again at once, and its reader. CMEQ, CMNE, EVENT, PRIO
  and FMSUB (section 6, items 1 and 4) and the types without legacy code are left
  out. One late
  access (`MaxStalls` = 1) anywhere lets every stage stall once with every other
  stage full, and every state of a stall be left in all ways. The parity in a
  value is enough because a loop's earlier pass is at most one behind in flight.
* Execute: the operands lie at the edges of the word, of its halves and of a
  byte; eight bits keep all these apart.
* DRAM: latencies scaled so that none overtakes another of `dram.h`, the limits
  in the ratio of those in `sim.h`. Reads of two lines in one row may come for
  ever, and with three slots the next is there before the last one has returned:
  a forced request that misses the row is then overtaken without end, the case in
  which the code breaks its promise. TLC finds that counterexample when the
  exception is taken out of `OnlyRowHitsStarve`. `MaxRequests` = 1 bounds the
  other requests. Waits need no bound: past the hard limit the scheduler compares
  them only with each other, and they are kept as ranks.
* Cluster caches: two lines in one way of every cache, so every fill replaces
  the other line; four entries, of which one is for evictions and one for
  broadcasts, run out. The proofs remove the bounds.
* Directory: with three clusters a recall has several answers, a waiter and
  crossing releases; the second line and the single way force replacements of a
  line in every state; with one pointer every second reader makes a broadcast.
  Poisoned fills, broadcasts that have seen a poisoned line and held-back answers
  are all reached. The proofs remove the bounds.
* Interconnect: every list takes one entry before it stalls, so each level
  stalls the one below; the real sizes are 32 entries at the routers and 16 and
  64 at the banks. The order of the parts is that of `chip_legacy.cpp:62-105`.
* Global cache: one way, since the policy only chooses the victim. With four
  lines and three entries, of which one is for evictions, a victim waits in its
  locked way while a fetch and a fetch ahead of it hold the others; with fewer
  the lock is never taken.

### Deadlock

It is checked except where the system really stops: the chip when all threads
have halted or a component has thrown `ExitSim`, the functional cluster when the
bound on instructions is reached and the last reply is in, and the task queue
when an assertion has stopped the simulator. `MaxTasks`, `MaxRequests`,
`MaxStalls` and `MaxSent` bound what software or the environment does, and are
conjuncts of the guards that spend them.

### Fairness

* `TaskQueue`: weak fairness of `PerCycle` (the simulator always clocks) and of
  `TQ_Dequeue` for a stalled core (the pipeline presents a stalled instruction
  again). Software is never obliged to call anything.
* `TiledChip`: weak fairness of `Advance`: the next call is made.
* `Pipeline`: weak fairness of `Next`: the clock does not stop. That an access
  is served in the end is the bound `MaxStalls`.
* `ClusterCaches`: weak fairness of the clock (`turn`), and the network takes
  every request and answers it.
* `Directory`: weak fairness of what the caches, the network and the bank do in
  every cycle: inject, deliver, answer, and reply to a request that is
  permitted. Loads, stores and evictions are never obliged, nor is any given
  request promised to be first at the directory. Consequently nothing is claimed
  about a particular request being served in the end: two clusters may take a
  line from each other for ever, and the aggressor of a pending replacement may
  find its victim busy each time it asks. What holds, and is checked, is that a
  locked entry is unlocked.
* `Interconnect`: weak fairness of the clock and of the clusters' and banks'
  ends of the network.
* `Dram`: the clock does not stop, written as "`clock` changes again and again".
  `PerCycle` is always enabled and, with two slots or more, always changes it, so
  this is its weak fairness. Nobody is obliged to make a request, or to stop.
* `Execute` has safety properties only.
* `GlobalCache`: weak fairness of the clock, of the network taking a reply, and
  of the controller finishing each line of what it has taken. Nobody is obliged
  to ask, and the controller may be full as long as it has lines to finish.
  `BankServes` speaks of the bank as a whole: one request may starve (section 6).

`ThreadsRun` holds with two threads per core. The stride of `thread_select`
limits it: with three threads the current one is never tried, so a core whose
only active thread it is stops with `ExitSim`; with four, when two have halted,
an active one can starve. The default is one thread (`NUM_THREADS`,
`cmdline_parse.cpp:249`).

A single core's access may starve in `ClusterCaches`: cores are served in the
order of their numbers and a core that asks again at once keeps the miss entries
full. What holds is that an access that got its entry ends (`PendedAccessEnds`).

## 5. What is proved

All proofs hold for every value of the constants allowed by the named
assumptions of the modules; TLC evaluates each assumption on the runs. Each
inductive invariant was checked by TLC on the run's instance before it was
proved; that of `TiledChip` on the whole of `tiled_cores` and on the first
289,000 of the 598,072 states of `tiled_network`.

**TaskQueueProofs.** `IInv` is inductive and has four parts.
`TypeInv` adds to the types that whatever a pending dequeue holds is a task.
`AwakeInv`: the queue is within its size; a core that runs has not declared
itself blocked; a non-empty queue has an awake core. The last is preserved
because only a running core enqueues, and a core declares itself blocked only
after it saw the queue empty in the same step. `OnceInv`: a core's *claim* on a
task lasts from its selection to its delivery. The claim is not simply
`PENDING_DEQUEUE` in the latch: `TQ_Dequeue` looks at `CurrState`, so if
`TQ_End` replaces `NextState` in the same cycle, the task is still delivered to
a core that has not made its call; `Claim` says so. Claims are on different
tasks, none of them queued or delivered. `KeepInv` (without `TQ_End`): a core
that has not called in this cycle finds in `NextState` what the clock left,
hence a call only replaces the state it looked at, and nothing is forgotten.
Theorems: `TypeCorrect`, `WorkWakes`, `BoundHolds`, `TaskOnce`, `TaskKept`,
`BarrierDry`. `BoundHolds` and, below, `LatchAgrees` state properties
(`QueueBounded`, `StallMatchesLatch`) that no run repeats.

That it implements `TaskPool`: `FitInv` adds that a core is stalled exactly when its
latch will not be ACTIVE. Each step of `TaskQueue` is a step of `TaskPool` or a
stutter; `Clock` is always a stutter, `Announce` opens the barrier. Theorems
`Implements` (under `~Ends` and `~Reinit`, as software uses the queue) and
`LatchAgrees`.

**MemoryServiceProofs.** `TypeCorrect` needs that the arithmetic stays in a
word. `LinkIsAtomic` and `LinkLostOnlyToWriter` are not inductive by themselves:
whether a write breaks a link depends on who may write the word, so `Asked` adds
that every packet and every valid link comes from a request that software may
issue, and `SyncAssumption` applies to both.

**DirectoryProofs.** For any finite set of
clusters, any lines, ways and pointer counts, whatever the programs access:
`OneWriter`, `CopiesAreTracked`, `CopyNotPending`, `ReleasesExpected`,
`DataIsFresh`, `ReservationAwaited` (one for each safety invariant of the run)
and `TypesInvariant`. None of these is inductive: that no untracked copy appears
depends on every message that could still make or drop one. `IInv` therefore
says, for each cluster and line (`Sound`), how five things agree: what the cache
holds, what is pending in its MSHRs, the requests and replies under way, the
probe or its answer (one token, in one place at a time), the release or its
reply, and the line's directory entry. It is a predicate on these views only, so
the first part of the module proves, once per operation and free of queues and of
other clusters, that each side's move keeps it; the rest computes what each
action does to the views of all pairs and applies the lemma. `Distinct` (no
queue holds two messages of one line and type) and `Directed` (which kinds go up
and down) make the views well defined. `ReservedForWaiter` is inductive given
the types. Two things turned out while proving: the order of messages on the
probe channel is not needed for safety (the views forget it), and
`fillPending`, the waiting cluster and the stamp on broadcasts matter only for
liveness. `LockReleased` stays with TLC.

**DramProofs.** The controller decides by its own time stamps and the channel
model asserts by others. `IInv` says that the accounts agree wherever an
assertion looks: the age of each open row, the data window against the bus,
the open bank against the last activation. `AccountsAgree` and
`NoAssertionFails` hold for any banks, slots, requests and latencies with
`RRD <= RC` (`dram.h` has 6 and 63; with a longer RRD the controller's record of
the last activation is forgotten too soon). The assertion against two
activations of one bank is vacuous, because the bank the model remembers is
open. `OnlyRowHitsStarve` is liveness and stays with TLC.

**PipelineProofs.** For any set of programs that satisfies `ProgramsAreClosed`,
any registers and any `MaxStalls`. The proof is layered; each layer uses the
ones before it.

1. `StructureHolds`: only what is past execute has issued (`PastIssue`); execute
   has room for what it issues and decode for a line (`Roomy`); what a stage has
   kept it has flagged as stalled (`Flags`), which is why `UpdateLatches`
   overwrites nothing in front of execute; no address leaves the program
   (`Addressed`). The nineteen actions are reduced to eleven kinds of steps
   (`Steps`) that say what happens to the latches, and the layers above reason
   about these.
2. `SlotsAreDealtInTurn`: counted from the youngest instruction that has not
   issued, the n-th one has the n-th slot behind `ListHead` modulo 6, and no
   other slot is taken. There are at most six because decode is empty when
   fetch adds a line (`Drained`).
   `ListHoldsTheSpeculative` (`SpecRing`) follows for every program.
3. `NothingStaysLent` (`UnitsReturned`): while execute works, a unit or port is
   taken by exactly what this cycle has handed on (`Lent`). It holds for programs
   without CMEQ and CMNE (`Moveless`), and fails with them (section 6, 1).
4. `Onward`: the stages behind execute have room for what they hand on, and
   nothing is overwritten at the clock edge.
5. `UseCountsAreExact` (`ScoreboardBalanced`): the use count of a register is
   the number of issued instructions in flight that write it, for programs
   without CMEQ, CMNE, EVENT, PRIO and SYNC (`Plain`; section 6, 1, 4 and 6 say
   what these do). `Counted` adds up the eight places past execute; each kind of
   step moves an amount from one place to another or to write-back.

The run checks the same three properties with one late access; the theorems say
that neither the number of stalls nor the programs matter. The restrictions of 3
and 5 are those of the code: the excepted types do break the books.
`ImplementsSequential` and `Halts` stay with TLC; the first needs the bypass
network's values over `Newest`, which is a recursive function over the places.

**FunctionalClusterProofs.** One cluster whose cores have a thread each, any
number of cores and any latencies, and a build in which the callback returns ACK
(`Acks`). With NACK among the results the refinement is false (section 6), so
that hypothesis is the point. `Inv` says that a core's packet is in one place
at a time: in the hands of the core that sends it, in `outpackets` with its
access still to be made, or in the core's reply port with its access made
(`Places`). `RepliesAreServed`: a
reply belongs to an access that was made. `ImplementsService`: each step is one
of `MemoryService` or a stutter, so an access is made once.

**ClusterCachesProofs.** For any number of cores, lines and miss entries, any
latencies and both ways of waiting. A request, a reply and an eviction walk over
the miss entries and the cores, changing them as they go: recursive functions of
the number of steps. The library's induction theorems take an operator and are
out of the provers' reach, so the module proves the same for sets (`UpTo`, from
the well-foundedness of finite intervals) and from it `Iterated`: the function
exists, has the value its definition says, and stays in any set that its start
is in and each step keeps. `IInv` has a conjunct for each part of the answer to
"who waits for whom". `Distinct`: no two entries share an index, or one reply
would free the entry of another miss. `OnceInOrder`: a line is fetched once, and
not behind its own write-back. `Waited`: a core asleep is on the list of an
entry. `Room`: misses leave the entries that evictions need. `WordsHeld`: valid and
dirty words are of lines the L2 holds. `AtBarrier` and `Fenced`: a core at a
barrier makes no request and leaves none behind. Theorems: `TypeCorrect`,
`NobodyLeftAsleep`, `EvictionsFindRoom`, `FetchedOnceInOrder`,
`WordsOfHeldLines` (no run repeats it), `BarriersFence`, `StoresAreNotDropped`.
`EvictionsFindRoom` asks that there be an eviction buffer at all; without one a
full set of entries leaves an eviction none. That each request ends
(`PendedAccessEnds`) is liveness and stays with TLC.

**TiledChipProofs.** For any number of tiles, clusters, cores and threads that
is `Sized`: a fifo has a place for each core of a tile, and the stride of
`thread_select` comes by every thread (so it does when the number of threads is
a power of two, and not with three). The default build has up to 16 clusters of
8 cores in a tile and fifos of 99, so the first half excludes tiles of 13
clusters and more; in those a packet can be lost (section 6, 12). Theorems:
`PacketsKept`, `RepliesFindTheirRequests` and `ImplementsService`, on which
everything `MemoryServiceProofs` shows carries over to the chip.

`PacketInOnePlace` is not inductive, because a packet may be lost at a full fifo or
doubled by a component that throws half way. `IInv` adds:

1. `Waiting`: a core has at most one stalled thread, and only stalled threads have
   packets. Hence a core has one packet in the whole network.
2. `Carried`: each packet is in one place, once, on a way that its own core's
   packets take (`Good`), and it is beyond the memory access exactly when
   `MemoryService` has served it. A fifo is passed by the packets of the cores
   below it, of which it holds one each, so it never overflows.
3. `InTurn`: a tree throws when its root port is busy, a cluster cache when the
   port above it is. Neither can be: the request crossbar reads the root ports
   before the trees are called, and a cluster reads its memory side after.
   `May` says which ports may hold a packet at each point of the cycle. The order of the
   calls in `ChipTiled::PerCycle` is what this rests on.

`HopFacts` says what one hop does to a packet and to the ports, `RouteFacts` that
a sequence of hops keeps what each of them keeps, again by `Iterated`. The rest
goes through the hops of each component, the calls of a cycle and the steps.

**Only model-checked, and why.**

* Every liveness property (`BarrierReleases`, `RequestsAnswered`, `ThreadsRun`,
  `PendedAccessEnds`, `LockReleased`, `Halts`, `BankServes`, `OnlyRowHitsStarve`
  and their like): the
  provers have no rule for fairness here, nor for ENABLED.
* `ImplementsSequential` of the pipeline, for the reason given above.
* `Execute`: bitwise operators are defined recursively.
* `Interconnect` has not been attempted: `FlowsInOrder` needs an account of which
  level each message of a flow is at, over walks of the routers that change the
  lists they walk.
* `GlobalCache` has not been attempted either: a step of the bank is two such
  walks, one of which starts at any entry.

## 6. Where the code departs from its documentation or its other half

Met while modelling; each was seen in the source, and in a run or while a
theorem was being proved where it is in a modelled part. The models follow the code; the
exceptions the properties make are named.

Task queue and new machines
* `TQ_End` stores `END_UNBLOCK` in every latch and `TQ_Dequeue` has no case for
  it: a stalled core gets BLOCK for ever, where `task_queue.h:271` says "All
  blocked threads are unblocked". `tq_any_order` and `Implements` exclude
  `TQ_End`.
* 12. `tree_network.cpp:66` ignores the result of `inbound.push`: with more cores
  in a tile than places (99) a packet is lost and its core waits for ever.
* `callback.h:24`: `MemberCallbackWrapper` has no return statement. When the
  garbage reads as NACK, a request that was executed is sent again (with both
  values in `Statuses`, `ServiceSpec` fails).
* `core_functional.cpp:187-193`: the stride of `thread_select` (section 4).

Legacy core
* 1. CMEQ and CMNE that do not move become a NOP type in execute
  (`execute.cpp:92`), so Update does not find the unit to give back ("Release
  resource", `:84`) and write-back does not give the use count back.
* 2. They never update the value on the bypass network. 3. For the last source of
  vector operations `scoreboard_update.h:503,543,639,679,719` reads the register
  file when it should bypass and the reverse (`Swapped`). `ImplementsSequential`
  excepts that operand, and fails in the run when it does not.
* 4. EVENT and PRIO take use counts (`get_reg`) that write-back never puts; FMSUB
  has no case in write-back.
* 6. The restart after SYNC drops instructions (`execute.cpp:163`; `FixupNeeded`
  is never set). Programs with SYNC are excepted from `ImplementsSequential`
  (`Syncs`), which fails in the run otherwise.
* 7. The functional decoder does not know SLEEP. 8. `clear_reg` at write-back of
  vectors (`writeback.cpp:418-421`) zeroes the bypass count and the lock of a
  younger writer of the register, whose readers may then read the old value.
  `ImplementsSequential` excepts registers that are written again behind a vector
  operation (`Rewritten`), and fails in the run when it does not. Task-queue
  operations and STC call `clear_reg` too, but hold their registers locked until
  then, so no younger writer is behind them; the run has them without an
  exception. 9. JAL and JALR write `reg_d` in the functional core and r31 in the
  legacy one (`Links`; the property fails in the run without that exception).
  11. Instructions behind a HLT still execute.
* 13. CLZ of 0 is 33 in one core and 32 in the other; SRA and SRAI by 0 of a
  negative number are undefined shifts in the legacy core; ATOMADDU uses the
  immediate in one core only; VSUB and VFSUB subtract the other way round than
  their scalar forms (`Excepted`).

Directory
* `directory_helpers.cpp:499` resets the entry before its state is tested for
  PENDING_WRITE, so the branch for a waiting writer (`:476`) is dead; the writer
  asks again. `:619` has the same order in the probe-filter path.
  `directory.h:492`: `operator=` assigns `pf_bcast_next_sharer` to itself.
* `cluster_cache.cpp:768` decrements `outstanding_bcast_ack` for answers that
  never incremented it (`cluster_cache_coherence.cpp:240`).
* `directory.cpp:206-250`: `get_num_valid_entries` throws `ExitSim` if any entry
  is valid at a sample.
* A probe needs an MSHR (`cluster_cache_coherence.cpp:270`).

Cluster caches
* A bulk prefetch fetches only its first line (`cluster_cache.cpp:1384`).
  `memory_barrier` indexes by core number what entries record by thread. An
  atomic's `invalidate_word` leaves a dirty partial line, so that a READ and an
  EVICT of a line can be outstanding together, which
  `helper_check_pending_miss_invariants` (`cluster_cache_util.cpp:313-388`, its
  call commented out) would refuse. A store that misses never marks the line dirty
  (`cache_model_write.cpp:310`). With nonblocking atomics a reply completes the
  next atomic (`cluster_cache.cpp:294`). A memory barrier does not wait for
  write-backs of evictions, though `cache_model.cpp:170-178` says so. An L1 fill
  may complete after the L2 has dropped the line (`cluster_cache.cpp:1107`), and
  LINE_INV leaves other L1s' copies. The code does not tell apart the ages of
  touches of one cycle.
* A core may starve while the MSHRs are full (`cache_model_write.cpp:366`).

Networks
* `cluster_cache_coherence.cpp:196-237`: for a shared split broadcast
  `set_bcast_resp_valid` is never called, so the tile adds no sharer, against the
  comment at `:205-208`; the dirty test at `:212` is swapped (only with
  `--bcast-network` and the probe filter).
* The buffers of the global network are not bounded (`global_network_new.cpp:222`,
  against the comment at `:122`). `GET_NUM_L1_ROUTERS` lacks parentheses and the
  router number rounds up. `BroadcastReplyInject` tests the PROBE list and fills
  BCAST. With one cluster per tile a skipped tile leaves an empty wait entry that
  trips the assertion of the next broadcast. Broadcasts and probes may overtake
  each other.

DRAM
* (a) A forced request is overtaken by row hits (`dram_controller.cpp:504`, against
  `include/sim.h:462`): with three slots and endless hits it is never served, and
  in the code its watchdog expires. `OnlyRowHitsStarve` excepts this case alone.
  (b) `ReadyLinesEntry::operator<` is not a strict weak order, so the second line
  of a request of three is read twice. (c) `canPRE` and `canREAD` subtract
  unsigned cycles, so tWR and tWTR are not kept during a burst. (d) `getLastCAS`
  starts from bank (0,0), so tCCD is unchecked until that one is read.
  (e) `MC_PENDING_WDT - INT32_MAX` makes `foundHardForcedRequest` true when
  nothing is forced. (f) "Stick with it until completed", but other slots are
  tried. (g) Ages start at `UINT64_MAX`. (h) The "single" scheduler trips an
  assertion on requests whose lines are all pending. (i) `sim.h` says of
  `MC_PENDING_WDT` "we reset it and have it try again"; the code asserts.

Global cache
* The way replaced when no line is older than the first is way 0, even if it
  holds a line that nobody has used yet (`global_cache.cpp:141-159`), against
  "Otherwise, skip this way".
* A line that is allocated by a write is not asked for with `is_being_evicted`,
  against `cache_base.h:239-246`. When it is written again while its write-back
  is under way, and replaced once more before that ends, `evict` finds the line
  pending (`:174`) and drops it without a second write-back. The program loses
  nothing, because values live in the backing store; the traffic is one write
  short. `OwedUntilWritten` counts the first write-back for both.
* A fill that has locked a way can be overtaken for ever by writes: the lock
  names no owner, and new requests come before pending ones, against the comment
  on livelock at `:111-114`.
* A read of a line that is being evicted takes an entry for no lines
  (`:1443-1455`), which `MissHandlingEntry::set` refuses with an assertion. It
  needs more entries freed in a cycle than the eviction buffer has.
* The branch for `PREFETCH_NGA` (`:1000-1022`) never calls `notify_fill`: the
  entry is not given back. The kind is left out of the model.
* After an answer the scan passes over the next message (`erase`, then `++`);
  it is seen in the next cycle.

## 7. What is not modelled, and why

* What does not affect another part: profiling, tracing, display, command line,
  host interfaces, checkpoints; and vendored and generated code other than the
  decoders.
* The affinity schedulers (`task_queue.cpp:23-57` and `416-889`): nothing
  instantiates them; `sim.cpp:149` makes a `TaskSystemBaseline`.
* The probe-filter, overflow and hybrid directories and the broadcast manager:
  they run only with options of the command line, and come next in the plan.
* Of modelled parts: several threads of a legacy core; several ranks, the row
  cache and the other schedulers of DRAM; hardware prefetch, the instruction side
  and locked ways of the cluster cache (`EvictionsHaveRoom` shows that the locks
  are never needed without the directory); sequence numbers, notify messages and
  the ideal and broadcast networks; the TLB. The components in `PROJECT.json`
  say so for each.
