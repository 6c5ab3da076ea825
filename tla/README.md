# tc_rdma_proc: TLA+ models, model checking and proofs

tc_rdma_proc is a small RDMA program: a server and a client connect through the
RDMA connection manager (rdma_cm), exchange one meta message over a reliable
queue pair, and take the connection down when the peer goes.  Beside the program
the repository holds two concurrent data structures it does not use yet, a pool
of pinned memory blocks and a lock-free ring of links, and the benchmark library
it is linked with (`lib/perf`, the perftest library), which is most of its code.
This directory models all of these, checks the models with TLC and proves the
central safety properties with TLAPS.

Paths below are relative to the repository's root.

## 1. Inventory

| component | state | operations | what is hard |
|---|---|---|---|
| **Connection life cycle**: `ConnectionProc`, `RDMAServer`, `RDMAClient` (`src/rdma_com.cc`, `src/env_basic.cc:165-284`) | `conn_ctx` (identifiers, event channel, queue pair, meta buffers), `conn_params.connected`, the retry counter of `run` | `run`, `on_event` and its handlers, `build_connection`, `destroy_connection`, `stop` | two event loops in two processes, peers that die at any point, requests of a second client, calls whose failure is ignored, events that must be acknowledged before an identifier is destroyed |
| **Program driver**: `main`, `rdma_conn_thread` (`src/tc_pro.cc`) | `thread_alive` | start a detached thread, sleep one second, spin while it is alive | an uninitialised flag and a sleep for synchronisation |
| **Completion path**: `poll_cq`, `on_completion`, `rdma_op`, `post_meta_send_wr`, `post_meta_recv_wr` (`src/env_basic.cc:106-214`, `src/rdma_com.cc:12-51`) | completion queue, its arming, events on the completion channel, slots of the send and receive queues | post, poll, re-arm, destroy | completions that arrive while the poller re-arms, slots that come back only by polling, one queue for two directions |
| **Pinned memory**: `Pinned_Fix_Memory`, `pinned_block`, `MemoryMagr` (`src/mem_mag.cc`, `src/include/mem_mag.h`) | `next_offset` (atomic), `blocks` (vector, under `mem_mutex` for writers only) | `allocate_pinned_memory`, `get_pinned_mr`, destructor | lock-free reservation with roll-back, unlocked readers, dropped results |
| **Link_buf** (`src/include/link_buf.h`) | `m_links`, `m_tail`, all atomic | `has_space`, `add_link`, `advance_tail(_until)`, `clear_links`, `set_tail` | slots shared by positions one lap apart, operations that finish out of order |
| **Parameters and device check**: `EnvironmentProc` (`src/env_basic.cc:7-104`) | `env_params` | `parse_params`, `check_env` | narrow integer conversion, fields without a default |
| **Message encoding**: `m_write_*`, `m_read_*`, `RdmaMessage`, `MetaMessage` | a buffer | constructor, byte-order helpers | 32-bit length arithmetic |
| **Timing demo, stub**: `src/main.cc`, `src/func_imp.cc` | none | print the time; nothing | nothing |
| **perftest: parameters** (`lib/perf/perftest_parameters.c`, `.h`) | `struct perftest_parameters` of each side | `init_perftest_params`, `parser`, `force_dependecies`, `check_link` | two sides derive their parameters separately and must come to the same ones; options depend on each other and on their order |
| **perftest: exchange channel** (`perftest_communication.c`) | a socket or a queue pair with one buffer and one receive; `rem_dest` | `establish_connection`, `ctx_hand_shake`, `ctx_xchg_data`, `check_sys_data`, `check_mtu`, `ctx_close_connection` | messages that do not say what they are, a buffer for both directions, a last message and a closing socket |
| **perftest: connection manager** (`perftest_communication.c:2035-2710`) | `cma_master`: nodes, counters, event channel | `create_rdma_cm_connection`, the event handlers, `rdma_cm_disconnect_nodes`, `rdma_cm_destroy_*` | several connections whose events come in any order and are numbered on each side by arrival; failures in the middle |
| **perftest: verbs resources** (`perftest_resources.c`) | `struct pingpong_context`: channel, domain, region, queues | `ctx_init`, `ctx_connect`, `ctx_alloc_credit`, `destroy_ctx` | acquisitions and releases under conditions written twice, in an order in which nothing is in use |
| **perftest: queues and loops** (`perftest_resources.c`) | send, receive and completion queues, counters of each loop, credits, the timer | `ctx_set_*_wqes`, `run_iter_bw`, `run_iter_bw_server`, `run_iter_bi`, `run_iter_bw_infinitely(_server)`, `run_iter_lat_write`, `run_iter_lat`, `run_iter_lat_send`, `run_iter_lat_burst(_server)`, `catch_alarm` | windows, moderated completions, receives put back in lists, credits written into the peer's memory, loops that end by counting or by a timer |
| **perftest: raw Ethernet and multicast** (`raw_ethernet_resources.*`, `multicast_resources.*`) | packet templates, a multicast group | build headers and flow rules, join a group | layouts of bytes |
| **perftest: clocks, counters and reports** (`get_clock.*`, `perftest_counters.*`) | none that another part reads | calibrate, read, print | nothing |

How they interact.  `main` checks the environment, creates one `RDMAServer` or
`RDMAClient` and runs it in a detached thread; the two share only
`thread_alive`.  The thread's `run` owns the connection-manager channel; its
handlers call `build_connection`, which creates the completion queue and the
`poll_cq` thread, and `destroy_connection`, which takes the queue pair away while
`poll_cq` is wherever it is.  `poll_cq` and the connection thread share the
queue pair and the completion queue and no lock.  Server and client interact
through events that rdma_cm delivers and through messages between queue pairs.
Pinned memory and `Link_buf` are called by threads that do not exist yet; the
models put any number of them around their interfaces.

Of the benchmark library the program calls four helpers; the library itself is
made for two processes that run one program with one command line.  Each derives its
parameters, they meet over the exchange channel, agree on what differs between
their hosts, connect their queue pairs (by numbers sent over the channel, or through the
connection manager between two barriers of the channel), run a loop each, exchange
reports, part at a last barrier and destroy what they have.  The only shared state
is what the channel, the manager and the queue pairs carry.

What makes each component correct:

- connection: both sides agree on who is connected; a message or a teardown only
  touches a connection that exists; one side's death ends the other; nobody
  waits for ever; `main` never ends the process under a running connection;
- completion path: no completion is left without a wake-up, every one is
  handled, slots of the send queue come back, the shared queue is not overrun;
- pinned memory: a block belongs to one allocation, an allocation fails only
  when the pool is full, failed allocations leave no trace, installed blocks are
  found;
- Link_buf: a slot is free when a link is stored, the tail never passes an
  unfinished operation and eventually passes every finished one;
- perftest: the sides run with the same parameters; every message is read for
  what it was written for; queue pairs are paired one to one; nothing is sent on a
  queue pair that is not ready or to a peer that has no receives; credits do
  what they are for; neither end of a ping-pong runs ahead; both sides get through;
  what was acquired is released, once, when nothing uses it.

## 2. Modules

| module | models | abstract specification | proofs |
|---|---|---|---|
| `Connection` | connection life cycle and driver, one server and any number of clients | `Session` | `ConnectionProofs` |
| `CqPoller` | completion path of one connection | | `CqPollerProofs` |
| `PinnedMemory` | pinned memory | `BlockPool` | `PinnedMemoryProofs` |
| `LinkBuf` | Link_buf | `LinkOrder` | `LinkBufProofs` |
| `PerfOptions`, `PerfParams` | perftest's parameters, from a command line | | |
| `PerfComm` | perftest's exchange channel and the script of exchanges | | `PerfCommProofs` |
| `PerfCm` | perftest's use of the connection manager | | `PerfCmProofs`, `PerfPairProofs` |
| `PerfSetup` | perftest's verbs resources | | |
| `PerfQueues`, `PerfBandwidth`, `PerfLatency` | perftest's queues and loops | | `PerfLoopProofs` |
| `PerfPeers` | two peers: composes all modules `Perf...` | | all four, `PerfPairProofs` for both sides at once |

The `MC` modules hold the definitions of the finite instances.  Every model names, next to an
operation, a faulty variant or two (`UndoTwice`, `AfterPollFirst`, `RepostsStrict`, ...): what
a plausible slip in that code would be.  They are not part of the
specifications; substituting one for the operation must break the property it is
paired with in `PROJECT.json`, which shows that the property depends on that
code.

### Connection

One process is `Server`, the others are `Clients`.  A process has a main thread
(`mpc`: asleep, spinning, dead) and a connection thread (`pc`), whose labels are
the places where `run` blocks or branches:

| `pc` | place in the code |
|---|---|
| `new`, `setup`, `done`, `ended` | before `set_alive(true)`, the calls before the first event, `run` has returned, after `set_alive(false)` |
| `listen`, `first` | server: waiting for and handling the first event (`rdma_com.cc:169-187`) |
| `resolve`, `addr`, `route` | client: the loops of `rdma_com.cc:285-356` |
| `serve`, `handle` | the event loops (`190-196`, `359-365`): waiting, and inside `on_event` |
| `blocked` | in `rdma_destroy_id` with an unacknowledged event |
| `close` | the loop has been left |
| a member of `Crashes` | how the process died |

`events[p]` is the queue of `cm_channel`; `cur[p]` the copy the loop made, `unacked[p]`
whether the original still awaits `rdma_ack_cm_event` (the event loops acknowledge
before they handle, the server's first event after).  `link[c]` is what the fabric knows
of c's connection: `req` (requested), `rep` (accepted), `up`, `down`, `lost`.

External, and modelled from how the code uses it: rdma_cm turns the server's
reply into ESTABLISHED inside the client's `rdma_get_cm_event` when the client
has a queue pair, and hands it out as CONNECT_RESPONSE when it has none; the
server learns of it by its own ESTABLISHED; requests may be lost or time out;
when a process dies the kernel of its host disconnects, rejects or lets time out
what it had; and the user may kill any process at any time.  `BuildFaults` says
how `build_connection` may go wrong: it returns FAILURE, or a verbs call returns
NULL and the next statement dereferences it.

Choices worth knowing: the calls of `run` before its first event are one step
that succeeds or fails; failures of `rdma_get_cm_event` itself are left out; the
branches of the client's `on_event` for ADDR_RESOLVED and ROUTE_RESOLVED are left
out because a client asks for neither once it is in the event loop; all event
types without a handler are one type, OTHER (CONNECT_ERROR, when the kernel cannot complete the connection, among them).

### CqPoller

Begins when `build_connection` has returned.  `qp` is the queue pair: live, in error, or destroyed.  `pc` walks through `poll_cq`; `After` is the order
of its loop.  `held` counts slots of the send queue (taken by a post,
freed when the entry is polled, as the comment at `env_basic.cc:206-209` says),
`inflight` sends the adapter has not executed, `cq` the entries of either kind,
`armed` and `events` the one-shot notification.  Entries are polled in any
order: nothing in the code depends on it.  `rdma_op` and `post_meta_send_wr` are
one action, since both post one signaled work request.  `Fail` puts the queue pair in
error (a disconnect, a failed request), at any time; from then on everything posted on it is
flushed into the one queue, sends by `Execute` and receives by `FlushRecv`, and further posts are
too.  Only the kind of an entry is kept, since `on_completion` logs an entry in error and one in
success and does nothing else (`env_basic.cc:141`).  An entry that finds the queue full sets
`overrun` and is lost, with the queue pair; `Abort` is the verbs call that may fail then, upon
which `poll_cq` asserts (`env_basic.cc:119-133`).  `DestroyQp` is `destroy_connection` as the
poller sees it.

### PinnedMemory

Offsets are counted in blocks, which the assertions of `mem_mag.cc:37,50,51`
justify.  An allocation is `Reserve` (the `fetch_add`), `Register`, `Lock`, `Install`, `Unlock`,
or `Reserve` and `RollBack` (the `fetch_sub`); a lookup is `TestOffset` and `Lookup`.
The unsynchronised read of the vector is a data race with `Install` on one pointer-sized
slot: it yields the old or the new pointer.  A read beyond the vector yields anything.

### LinkBuf

`Reserve` is external: it hands out consecutive stretches of the order, which is
what the users of the ring owe it (`link_buf.h:59-67`, `94-101`; no code of the
repository uses it).  `HasSpace`, `CheckSlot`, `StoreLink` are `has_space` and `add_link`; `LoadTail`, `ReadLink`,
`Claim`, `Publish` are `advance_tail_until`, called by one thread at a time; with `Stops` its
condition may stop it anywhere.  `Restart` is `clear_links` followed by `set_tail` while
nobody uses the ring.  Positions are not bounded; capacities that are not powers
of two are allowed too, `slot_index` being a remainder.

### PerfOptions and PerfParams

A command line is a sequence of options; `Parser` folds `Option` over the defaults of the
program, applies the flags, decides which side this is, and runs `ForceDependecies`, which
composes the stages of `force_dependecies` in their order.  `Numbers` and `LongNumbers` are the ranges of
the `CHECK_VALUE` macros, after the conversion to the option's type (`Converted`).
`CheckLink` is what the host's device makes of the result.  `return 1` and `exit(1)` set `refused`;
such a test ends before it begins.  `Options` lets each side give the options of the test in
another order (any one swap) and puts into `unlike` what the sides have not alike.
Everything else in the library reads the one variable `opt`, which never changes.

### PerfComm

`Script` is the sequence of exchanges and local steps a program goes through;
`left[s]` is what is left of it, `todo[s]` the reads and writes the current exchange still
asks for.  TCP: `stream[s]` is what waits to be read, a hand-shake being two pieces if the
writer has a gid (its text is longer then); `tcp[s]` says whether the other end is open, has closed, or has reset.  RDMA: one
buffer per side, `buf`, for both directions, one posted receive, and polling;
`RdmaDeliver` is the device.  `own` and `Settled` are what each side makes of both values.

`rdma_write_keys` and `rdma_read_keys` are two functions each, chosen by `HAVE_ENDIAN`, which no file of the
repository defines; `opt.have_endian` says which a test is built with.  With it the hand-shake over a queue pair passes
the keys.  Without it the first copies the bytes at `&my_dest`, its own parameter, and the second copies to
`&rem_dest`: nothing is passed (`Copied`, `Settled`), and `rem` stays as it was (`KeysReach` is false).  The second copy is
also larger than what it overwrites; compiled as the code stands it reaches the parameter and the completion that has been
looked at already, and the program goes on with a `rem_dest` nobody filled, which is what is modelled; other layouts, and a
library that stops at the overflow, are not.  A test that needs what did not come (`KeysMissed`) fails in `ctx_connect`
(`Ends`), or has its requests answered by nobody (`Astray`): on a reliable connection they complete in
error (`SendError`), otherwise they are gone.  With the manager, tests that only send messages need no keys.

### PerfCm

`cmPc` walks through `create_rdma_cm_connection` (`idle`, `allocated`, `synced`, `events`, `ud_wait`, `connected`, ...); `node`, `connIndex`,
`connectsLeft` and `disconnectsLeft` have the names of `cma_master`.  One action per event
handler; `Kernel` ends resolutions in any order and hands over or refuses requests.
Where the code uses freed nodes, a null identifier or a null queue pair, the side goes to `undefined` and is
followed no further.

### PerfSetup

`Base`, `PerQp` and `CmAcquires` list what is acquired, under the conditions as each place of the code writes them
(the shared receive queue is made by `MakesSrq`, of `ctx_init`, attached by `AttachesSrq`, of `ctx_qp_create`, and released by `srq_exists`, of
`force_dependecies`; that the three agree is part of `CleanTeardown`), `Releases` what `destroy_ctx` gives back, in the order
of the code, and `Uses` what a resource needs.  `DestroyCtx` finds out whether a release meets something never
made or released before (`undefined`), something in use (`failed`), or neither (`clean`).

### PerfQueues, PerfBandwidth, PerfLatency

A queue pair executes its requests in order; `Serve` is the device.  `run[s]` holds the counters of the loop with
their names in the code, `at[s]` the place in it.  The conditions that decide when to post, poll, ask for a
completion, put receives back or return a credit are the code's, with counters modulo
`Wrap`.  One action is one pass through an inner loop: posting one list, handling one
completion, one poll.  A poll takes every completion there is, where the code
takes up to a fixed number.

### PerfPeers

Composes the modules: `Next` is the exchange (`Talk`, `Meet`, `Wire`), the manager's handlers (`Cm...`), setup (`Initialize`, `Credit`, `Pair`), the
test (`Ready`, `Begin`, `Work`, `Over`, `Device`, `Interrupt`), and the end (`Disconnects`, `Destroys`, `Ends`, `Crash`).  Each action of a
component that moves the script on is guarded by the script's current item.

## 3. What TLC checks

| run | instance | distinct states | shows |
|---|---|---|---|
| `conn_safety` | 2 clients, 1 retry, all faults | 1 559 838 | `MainOutlivesRun`, `SendOnLiveQp`, `DestroyOnlyBuilt`, `MetaFindsRecv`, `SidesAgree`; implements `Session` |
| `conn_live` | 1 client, 2 retries, all faults | 19 452 | `ServerEnds`, `ClientEnds`, `ClientSettles` |
| `conn_assert` | 2 clients | | finding 4 |
| `conn_route` | 1 client | | finding 5 |
| `cq` | depth 3, 6 sends, 4 messages, a failure of the queue pair at any time | 12 860 | `NoLostWakeup`, `OneWakeup`, `OverrunNeedsSends`, `SendQueueDrains`, `CompletionsHandled` |
| `pinned` | 3 allocators, 1 reader, 2 blocks | 85 142 | `SlotFreeAtInstall`, `RefusedOnlyWhenFull`, `QuietSizeExact`, `InstalledBlockFound`, `AllocReturns`; implements `BlockPool` |
| `pinned_lookup`, `pinned_true`, `pinned_destroy` | 2 allocators, 1 reader, 2 blocks | | findings 1 to 3 |
| `link` | 3 adders, capacity 2, lengths 1 to 3, positions to 7 | 311 547 | `SlotFree`, `NoHoleBelow`, `AddersFinish`, `TailCatchesUp`; implements `LinkOrder` |
| `perf_peers` | 32 tests (below) | 146 614 | `Alike`, `InStep`, `Agreement`, `OneToOne`, `ReadyBeforeTraffic`, `NoReceiveMissing`, `PingPong`, `OrderlyEnd`, `CleanTeardown`, `PeersFinish` |
| `perf_keys` | one test with `-z` | | finding 6 |

Why the bounds are enough to be interesting.  Two clients make the server meet a
second request in every phase of the first; one retry is both the first and the
last, two show a counter that is neither (the live run).  Three allocators on two
blocks give two simultaneous overshoots, or an overshoot beside a reservation that
is still being built, several times over, since allocations repeat without bound.
Six sends and four messages on queues of depth three overrun the shared queue, by traffic
and by a flush, and refill the send queue after it was full.  Seven positions are three and a half laps of a ring of two;
a length of three is longer than the ring itself.  The run does not stop the
tracker early (`Stops` is FALSE), since its liveness would not hold; the theorems cover both values.

`perf_peers` runs 32 command lines (`MCPerfPeers`), each with what a host may add: all loops, RC, UC and UD, TCP and
the manager, one and two queue pairs, events, shared receive queues, lists, credits (an iWARP
device), durations, endless tests, two lines the program refuses, hosts that differ, and three tests
in which any call may fail and either side may die (`faults`).  Five iterations are the fewest the
parser allows (six where lists of two must divide them); they refill queues of depth one to four several times.
Tests whose keys go over a queue pair and are needed are run in both builds: with `HAVE_ENDIAN` (`Portable`), where
they get through, and without it (`T29` to `T32`), where `ctx_connect` may or may not fail and their requests come to nothing.
`MaxQps` is 2, the fewest for which order matters.  `MaxTries` 2 has a try that is not the last.
`MaxSends` 3 bounds what tests without a count send.  `Wrap` 64 is above every difference of counters that
occurs, so that a wrap below zero shows; `CharRange` 4 makes the watched byte wrap within five rounds.
Too large for one run, and left out: both directions at once with two queue pairs, and for a duration.
Not among the tests because the code is undefined there (see the hazards in
`PROJECT.json`): datagrams answered on two queue pairs, `LAT_BY_BW` with a shared queue, credits with a
depth below three.  Its tests with credits have one queue pair and single receives; for
others see the end of section 4.  `-Q 2` with five iterations in both directions, for which the code can poll for ever, is left out of
`PeersFinish`'s tests for that reason.

Deadlock is not checked anywhere: every one of these systems may stop (all
processes dead, all allowed positions handed out, the pool destroyed, all sends
posted and handled, both peers at the end of their script), and waiting for an event that does not come is what `poll_cq` and
the event loops do.  What must not stop is stated as a liveness property instead.

Fairness.  `Connection`: weak fairness of each thread of each process, since both are
runnable threads of the operating system; none of users, faults or timeouts,
and rdma_cm's answers to address and route questions are part of the step that
asks.  `CqPoller`: the poller thread is scheduled and the adapter completes posted
sends, in success or by flushing them; the flush of receives has none.  `PinnedMemory`: a thread inside a call goes on; nobody must start one.  `LinkBuf`: a thread
inside an operation goes on and the tracker keeps being called.  `PerfPeers`: each
program is a process that runs on; kernels and devices go on while anything is
left for them to do; a timer that was set goes off.  Faults have no fairness.  Nothing
needs strong fairness: a mutex or a slot once free for a thread is, in the
instances, never taken away for ever.

## 4. What the code does not do

Six runs end in a violation on purpose; each states what a comment, a message
or an assertion of the repository says.

1. `LookupWithinMemory`: `next_offset` is "also the mem size" (`mem_mag.h:69`), yet it exceeds it
   while an overshoot is pending, and `get_mr` has no bound of its own.
2. `TrueMeansBlock`: `allocate_pinned_memory` promises to "allocate and make mr for a memory
   block" (`mem_mag.cc:33`) and returns true when it did neither: in the trace `aligned_alloc` has failed and a
   block without memory is installed.  (A call refused by a full pool returns true by the same line.)
3. `DestructorSafe`: unallocated slots are null (`mem_mag.cc:21`), and the destructor
   dereferences them.
4. `CmIdAssertHolds`: `assert(conn_ctx.cm_id == id)` (`env_basic.cc:270`) fails for a second client's
   request, which `on_event` is written to handle.
5. `RouteErrorAborts`: route errors are counted towards "aborting" (`rdma_com.cc:327`), but
   the route is never asked for again, so the client waits for ever.
6. `HandShakeFills`: `ctx_hand_shake` "fills in rem_dest the remote machine data" (`lib/perf/perftest_communication.h:212`); over a
   queue pair, in the library as the repository builds it, both sides are past it and know nothing of each other (section 2, PerfComm).

Two more came up while the credits were proved about (section 5); each is seen by putting the named tests of `MCPerfPeers` for
`Tests` in `PerfPeers.cfg`, upon which `NoReceiveMissing` fails.  Credits are there so that `ib_send_bw` works with
iWARP (`perftest_resources.h:526`), where a message without a receive ends the connection.  With receives
posted in lists (`ListTests`: `--recv_post_list 3 -r 6`) a receive is credited when it is used and posted again only with the
rest of its list, so the window covers receives that are not there.  With two connections (`CrossedTests`) credits are
addressed by the index of the queue pair, while connections are paired in the order in which
requests reach the server; where the two sides number them differently, what one queue pair has received is credited to the other.

## 5. What is proved

All theorems hold for every value of the constants that satisfies the modules'
assumptions, which ask for a finite set of threads where something is counted,
positive capacities, and that `None`, `Null` and `Nobody` are not confused with real values.

**PinnedMemory.**  The invariant `IInv` says: while nobody overshoots, `next_offset` is below or
at the limit; beyond it, the excess is exactly the number of threads about to
roll back (`OffsetInv`); the blocks below `next_offset` are exactly those installed or being
built (`ClaimInv`); threads that build have different, empty slots (`BuildInv`); the mutex
excludes (`MutexInv`); what a reader was owed stays owed (`ReaderInv`).  None of the checked
properties is inductive alone: that two reservations differ needs the count of
pending roll-backs.  From it follow `SlotFree`, `NoSpuriousRefusal`, `QuietSize`, `LookupFinds`, and that every
step is a step of `BlockPool` or a stutter (`PoolRefinement`).

**CqPoller.**  `IInv` says that between retrieving an event and re-arming there is neither arm
nor event, and otherwise exactly one of them (`SignalInv`); that an armed queue under a
waiting poller is empty (`WaitInv`); and that the entries of sends, with the sends not completed, are covered by the
slots in use, and those of receives by the receives that are no longer posted (`SlotInv`).  It gives `WakeupKept`, `WakeupSingle` and
`OverrunTakesSends`: since receives are posted once, as many as the queue is deep, messages and the flush of receives alone
never overrun it, and it takes more sends in their slots than receives are left.

**LinkBuf.**  `IInv` says that unfinished operations are disjoint stretches past the tracker
(`StretchInv`), that one past the space test lies within one lap of the published tail
(`SpaceInv`), that the slots the tracker has passed stay empty until it publishes
(`PassedInv`), and that a link overlaps neither another link nor an unfinished
operation (`LinkInv`).  The arithmetic of the ring is in two lemmas: within one lap slots
differ (`WindowInjective`), and every position shares its slot with one of the lap (`WindowCovers`).
It gives `SlotAlwaysFree`, `NothingSkipped` and that every step is a step of `LinkOrder`
or a stutter (`OrderRefinement`).

**Connection.**  None of its properties is inductive alone, because what a handler may rely on
was settled when its event was posted, in another process and many steps earlier.
`IInv` therefore says what an event means wherever it is, queued or in hand
(`EventInv`, by `Sound`): a client is only told about its own connection; CONNECT_RESPONSE goes only to the
client `conn_ctx.cm_id` names; the server's ESTABLISHED and every DISCONNECTED tell of a
connection that has been open.  Around it: a client that still dials has no
connection, one that has been accepted is the one `cm_id` names, and while a connection
stands its client has a queue pair (`LinkInv`); the server names its client
exactly when it handles its first event and keeps a live queue pair in its event
loop (`ServerInv`); a handler has an event in hand (`HandlerInv`); a thread inside `run` has set
`thread_alive` (`DriverInv`); a client that waits has retries left (`RetryInv`).  One lemma per
action shows that it is kept; `LinkStep` and `SoundStep` carry what events say over a step.
It gives `SendsOnLive`, `DestroysOnlyBuilt`, `Agreement`, `SessionRefinement` and `MainOutlives`,
which speaks of the time from the thread's first step on: before it the code does not keep `main` (`thread_alive` is not
initialised, and nothing waits for the thread but a sleep), and neither does the model.
`MetaFindsItsRecv` needs to know why a queue pair never sees a second meta message.  `MetaInv`, inductive
relative to `IInv`, counts the cause instead of the messages: the event on which the peer of a
queue pair writes is told at most once and only before that side is connected, so what is
written was written in the one connection that stands, and a live queue pair with a message on its
way still has the receives it was built with.

**What the theorems about perftest assume.**  `TestsAssumption` takes the tests from `Parameters`, the types and
enumerations of the fields, and adds two rules of the parser for the lines it does not
refuse: only bandwidth tests have several queue pairs, and `LAT_BY_BW` does not go through the manager.
`PerfParams` derives the options of the run's tests from their command lines, and TLC evaluates the assumption on
them.  `recv_post_list` is positive there although the parser accepts 0, because the loops divide
by it.  Wrapped counters and bytes have any positive modulus, bytes at least two
(`WrapAssumption`, `CharAssumption`).

**PerfComm, inside PerfPeers.**  `PerfCommProofs` is about every action of the composition, for
any set of tests and any number of queue pairs (`OptionsAssumption`: at least one, and `None` is no
number), over TCP and over a queue pair, with gids alike or not, and with faults.
A message carries nothing that says what it is for, so `InStep` needs to know what is on
its way at every moment.  `IInv` says where each side is: `left[s]` is an end of the script,
and `todo[s]` is an end of the reads and writes of its first item (`LeftInv`, `TodoInv`); it
takes from the script only that it has each field once, in order, and nothing
exchanged after the close (`ScriptOK`).  `LockInv` is the heart: counting an exchange as over once its
last read or write is done, the two are level, or the client has asked and the
server has not answered yet, or the server is ahead by its answer (`Lock`); so at most one
question or one answer is on its way.  Whatever is there was written for the exchange in which it will be
read (`Brings`), otherwise the way is empty (`Quiet`).  A write into the peer's buffer
counts as said when the device has delivered it, before its completion is polled, which is the
window in which the one buffer of a side could be written and read at once (`SentInv`); a
hand-shake of two pieces whose reader expects one ends the exchange for the reader,
and the stale piece stops it (`Stuck`).  `GotInv` says that what was just read is the peer's value,
`OwnInv` that a side has its host's value up to the exchange of a field and the settlement of both hosts'
values after it; from them follow `InStepAlways` and `AgreementKept`.

**The manager, inside PerfPeers** (`PerfCmProofs`).  What a handler may rely on was settled on the other side
when the event was posted.  `CmInv` says what each event means while it waits (`LinkInv`), that nothing that
happens once to an identifier is told twice (`Unique`), and how the tables of the two sides stand: the
client's queue pairs belong to the identifiers that have gone on to a request, in a row, the server's to
those it has met, none twice, as many as the counters say (`ClientTable`, `ServerTable`, `ServerCount`).  It is inductive alone
and needs nothing of the exchange channel.  For datagrams a connection only tells whom to
send to; `UdInv`, inductive beside it, says that what the client has counted is what it has reached, as
long as no server has gone (`ClientCount`), that no two nodes have reached the same queue pair, and
that no datagram on its way names one the server has heard of (`ClientReach`, `ServerReach`, `Datagrams`).

**The pairing, inside PerfPeers** (`PerfPairProofs`).  `OneToOne` relates the two sides at different places of
the script, so it takes the channel and the manager together.  `KeysInv` says that where keys arrive, every one on
its way or just read is that of the queue pair its exchange is for, and what a side remembers
of a queue pair it is past is its number: a consequence of `IInv`, for messages carry no
name.  In the build without `HAVE_ENDIAN` it says that a side that used a queue pair for the exchange remembers nothing, and
`OneToOne` is about the pairs that connections or datagrams make.  With the manager, the barriers on both sides of `cm` are what makes the tables complete
when they are used: who is past an exchange has a peer that has come to it (`Barrier`, from
`LockInv`), so once a client is past the second barrier the server has met all its
connections (`TablesInv`).  `MateInv` says what partner each queue pair then has.  `IInv`, `CmInv`,
`UdInv`, `KeysInv` and `PairInv` together are inductive, and `OneToOneAlways` follows:
by pigeonhole where the tables only say that every queue pair is named.

`ReadyBeforeTraffic` is about a request of one side and the queues of the other, in the same module.  `ReadyInv` ties the loops to the
script: a side has prepared its queues exactly when its place says so and is in its loop only past
the last barrier; its queue pairs are ready once the manager or the exchanged keys have connected them,
to send where it may send, and a side that may not has nothing queued (`StageInv`, `MaySend`).  With `Barrier` at the last
hand-shake the peer has prepared its queues too, hence `ReadyBeforeTrafficAlways`; it needs `LoopInv` for the queues and `RefusedInv`
(a refused command line runs no loop, `PerfLoopProofs`).  Of the state of a queue pair in bursts the property asks nothing.
`TypesStand` is the type invariant of the composition, from the same invariants; the partner of a queue
pair is typed only because the keys are right.

**The loops, inside PerfPeers** (`PerfLoopProofs`).  `LoopInv` types every queue, counter and word and says that a side is
in the loop its options ask for, at a place its side of the loop has (`LoopsKeepTheirPlaces`, the lemma the others stand on); it is
inductive alone.  `PongInv`, inductive beside it, is the bookkeeping of a ping-pong: at each
place of the loop who is ahead and by how much, that a message heard, waiting or queued was
said, and for written words that at most one is under way and the peer's memory holds all but
it, modulo the range of a byte (`PongAccounts`).  Two bytes suffice because of that.  Where the key of the peer's memory never came, no word is
under way and its memory holds none.  `PingPongHolds` follows, for every number of
iterations, every depth and both builds.

**The credits, inside PerfPeers.**  That a message always finds a receive (`CreditsSuffice`) rests on `FlowInv`, one account
per direction.  `Window`: what the sender has counted as sent is at least what waits in its queue, lies used at the receiver, or
was counted there; what it has been told is a count the receiver once had; and it is less
than `rx_depth` ahead of what it has been told, because it looks before each list.  `Stock`: a receiver that has prepared its queues has
`rx_depth` receives posted or used and not yet polled, or as many as the test still asks for.  The two meet in the
definition of `rx_depth`, and no step of either side alone shows it.  `Credited` names the tests it holds for, and
the end of section 4 is what happens outside it: with lists of receives the stock is lower than the
credits say, with several managed connections the credits go to another one's word.  That the
iterations are whole lists is a rule of the parser, and the counters must not wrap within a window: `Wrap` is 2^64 in
the code.  The steps of the loop are proved over `FlowInv` and the types alone (`PerfLoopProofs`); that the sender's partner
is the peer's only queue pair, and that the peer has prepared it, comes from the pairing (`MatedThen`, `ReadyThen`), so the theorem is
in `PerfPairProofs`.

**The end, inside PerfPeers.**  That no side ends in error without faults (`OrderlyEnd`) says that four things never happen: a
read that finds its peer gone, or a text that was not asked for; a write to a socket that is closed; a handler of the manager that
fails; a loop that does.  `OrderInv`, inductive beside `IInv`, `CmInv`, `UdInv`, `LoopInv` and `RefusedInv`, has a part for
each.  `StreamInv`: in the stream of a side waits one whole text, for an exchange it has still to read, or none, and behind it at
most the goodbye of a peer that has closed.  `IInv` already says which exchange a text is for, but not that all its
pieces are there, which holds only where both sides have a gid or neither has (`SameGids`).  `EndsInv`: who closes the
channel is at the end of the script.  The last exchange leaves nothing unread before the first of the two closes; the second closes
with the goodbye of the first unread, and resets a socket nobody uses any more.
Over a queue pair nothing is closed: there it says that no write completes in error, because its reader is still there (`DeliversTo`).
`HandlersInv`: the client hears of no failure while it connects, it has a queue pair for each of its requests, and beyond the
connections a side is out of the handlers.  A side is torn out of its loop only when the peer has failed (`Alive`), and with
`EndsInv` none has once the script is past its first exchange.  All this holds as long as
no request was turned away (`Turned`) and no key is needed that the build does not pass (`KeysMissed`): a refusal is for good (`TurnedStays`), and after it the client's handler fails.
The theorem, `OrderlyAlways`, asks that a test whose datagrams are answered has one queue pair, for the reason given under the
established handler in `PROJECT.json`.

Only model-checked, and why:

- all liveness properties: the prover has no rules for fairness here;
- `Alike` and `CleanTeardown`: they depend on what folds over a command line and over a list of
  releases compute, which is induction over data;
- `OrderlyEnd` where datagrams are answered on several queue pairs, which no test of the run does: there `EstablishedHandler`
  can look up a queue pair that does not exist, and nothing is promised;
- `NoReceiveMissing` outside `Credited`: it fails for lists of receives and for several connections (section 4),
  and in ping-pongs over iWARP, whose loops use no credits, it would follow from how `PongInv` counts.

## 6. What is not modelled

- the program's own option parsing and device check (`EnvironmentProc`) and the message
  encoding: sequential code that runs once, or is not called.  `RdmaMessage` adds 12 to its length in 32 bits
  (`src/include/rdma_com.h:28`), which nobody sends yet;
- `Link_buf`'s moves and its `validate_no_links` (a macro it uses is not defined in the repository);
- a peer that vanishes without its host telling: nothing in the code reacts to it;
- use of `conn_ctx.cm_id` by `stop` after the connection thread has freed it: no code calls `stop`;
- contents of messages, memory access by RDMA reads and writes, and leaks;
- `src/main.cc` and the `FunctionImpl` stub;
- of `lib/perf`: transports the build does not enable (XRC, DC, SRD), encryption, GPU
  memory and memory files; the flow-steering loop `run_iter_fs` and its server; the warm-up; pacing by the
  clock, which only delays; byte layouts (raw Ethernet headers, flow rules, multicast datagrams); exchanges with older versions; receive
  completions in error; a datagram size given larger than the mtu both sides settle on, for which `check_mtu` fails after the exchange
  (`perftest_communication.c:1829-1839`); a text of the socket that arrives in two pieces; waiting for completion events in the loops, which poll here; clocks, statistics and printing.

## 7. Plan

Done, in this order because the first two carry the program and the others are where
threads meet without locks: `Connection` with `Session`; `CqPoller`; `PinnedMemory` with `BlockPool`; `LinkBuf` with `LinkOrder`; their
type invariants and the safety theorems of section 5; then perftest, from its parameters to its
loops, as one composition of two peers.

Left:

1. Perftest: completion events in the loops.
2. A module that composes `Connection`'s teardown with `CqPoller`: `destroy_connection` and a second `build_connection` under a running poller.
3. Modules for the message encoding (modulo 2^8, 2^32 and 2^64) and for the program's own options.
