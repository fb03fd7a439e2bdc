# DTN-Hardware: TLA+ models, checks and proofs

This directory is a verification project for the DTN node software in `src/`:
a delay-tolerant store-and-forward node in C that runs on a Raspberry Pi
(`main_pi.c`) and on an ESP32-S3 (`main_esp32.c`) and talks over LoRa radio.
The modules model the C code as it is written; TLC checks them on small
instances, TLAPS proves the listed theorems for every value of the constants.

## 1. Inventory of the system

| Part | State it keeps | Operations | Interacts with |
|---|---|---|---|
| Bundle (`bundle.c`) | none | age, remaining lifetime, scheduling key, serialize, deserialize | used by everything |
| Contact plan (`contact.c`) | up to 64 contacts, each with bytes used and reserved | predicates, capacity, timing of a hop, lookups, consume, JSON loader | routing reads it, the forwarding engine charges it |
| Bundle queue (`queue.c`) | up to 16 slots, a byte budget | enqueue with preemption, pop the highest rank, dequeue, get | owned by a node |
| Custody manager (`custody.c`) | up to 32 records | can_accept, transfer, release, is_timed_out, get | owned by a node; walked by `node_tick` |
| Contact graph routing (`cgr.c`) | none between calls; stack, frontiers and beam in a call | `cgr_select_route` | plan and bundle in, route out |
| Forwarding engine (`forwarding.c`) | `node_state_t`: the above, `time_offset`, the static bundle counter | generate, receive, tick, time-sync send and handle | called by both applications, calls the radio |
| Contact plan loader (`contact.c`) | none | `contact_plan_load_json`: searches a file for keys | called when a node boots |
| Pi application (`main_pi.c`) | `next_time_sync`, `t`, `g_running`, line buffer | load the plan, then one event loop: 100 ms tick, broadcast, CLI, radio edge; signals | serialises all calls |
| ESP32 application (`main_esp32.c`) | none of its own | two tasks: receive and tick | share `node_state_t` without a lock |
| Radio drivers (`lora_pi.c`, `lora_esp32.c`) | the chip's mode, flags and FIFO; three descriptors, or a semaphore | init, send and wait for TX_DONE, receive, close | vtable of `lora_transport.h` |
| Disruption model (`disruption.c`) | failure episode and backoff per link | is_down, backoff | called by nothing |
| Trace, identifiers, dashboard, build | sinks and text | - | observers only |

What is hard here: every tick takes a bundle out of the queue before it knows
whether it can be sent; arrays are reduced by swap-removes while they are
walked; the radio is a broadcast medium, so a node hears its own bundles again;
nothing survives a restart; the clock is moved by sync frames in either
direction; the route search has three prunings, a bounded table and a bounded
beam; the radio has one interrupt for two events, and on the ESP32 two tasks
wait for it and share the queue without a lock. `PROJECT.json` lists each hazard at its line with the properties aimed at
it.

What makes each part correct:

- queue: bytes within budget; a bundle leaves only by a pop, a removal or one
  eviction in favour of a higher class; ranks never invert by two classes;
- custody: one record per bundle; the timeout sweep misses none and ends;
- routing: what is returned can be travelled in time; nothing that arrival and
  confidence tell apart is lost; the search ends;
- forwarding: custody, queue, plan and trace agree whatever is interleaved; no
  queued bundle is lost silently; sends stay in windows and capacities;
- time sync: the node follows the ground station's clock;
- drivers: a frame reported sent was sent; an interrupt raised is acknowledged,
  once; a call returns; the radio listens when somebody waits for a frame;
- applications: the loop turns, frames and input reach who asked for them, the
  queue holds what was put in;
- loader: the plan in memory is the plan in the file, as far as it fits;
- the network: what comes out was put in, for the node it comes out at, and
  nothing travels for ever.

## 2. Modules and the code they model

| Module | Models | How |
|---|---|---|
| `Bundle` | `bundle.c` | records and pure operators; the scheduling key as an exact rational |
| `Contact` | `contact.c` without the loader | records and pure operators |
| `Loader` | `contact_plan_load_json` | a file is the sequence of its keys and the bytes at which their values end; what the searches find in the part that fits into the buffer |
| `Queue` | `queue.c` | operators on the sequence of slots; an operation is the set of its outcomes |
| `NodeQueue`, `BundleStore` | the queue as an object, and the bag of bundles it promises to be | `Store == INSTANCE BundleStore WITH stored <- ToBag(slots)` |
| `Custody`, `CustodyTable`, `CustodyManager` | `custody.c` on the set of records, the table it promises, and the array with the sweep of `node_tick` | `Table == INSTANCE CustodyTable WITH held <- ToSet(records), sweeping <- Sweeping` |
| `Routes`, `Cgr` | one hop, a whole route, and the search of `cgr.c` one loop iteration per step | the arguments of the call are chosen in the initial state |
| `Forwarding` | `forwarding.c`, driven by one event loop | composes `Queue`, `Custody` and `Routes`; one action per entry point, each the whole handler |
| `Network`, `DeliveryService` | three nodes on a broadcast medium, and what they promise together | three instances of `ForwardingProofs`, which is `Forwarding` with what is proved about it; `DS == INSTANCE DeliveryService WITH Nodes <- 1 .. 3` |
| `TimeSync` | the ground station's broadcast and a node's handler | two clocks, frames in the air |
| `Sx1276` | the radio chip, external, as both drivers use it | a record of mode, flags and FIFO; commands, and what the chip does of its own |
| `PiNode` | `main_pi.c` over `lora_pi.c` | one thread, cut where the chip, the clock or a signal may come between; extends `Loader` and `Sx1276` |
| `EspNode` | the two tasks of `main_esp32.c` over `lora_esp32.c` and `queue.c` | one program counter per task, one step per access another task can see |
| `MC*` | - | the instances |
| `*Proofs` | - | the theorems |

### State and actions of Forwarding

`slots`, `custody`, `plan`, `offset` and `counter` are the fields of the same
name of `node_state_t` and the static counter; `clock` is the platform's
monotonic clock since boot, and `Now == clock + offset` is the time both
applications pass to every call. `trace` holds the records the last handler
gave the tracer, `aired` the bundles that have been on the air (history).

| Action | Code |
|---|---|
| `Generate` | `node_generate_bundle`, called by the CLI |
| `Receive` | `node_try_recv` and `node_handle_received_frame`, with whole and garbled frames, bundles of neighbours and echoes of its own |
| `HandleTimeSync` | `node_try_handle_time_sync` |
| `Tick` | `node_tick`: all due custody timeouts, then `try_send_one` with its outcomes `TickIdle`, `Expire`, `Hold`, `Transmit`, `TransmitFails` |
| `Elapse` | the platform clock |
| `Restart` | `node_state_init` after a power cycle |

`Custody` works on the set of records; that the array of the code has this
meaning is what `TableImplemented` and the theorems of `CustodyManagerProofs`
are about, so `Forwarding` takes the sweep as one set difference (`Kept`).

`FirstHops` takes any first hop of a loop-free feasible route as the answer of
`cgr_select_route`: by `RouteSound` the answer is a route that can be travelled,
and a route that passes a node twice can be cut short without changing its
first hop; by `ParetoCovered` the call answers -1 only if there is none. The
plans on which the search does not return (section 5) are left to `Cgr`.

### Network

Each node is `Forwarding` with its own queue, custody table, plan and
transmissions. `Frames(n)` are the frames node `n` may hear: those of the nodes
in range, whole or garbled, and since nothing is ever taken out of `aired`, soon
or late, more than once or never. A failed send may have put its frame on the
air. Node 1 may restart, and then issues identifiers again that older bundles
still travel under. `submitted` and `delivered` record the service's two events.

### The drivers and the applications above them

`Sx1276` says what both drivers take for granted: the line DIO0 is high while a
flag is set, and the interrupt is its rising edge. (`lora_transport.h:53-55`
says so of TX_DONE and RX_DONE; neither driver writes the register that maps
DIO0, see section 5.)

`PiNode` has one program counter, `pc`, for the loop of `main` and the calls in
it. `radio` is what `pi_init` found: edge events, no edge events (`polling`), or
no SPI device. `DioFd` is the descriptor `lora_get_irq_fd` returns, and `edges`
the events the kernel has queued on it. `PiSend` and `PiRecv` are cut where the
chip, the clock or a signal may come between two register accesses; accesses
that nothing can come between in a way the chip shows are one step. `outcome`
counts what was sent, arrived and was reported (history). The contents of a
tick are left to `Forwarding`: a tick sends a bundle or none. So is the search
for its route, which on some plans does not return (section 5): `LoopTurns`
speaks of turns whose search does.

`EspNode` has a program counter per task. `Send` is `esp_send` in the tick,
`Recv` is `esp_recv` in the receive task, both on `chip` and the semaphore
`sem`. `Pop` and `Enqueue` cut `queue_pop_next` and `queue_enqueue` into loads
and stores: the count may be loaded again where the compiler may do so, and the
stores of `slots[count++] = *b` come in either order. `torn` marks a task whose
accesses to the FIFO the other one has come between; it may then hold `Mixed`.
`kept`, `overlapped` and `overrun` are history. After an append behind the array
the behaviour of the program is undefined, and the model stops.

### Abstractions

- Times are integers and sizes bytes. Rates divide the sizes in every instance,
  so transmission times are exact; the proofs do not use that.
- `conf` is the additive `loss` = -log(conf); `ber` is the largest size it lets
  through; capacity margin and delay enter the cost with the code's weights.
- Equal ranks are decided either way: the code keeps the earlier slot unless
  the floats differ by rounding, so `BestSlots` allows every slot of the
  highest exact rank.
- `prio` equals the class, as its only producer sets it; payload bytes, status,
  retries and the `t_*` fields are never read and are left out, as are the
  statistics counters.
- `contact.h:19` calls `rate` bits per second, while `contact_capacity` and
  `contact_tx_duration` use it with sizes in bytes; the modules follow the code.
- After the loader every contact is UP, so the status tests are kept in the
  operators and the instances have no other status.
- A bundle is queued again at the end of its slots or of a changed order: order
  never matters but through `Victims` and `BestSlots`.
- `Loader` sees keys and values, not characters. A key's name that stands
  inside a string value is left out; the braces play no part in the code. Where
  the characters lie matters once: the buffer takes 8191 bytes (`contact.c:151-152`).
  `Buffers` keeps the entries whose values end within them, and of the next one
  nothing, its key, or a value that `Torn` chooses, read as it was or misread.
- In `Network` the second and third node share one clock and there are no sync
  frames; clocks that differ and move are the subject of `Forwarding` and
  `TimeSync`.
- `TimeSync`: the handler is given a time up to `MaxAge` old. On the Pi it is
  read at the poll, before the tick whose send may block (`main_pi.c:233`); on
  the ESP32 the age is zero.
- `PiNode`: time passes in the poll and in `pi_send` and nowhere else; a tick
  sends at most one bundle, as `node_tick` does; the text of the commands is
  reduced to whether one is read and whether it ends the loop.
- `EspNode`: which slot ranks highest and what the handler decides about a
  bundle are left open; the accesses to the custody table are not cut up; the
  buffer of 4096 bytes holds sixteen of the largest frames, so preemption never
  comes into play there.

Operators preceded by a `fault:` comment are variants of the operator after
them with a plausible bug. No definition uses them: with one put in the place
of its original, the property named for it in `PROJECT.json` fails, which shows
that the property depends on that line of code.

## 3. Runs

| Run | Instance | Shows |
|---|---|---|
| `queue` | 4 slots, 225 bytes, 5 bundles of all classes, 2 ticks of time | every outcome of `queue_enqueue` (fits, slots full, no pressure, no victim, preempted, evicted and rejected); byte budget, refinement of the bag, no deep inversion |
| `custody` | 3 records, 4 bundles (one with two custodians), timeout 2, time 0..4 | refinement of the table; the sweep misses none, and ends |
| `cgr` | all 1024 subsets of 10 contacts with a short and a long bundle; 220 chains with a limit of 2 hops; 7 to 9 windows into one node; beam of 2 | route soundness, coverage, best of found, no endless search |
| `forwarding` | node 2, two incoming bundles that share an identifier, one generated command, an echoing relay, 2 slots, 1 custody record, sync frames that move the clock, two boots | all safety and step properties of the engine together, for the bytes charged (a failed send whose frame went out is charged to no contact); the custody table and the slots both overflow, and trace and custody still account for each other |
| `network` | a chain of three nodes, a message to the middle or the far end, a restart of the source that issues the same identifier again | what is delivered was submitted for that node, and the network comes to rest: no bundle and no custody record stays |
| `timesync` | period 5, delay up to 2, local time up to 1 old, boots 0, 1 or 7 apart, time to 32 | odd syncs align, even ones take it back |
| `pi_node` | a ground station, all three kinds of radio, two bundles and the broadcasts between them, one arriving frame, one command, signals; plans of 0, 2 and 65 contacts with seven tails, and files of 65 contacts that the buffer cuts in contact 64, 61 and 49 | what the loop may rely on in the driver; what is loaded from whole, malformed and overlong files; every turn of the loop ends |
| `esp_node` | two bundles, two slots, three arriving frames | the interrupt has one owner and is acknowledged, both calls return, the queue is sound as long as the tasks do not overlap in it |

Why the bounds are enough: in each instance every branch of the code's
conditions is taken, every limit (slots, bytes, records, frontier, beam, hops,
contacts) is reached and exceeded by the next request, deadlines are met, passed
and jumped over, and two bundles are enough for each pair of steps to touch
different or the same record. In `pi_node` the second send meets the flag or the
edge the first left behind, and a frame arrives in the receive that a late edge
causes; in `esp_node` the first three frames let an interrupt be taken by either
task while the other is at any of its places, and two slots are filled and
refused. `MaxTime`, `MaxClock`, `MaxIssued`, `LastIssue`, `MaxBoots`,
`LastRestart`, `MaxOffset`, `MaxSends`, `MaxHeard`, `MaxInput` and `MaxRx` only
end the runs; the proofs have none of them as a hypothesis. `NoDeepInversion`
depends on the number of classes only.

Deadlock is checked where the system does not stop. The other configurations
say `CHECK_DEADLOCK FALSE`: `cgr` ends when the call returns, `timesync` when
its time is over, `pi_node` when the loop is left, the file cannot be loaded or
the time is over, `esp_node` where the behaviour becomes undefined, or with both
tasks idle after the last frame.

The other four runs end in a violation; section 5 lists them.

### Fairness

- `Cgr!FairSpec`: weak fairness of the step. It is a running loop.
- `CustodyManager!FairSpec`: weak fairness of `Sweep`, for the same reason;
  not of clients, time or the start of a sweep.
- `Network!FairSpec`: weak fairness of each node's tick (a periodic timer of
  100 ms in `main_pi.c:198-201`, a periodic task in `main_esp32.c:90-101`) and
  of `Elapse` (the platform clock). None of receptions, sends that succeed, or
  generation: `ComesToRest` holds although the radio may fail for ever, because
  a tick discards what has expired and removes overdue custody, and no echo
  brings an expired bundle back. It does not say that a bundle which can be
  sent is sent: one behind a bundle without a route may not be (section 5).
- `PiNode!FairSpec`: weak fairness of the thread and of the clock while it
  waits. None of the chip, the user or signals.
- `EspNode!FairSpec`: weak fairness of each of the two tasks, which have a core
  each and waits that end (`xSemaphoreTake` has a timeout in both drivers'
  calls). None of the chip: a TX_DONE may never come.

## 4. Proofs

| Theorem | Statement |
|---|---|
| `NodeQueueProofs!TypeCorrect`, `BufferNeverOverrun` | `Spec => []TypeOK`, `[]LoadWithinCap` |
| `NodeQueueProofs!QueueIsStore`, `ServiceOrder` | `Spec => StoreImplemented`, `NoDeepInversion` |
| `CustodyManagerProofs!TypeCorrect`, `RecordsUnique`, `SweepMissesNone` | `Spec => []TypeOK`, `[]UniqueIds`, `[]SweptBehind` |
| `CustodyManagerProofs!ArrayIsTable` | `Spec => TableImplemented` |
| `ForwardingProofs!TypeCorrect`, `CustodyAlwaysSound`, `NeverOverbooked`, `QueueAlwaysRoutable` | `Spec => []TypeOK`, `[]CustodySound`, `[]NotOverbooked`, `[]QueueRoutable` |
| `ForwardingProofs!NothingLost`, `CustodyTraced`, `SentInWindow` | `Spec => OnlySendsAndExpiriesLeave`, `TraceAccountsForCustody`, `SendsInWindow` |
| `CgrProofs!TypeCorrect`, `RoutesTravelled`, `CheapestReturned`, `PrunedSafely` | `Spec => []TypeOK`, `[]RouteSound`, `[]BestOfFound`, `[]ParetoCovered` |
| `NetworkProofs!WhatIsDeliveredWasSubmitted` | `Spec => EndToEnd` |
| `TimeSyncProofs!TypeCorrect`, `SyncsAlternate`, `EverySecondUndoes` | `Spec => []TypeOK`, `[](OddSyncsAlign /\ EvenSyncsUndo)`, `[]EvenSyncsUndo` |
| `EspNodeProofs!TypeCorrect`, `InterruptOwned`, `OnlyOverlapHarms` | `Spec => []TypeOK`, `[]OneOwner`, `[]SoundWithoutOverlap` |
| `PiNodeProofs!TypeCorrect` | `Spec => []TypeOK` |
| `PiNodeProofs!RadioStandsBy`, `NothingHeardFirst`, `ReportsBounded`, `InputKept`, `StampsAge` | `Spec => []StandbyBetweenCalls`, `[]DeafUntilSending`, `[]ReportsNoMoreThanSent`, `[]InputLostOnlyWithoutRadio`, `[]StampAge` |
| `PiNodeProofs!PlanLoaded` | `Spec => []LoadedAsWritten` |

They assume only the named `ASSUME`s: positive table and slot sizes, timeouts
and periods, naturals where the code has unsigned or non-negative values,
bundles with the fields the code reads, a plan that is loaded with no bytes
used, at most ten hops, and a frontier table of fewer than nine entries (the
code has eight; see *Routing*). For the loader, a file (`TextsAssumption`) is a
plan of contacts as the loader makes them (up, nothing used or reserved) followed
by any sequence of keys with values of any kind, with any bytes for the values to
end at, and `Misread` is any set of integers (`MisreadAssumption`). `Network` assumes of its constants what
`Forwarding` asks of the ones it is given. There is no assumption on how many
bundles, contacts, frames, commands or neighbours there are.

*Queue.* The first half of `NodeQueueProofs` says what the slot operations
return, whatever the slots are, in three terms: the shape of the sequence (`SwapRemoveShape`, `EnqueueShape`,
`PopShape`), the copies of a bundle, and the bytes. `Load` and `Copies` are sums
over the slots, so their lemmas are inductions: over the length, by the least
counterexample (`LeastNumber`), and over finite sets (`SetInduction`); the
library's induction theorems cannot be cited for that, but the cases they would
be used in can be proved one by one. `LoadWithinCap` then follows step by step.
For `QueueIsStore` the bytes of a bag are a set (`BundleStore!BytesOf`): adding
or taking a copy adds or takes a disjoint piece of it, and its cardinality is the
load of any slots that hold the bag. Every outcome of `queue_enqueue` is then
`Put`, `Displace` or a stutter. `NoDeepInversion` is arithmetic: the highest key
is at least that of every other slot, urgency is below 1 and the custody bonus
below what separates two classes. `ForwardingProofs` takes the lemmas of the first
half by an instance (`Q`), once `SameQueue` has said that the operations are the
same.

*Custody manager.* `UniqueIds` and `SweptBehind` need each other: the release in
the sweep scans from the front for the identifier of record `i`, and only
because identifiers are unique does it hit record `i` and leave the walked
prefix alone. `ArrayIsTable` needs both: the set of records loses exactly one
element in a release (`HeldAfterRelease`) because no two records are of one
bundle, its size is the length of the array (`HeldCardinality`), so that the
array is full when the table is, and the sweep's end finds nothing overdue
(`NoneLeft`).

*Forwarding.* The inductive invariant is
`IInv == TypeOK /\ CustodySound /\ NotOverbooked /\ QueueRoutable`. The parts
need each other: a requeued bundle keeps its declared size only because the
queue holds routable bundles; the byte charge of `Transmit` stays below the
capacity because `plan` differs from the loaded one in its accounting only
(`TypeOK`) and nothing is reserved. Each handler has a lemma, and `Inductive`
puts them together with one step per disjunct of `Next`. The capacity bound
rests on `TimesMonotone` and `FeasibleFits`: a feasible bundle fits into
`rate * (t_end - t) - bytes_used`, and `t_start <= t` since the contact is open,
so the sum fits into the whole window wherever the clock is put next.
`SentInWindow` adds a bound on the integer quotient of size and rate.
`NothingLost` needs one more invariant, `BufferInvariant`: the queue is within
its slots and its bytes. With it, what a tick has popped fits again, so the
`queue_enqueue` whose result `node_tick` ignores cannot refuse it, and it evicts
nothing. The step theorems use the invariant in the state before the step.
`CustodyTraced` says both that a change of the table is traced and that a traced
acceptance has left a record and a bundle, unless the table or the slots were
full before: `custody_can_accept` has asked for the bytes but for neither of the
two, and `AcceptRenewsNothing` shows that nothing else can go wrong.

*Routing.* The stack is the route so far: `PathSound` says that its contacts are
connected, that the bundle crosses each of them, and that a frame's `t_arrive`
is what `Arrivals` computes from the start. `Arrivals` is a recursive function,
so a lemma first says that at most one table satisfies its equation
(`TablesAgree`, by the least index where two differ), and that appending a
contact extends the table of a path. By `VisitedSound` a frame has recorded as
many nodes as visited as its path has contacts; by `NodesTracked` each of them
but the first is in the frontier table, and by `FoundSound` each route offered
is sound, as long as the search is not `Stuck` (below). `CheapestKept` carries `BestOfFound` through the pushes into a full beam: every
route found is in the beam or no cheaper than all of it, and what replaces the
worst route is cheaper than it.

One case is not sound by itself. With `max_hops` at ten the search looks at
paths of eleven contacts (`cgr.c:190` pops above `max_hops`, so eleven frames
may be on the stack), but a route stores ten hops (`cgr.c:268-271`), and the
eleventh is dropped: the route offered then ends before the destination. What
saves the result is the other defect, finding 2 of section 5. A path of eleven
contacts meets at least nine different nodes before the destination, the table
holds eight, and a search that stands on an untracked node never moves on
(`Stuck` is closed under every step). So such a route is found but never
returned, and `RouteSound` holds *because* `FrontierNodes < BundleMaxHops - 1`.
The assumption is tight: with a table of nine or ten entries TLC finds a chain of
eleven contacts whose route comes back without its last hop. Whoever repairs
finding 2 by a larger table has to repair the truncation too.

*Routing, the prunings.* `ParetoCovered` compares the search with every loop-free
route, also those it cut off at their first hop, so its invariant cannot follow
one route. `Coverage` is about single contacts instead. A node is `Met` at a time
and a loss if a signature there (at the destination, a route found) is no later
and loses no more; a contact is `Passed` from a time and a loss on if the node it
leads to is met on the other side, and a node is `Expanded` if all its contacts
are. Then every signature is expanded or on the stack, the contacts a frame has
put behind it are passed, and the nodes it has visited are met, which is why
skipping them loses nothing. All of it survives the forgetting of signatures
(`Improves`), because one is dropped only for one as good, and it needs
`HopMonotone`: who is at a contact earlier can do all a later one can, and
arrives no later. Paths cut at the hop limit would leave a hole, but a search
that gets there is stuck (`LongPathsAreStuck`). When the call returns nothing is
on the stack, and the theorem follows hop by hop along any route
(`FirstHopReached`, `NextHopReached`). TLC checked the invariant on the problems
of the run before the proof.

*Network.* The inductive invariant is `NInv`: each node has the invariant of its
engine, and `Carries` says that each bundle in its queue or its frames is, but
for its place and its custodian, one that was submitted. The lemmas about the
handlers are those of `ForwardingProofs`, cited by way of the instances; that a
step of one node leaves the others alone is `OthersStay`, and that whatever is
heard, whole or garbled, now or much later, was submitted is `HeardSubmitted`. No
code compares a bundle with the one that was submitted, and after a restart of
node 1 two different bundles have the same identifier, so the invariant cannot
speak of identifiers. Frames keep a bundle's fields only because the declared size
is that of its payload, which every engine has to preserve (`QueueRoutable` for
the queue, `Wired` for the air). `EndToEnd` then follows step by step: a
generation is a `Submit`, a reception that traces a delivery is a `Deliver`, and
the rest stutters. TLC checked `NInv` on the run's instance before the proof.

*Time sync.* `HandleTurns` shows the effect of one frame on the skew; the bounds
grow by one delay and one age every two frames, which is why they mention `syncs`.

*ESP32, the radio.* `OneOwner` is inductive with the types of the chip, the
semaphore and the program counters, in the form `Owned` that names the three
possible owners: the token, the sender at `ack`, the receiver at `irq` or `ack`.
`Elsewhere` is the lemma for every step that neither raises or clears a flag nor
goes to or from such a place; what is left is the chip (`ChipKeeps`), the token
changing hands (`TakeKeeps`) and the two writes that clear the flags. That both
writes clear *all* flags, and the token is given on the edge only, is what makes
one semaphore for two events work at all.

*ESP32, the queue.* `SoundWithoutOverlap` speaks of the moments nobody is in the
queue; its invariant `QInv` says what holds in between. `Ready` relates what a
task has read to what is still there: the stores it has still to make are those
of the place it is at, and the count the tick has seen is not raised by others
but lowered by nobody else. `Sound` says, for every place in the append and in
the removal and for either order of the two stores of the append, which slots
hold what was kept and which one is the odd one out. Both parts were checked by
TLC on the run's instance before the proof. `TypeCorrect` comes out of the same
invariant, for the bound on `count` depends on who is in the queue.

*Pi.* `StandbyBetweenCalls` is nearly inductive alone. `DeafUntilSending` needs
`NoEdgeYet`, which follows an edge through the kernel's queue and the revents of
the poll to the call of `pi_recv`, and `Untouched`: without SPI the chip is as it
was. `ReportsNoMoreThanSent` needs `Reported`: a TX_DONE raised is counted in
the flags until it is cleared and in `irq` from then until `pi_send` returns,
so one TX_DONE is never reported twice, however late it comes and whoever reads
it. `TypeOK` bounds the edges the kernel queues by three; its invariant,
`EdgesBounded`, is an allowance for each place of the loop: one edge that the
call under way may still meet, one for the chip back in standby, and one for a
line already high, since only a rising edge counts. `StampAge` has an invariant
of its own, `TimedInv`, on top: the clock is ahead of `t` by the send under way
and, for the broadcast, by the one before it.

*Pi, the loader.* `LoadedAsWritten` compares what the searches of
`contact_plan_load_json` find with what was written, so the proof follows the
program through the file. Its recursions (the loop, the six numbers of a contact,
`contact_plan_add` for each of them, and the writing of the plan) are first shown
to have a solution: the set of the numbers for which one exists contains 0 and
passes on to the next (`ReadExists`, `ReadingExists`, `AddExists`, `FlatExists`). For
the loop this needs `ContactAhead`: what is read at a place depends on places
behind it only, so the loop ends on every file. A key that stands where a search
begins is found there (`FoundHere`), so an object written whole is read as it is
and leaves the search at the next one (`ObjectRead`); contact after contact that
gives the plan in front of whatever is read from the rest (`ReadInTurn`), and of
those the first 64 stay (`KeptIs`). Nothing is asked of the rest: it may be cut
off, miss keys or end in the search from a null pointer. `BufferIs` says what
the buffer cuts: the contacts that `Fitting` counts stand in it as written, and
in a file of nothing but contacts no other one begins behind the one at the cut
(`TornIs`: what is left of an entry has its key or is nothing). That is why a
plan that is too long brings one extra contact at most.

Left to TLC: liveness (`SweepEnds`, `ComesToAnEnd`, `ComesToRest`, `LoopTurns`,
`InterruptsAcknowledged`, `CallsReturn`), since fairness is out of the prover's
reach. Every other property of the passing runs is a theorem.

## 5. Where the code and its documents disagree

Each of these is a run in which TLC finds the documented statement violated.

1. `FrontierStaysInBounds` (`cgr.c:249`): the ninth undominated signature of a
   node is written behind an array of eight before it is cut.
2. `Terminates` (`cgr.c:291`, `225`): with more than eight nodes met the
   search pushes the same contact for ever, because the index advances only by
   way of the frontier.
3. `SyncAligns` (`forwarding.c:241`): the offset is computed from a clock that
   already has it; the second sync undoes the first.
4. `ConfirmedWentOut` (`lora_esp32.c:191`): the sender takes the token of a
   frame the other task received, cuts its own frame off and reports it sent.

Noted while modelling, without a run of their own:

- `queue_enqueue` evicts before it knows that the incoming bundle fits, and
  refuses a command when all slots are taken by lower classes (`queue.c:69`,
  `51`).
- A custody record that times out belongs to a bundle already sent; there is no
  copy left to route again, as `forwarding.c:164-165` says there is.
- Custody is recorded and traced, and the bundle traced as queued, when the
  queue has refused it (`forwarding.c:95`, against `forwarding.h:80-82`).
- A node takes custody of its own bundle when a relay sends it on after the
  record of it has gone, and queues it twice; the test at `custody.c:20` knows
  records only.
- `lora_get_irq_fd` returns 0, the standard input, when the SPI device did not
  open, where `lora_transport.h:53-55` promises -1: `lora_pi.c:328` leaves
  `dio0_fd` zero. `InputLostOnlyWithoutRadio` says that this is the only case in
  which the user's input is lost.
- A Pi hears nothing until it has sent, and nothing at all without edge events
  (`DeafUntilSending`): the loop waits for an edge in standby, and polls with a
  timeout of zero that looks at no register.
- A TX_DONE that comes too late for one `pi_send` makes the next one return
  success at once, before its own frame is out. Over all calls the count stays
  right (`ReportsNoMoreThanSent`), for the first call returned -1; but the
  bundle of the first is sent again and that of the second is cut off. At the
  default spreading factor 12 (`lora_common.c:41`) the chip's data sheet gives a
  frame with a message of four bytes or more longer than the two seconds that
  `pi_send` waits, so that it is cut off at the timeout and tried again until it expires;
  air times are not in the modules.
- Neither driver writes the register that maps DIO0, on which both wait for
  TX_DONE; the modules take the documented behaviour of the line.
- The parser "validates the keys it expects" (`contact.c:107`): a key missing in
  one contact is taken from the next, and a value of the wrong kind ends in a
  search from a null pointer. `LoadedAsWritten` says what still holds.
- Of a plan file only 8191 bytes are read (`contact.c:151-152`), and nobody is
  told: 64 contacts at 128 bytes each do not fit. The contact at the cut is loaded
  with defaults for what is missing, with a number cut short, or ends the program;
  those behind it are not in the plan.
- Every tick takes the bundle of the highest rank, looks for its route, and
  queues it again when there is none (`forwarding.c:110-124`). As long as it ranks
  highest the next tick takes it again, so a bundle that cannot be routed keeps
  those that can waiting until it or they expire.
- On the ESP32 an overlap of the two tasks in the queue loses or doubles a
  bundle, or writes behind the array; `SoundWithoutOverlap` says that nothing
  else does.
- A path of eleven contacts is offered to the beam with its last hop cut off
  (`cgr.c:190`, `270`); it is never returned only because the search does not end
  on the plans that have one (section 4, *Routing*).
- The seed's receiver is missing in the visited set, so a returned route may
  pass it twice (`cgr.c:161`); the dominance test does not see the least margin
  of the path that the cost uses, so the cheapest route may be pruned
  (`cgr.c:233`).
- Identifiers begin again after a restart (`forwarding.c:38`); messages over 160
  bytes are cut, not rejected (`forwarding.c:49`).

## 6. Not modelled, and the plan

Not modelled:

- the Disruption model, which nothing in the repository calls;
- the ESP32 tasks' accesses to the custody table: the sweep walks the array
  while the receiver may append to it, the same pattern as in the queue at the
  price of the square of its states;
- `app_main` and `node_state_init` but for the state they leave, and option
  parsing;
- `rssi`, which changes no state, and `esp_close`, which nothing calls;
- the dashboard, which only reads a log; the build files; node identifiers as
  text; CRC and byte order, whose effect is the field `intact` of a frame; the
  wording of the trace; stack sizes; and the precision of the 32-bit float
  clock.

Planned: the custody table under the two tasks, in a module beside `EspNode`.
