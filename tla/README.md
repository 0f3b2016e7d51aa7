# Verification of osak_ext_ns3

The repository holds two bodies of code of its own and a library they log with:

* the `satellite` module for ns-3 (C++, `src/src/cpp/contrib/satellite`), which
  simulates a Walker constellation whose satellites are joined by laser links;
* a Java port of parts of ns-3 (`src/src/java/main/osak/ext/ns3`): AODV routing,
  ARP, UDP sockets, nodes, packets, timers;
* `spdlog` (C++ headers, `src/src/cpp/contrib/spdlog`), whose asynchronous
  loggers and file sinks are the concurrent and the failure-prone part of the
  repository.

## 1. Inventory

### Satellite links (C++, one simulator event at a time)

| Part | State | Operations | Interacts with |
|---|---|---|---|
| `ConstellationHelper` | `unused_link` (a stack of free channels), `breaked_left`, `breaked_right`, `overPolar` | `Install`, `InstallDev`, `LinkConfig`, `LinkMaintenance` (reschedules itself every `m_linkCheckInterval`), `Connect`, `DisConnect` | attaches and detaches terminals and channels; is called back by a channel |
| `OpticalChannel` | `dev_list[2]`, `last_lat[2]`, temporary or permanent | `Attach`, `Detach`, `Send`, `LatitudeCheck`, `Receive` | calls `ConstellationHelper::DisConnect` from inside a send; schedules `Receive` |
| `OpticalDevice` | `m_channel`, `m_linkUp`, `m_txMachineState`, `m_currentPkt`, `m_queue`, one scheduled `TransmitComplete` | `SendFrom`, `TransmitStart`, `TransmitComplete`, `Receive`, `Attach`, `Detach`, `SetLinkDown` | calls `OpticalChannel::Send`; hands packets to the node |
| `SatelliteMobilityModel` | orbital elements | Kepler propagation in floating point | gives latitudes |

Hard behaviours: a send rewires the constellation between two maintenance
passes and in the middle of the sender's own `TransmitStart`; the maintenance
pass decides from three sets that were updated at different times; the pool of
channels is popped without a check; packets queue behind links that come and go.

Correctness: a terminal that has a channel finds both ends on it; the pool holds
free channels only; every link is up with nobody recorded as broken or down with
both ends recorded; links join neighbours; a packet has exactly one fate; the
transmit machine's assertions hold and its backlog drains.

### Java port

| Part | State | Operations | Hard behaviour |
|---|---|---|---|
| `aodv/RoutingProtocol` | sequence number, request id, RREQ/RERR counters, timers, sockets | `Start`, `RouteOutput`, `RouteInput`, `RecvAodv`, `SendRequest`, timer handlers | handlers run on the four threads of `TimerPool`; retries, rate limits |
| `aodv/RequestQueue`, `QueueEntry` | packets waiting for a route | `Enqueue`, `Dequeue`, `DropPacketWithDst`, `Find`, purge | removal while iterating, expiry, capacity |
| `aodv/RoutingTable`, `RoutingTableEntry` | routes, precursors, lifetimes | add, update, invalidate, purge, blacklist | removal while iterating, aliasing of mutable times |
| `aodv/Neighbors`, `IdCache`, `DuplicatePacketDetection` | neighbours, seen ids | update, purge, duplicate test | expiry |
| `aodv/*Header` | wire formats | serialize, deserialize | signed bytes |
| `core/Timer`, `Time` | a scheduled task, a mutable time | schedule, cancel, arithmetic | cancel before schedule, in-place arithmetic |
| `internet/Arp*` | cache entries with states | lookup, receive, wait-reply timeout | late replies, retries |
| `internet/UdpSocketImpl`, end points | bound/connected state, receive buffer | bind, connect, send, receive, close | order of calls, buffer limit |
| `network/Node`, `Packet`, `Ipv4Interface` | handlers, devices, header buffers | register, dispatch, add/remove header | order |

Correctness: a packet accepted by the request queue is delivered, queued or
reported, once; a route in use is not dropped without having been invalid; a
count of requests or a sequence number of an earlier discovery does not leak into
the next; an id that is alive is recognised; a neighbour does not disappear
without a call of the failure handler; a request held back by the rate limit is
sent in the end.

### Logging (C++, threads)

| Part | State | Operations | Interacts with |
|---|---|---|---|
| `details/circular_q` | a vector with one slot more than items, `head_`, `tail_`, an overrun counter | `push_back`, `front`, `pop_front`, `size`, `full`, move | used by the queue, by the daily and hourly sinks and by the backtracer |
| `details/mpmc_blocking_queue` | a `circular_q`, a mutex, `push_cv_`, `pop_cv_`, a discard counter | `enqueue`, `enqueue_nowait`, `enqueue_if_have_room`, `dequeue` | notifies after it unlocked |
| `details/thread_pool`, `async_logger` | the queue, the threads; a `weak_ptr` from each logger to the pool | `post_log`, `post_flush`, `worker_loop_`, `~thread_pool` | whoever drops the last `shared_ptr` runs the destructor |
| `details/registry`, `periodic_worker` | `loggers_`, `tp_`, the flusher thread, two mutexes | `set_tp`, `flush_all`, `flush_every`, `shutdown` | the flusher posts into the queue while it holds both mutexes |
| `details/file_helper` | `fd_`, `filename_`, the buffer of stdio | `open`, `write`, `flush`, `close`, `size` | the file system |
| `sinks/rotating_file_sink` | `current_size_`, the chain of files | `sink_it_`, `rotate_`, `rotate_now`, `flush_` | under the mutex of `base_sink` |
| `sinks/daily_file_sink`, `hourly_file_sink` | `rotation_tp_`, `filenames_q_`, `remove_init_file_` | `sink_it_`, `delete_old_`, `init_filenames_q_` | the clock, and the time inside a message |

Hard behaviours: condition variables signalled outside the mutex; three overflow
policies on one queue; the pool destroyed by whichever thread is last to leave it;
shutdown against a flusher that waits for room in the queue it is about to stop;
any call of the operating system failing in the middle of a rotation; a program
killed between two renames; messages that reach a sink long after they were logged.

Correctness: a message meets exactly one fate; a pool that is gone is drained and
has nobody inside; every log call ends and shutdown returns; the queue is a
bounded queue; files stay within the limit, in order, and only the oldest goes;
the last `max_files` files are there and older ones are not.

Every part, with what is left out of it and why, is listed in `PROJECT.json`;
section 5 gives the reasons for what is not modelled at all.

## 2. Modules

| Module | Models | Kind |
|---|---|---|
| `Wiring` | channels, terminals and the helper's sets as one record `w`; `Attach`, `Detach`, `Connect`, `DisConnect` and the two branches of `LinkMaintenance` as functions from wiring to wiring | operators |
| `Constellation` | `LinkConfig` and `LinkMaintenance`, one step per satellite visited, with sends that break links in between and satellites that move freely | specification |
| `Orbit` | the same constellation on Walker orbits with a check every `Interval` ticks; refines `StaggeredSpec` of `Constellation`. Conditions on its constants: `CheckedOften`, and `CheckedInPhase`, which implies it | specification |
| `OpticalDevice` | the transmit machine of one terminal | specification |
| `SatelliteNetwork` | `Constellation`, one `OpticalDevice` per sender and the packets in flight; refines both | composition |
| `JavaCollections` | `for`-each loops that remove from the list they walk | operators (external) |
| `RequestQueue` | `RequestQueue.java`, `QueueEntry.java` | specification |
| `RoutingTableOps` | one entry, and the walks over the `HashMap` | operators |
| `RoutingTable` | every public call of `RoutingTable.java` | specification |
| `IdCache` | `IdCache.java`, also behind `DuplicatePacketDetection` | specification |
| `Neighbors` | `Neighbors.java` | specification |
| `RateLimit` | the counters of `RoutingProtocol.java`, one step per access of a thread | specification |
| `AodvRouting` | the handlers of `RoutingProtocol.java` over `RoutingTableOps` | specification |
| `AodvTables` | `RoutingTable`, `RequestQueue` and `Neighbors` side by side; they share no state, so each behaviour is one of one table | composition |
| `CircularQ` | `circular_q`, as a record; `Items` is the sequence it stands for | operators |
| `BoundedQueue` | what the queue of the asynchronous loggers promises | abstract specification |
| `AsyncLogging` | `mpmc_blocking_queue`, `thread_pool`, `async_logger`, `periodic_worker` and the part of `registry` they meet in; implements `BoundedQueue` | specification |
| `FileHelper` | `file_helper` and what it leaves on the disk | operators |
| `RotatingFileSink` | `rotating_file_sink` with failures and kills | specification |
| `TimedFileSink` | `daily_file_sink` and `hourly_file_sink`, by a parameter | specification |
| `SatelliteNetworkProofs`, `OpticalDeviceProofs`, `AodvTablesProofs`, `RequestLimitsProofs`, `AodvRoutingProofs`, `CircularQProofs`, `AsyncLoggingProofs`, `FileSinksProofs` | theorems | proofs |
| `MC...` | small instances for TLC where constants are functions, or, in `MCOrbit`, meet the conditions of theorems. `MCRequestLimits` and `MCFileSinks` hold components that share no state: each behaviour is one of one of them | |

### How state and actions correspond to the code

*Satellite side.* ns-3 runs one event at a time. `w` holds `m_channel` and the
link flag of every terminal, `dev_list` of every channel, `unused_link`,
`breaked_left`, `breaked_right` and `overPolar`; `w.ub` becomes true when
`unused_link` is popped while empty, after which the behaviour of the C++ code is
undefined and the specification says nothing. `LinkMaintenance` is one event in
the code; `phase` and `cursor` let the model visit one satellite per step, and no
other action is enabled during a pass. `OpticalChannel::Send` runs the latitude
check and its call back into `DisConnect` inside the sender's `TransmitStart`:
`ChannelSend` in `SatelliteNetwork` is that single step. A latitude is one of
three values: below, at, and above the limit. Propagation and transmission times
are left out, so packets arrive in any order.

*Java side.* A call is one step, except in `RateLimit`, where each access to a
counter is. A call that throws keeps the changes made before the exception, and
the outcome is in `last`. Four traits of the code shape all modules:

* a `for`-each loop that removes ends at its first removal, by
  `ConcurrentModificationException` or, at certain positions, quietly;
* `Time` is mutable: `Time.add` and `Time.sub` store their result in the first
  argument when both have the same unit. A lifetime that is read shrinks by the
  clock; the timeout of the request queue and `m_pathDiscoveryTime` grow by it;
* addresses and ids are often compared with `==`, so objects and values are
  different sets (`Refs` and `Addresses`);
* `Timer.Cancel()` before the first `Schedule()` throws.

`AodvRouting` covers the handlers of received requests, hellos and
acknowledgements, `SendRequest` with the expanding ring, `Forwarding`,
`SendRerrWhenBreaksLinkToNextHop` and the acknowledgement timer. Sending and the
reception of RREP and RERR are empty in the source. The set of requests seen and
the set of neighbours stand for `IdCache` and `Neighbors`, whose own modules have
the expiry; `OpenLink` allows any removal the purge of `Neighbors` can make.

*Logging side.* A step of `AsyncLogging` is one critical section, or what lies
between two: a client (`pc`) enters a call, posts under the queue's mutex,
notifies after it, and drops its `shared_ptr`; a worker (`wpc`) takes a message
out, notifies, processes it. A waiting thread wakes by a notification or without a
cause. `holders` is the set of owners of the pool; `Drop` of the last one turns
the call into `~thread_pool`: a terminate message for each thread, then the joins.
The mutexes of the registry and the flusher are the conditions of `StopFlusher`
and `DropAll`. The message buffer, levels and formatting are left out; `fate`,
`sent` and `gone` are what the properties speak of and the steps never read, except
`sent` as the bound. A call of a file sink is one step, because `base_sink` holds a
mutex over it; its failures are further outcomes of the same step, and `Kill` ends
the program at any point of a rotation. Sizes of messages are small numbers and a
file is the sequence of its messages; the part `stdio` still holds is `buffer`, and
what `size()` measures is the file without it. Days and hours are `Period` ticks.

## 3. Runs

| Run | Instance | What it shows |
|---|---|---|
| `constellation` | 3 planes of 1, any motion | no operation meets a channel with a missing end, the pool holds free channels only; `IInv` of the proofs. 20 725 states |
| `orbit_staggered` | 3 planes of 3, 18 ticks per orbit, check every 2 | when neighbouring planes do not leave the polar region within one pass of each other, links join neighbours, the record of broken terminals is exact, the pool is never exhausted and after each pass exactly the links the polar rule asks for are up. 79 690 states |
| `orbit_coarse` | 4 planes of 3, check every 3 | a counterexample: a terminal is given a second channel |
| `optical_device` | queue of 2, 8 packets, 2 channels | the assertions of the device hold, packets start in order, the backlog drains whatever the link does |
| `satellite_network` | 2 satellites, both ends sending, queue of 1 | every packet has one fate, arrives only where the sender points, nothing is sent over the pole; both components behave as their own modules say. 120 530 states |
| `aodv_tables` | 3 destinations; 2 packets (one without an id), 2 destinations, limits 0, 2, 3; 3 neighbours | routes: the count of requests belongs to a search, broken routes stay invalid, a purge removes only invalid ones. Queue: nothing is lost or reported twice, service in order. Neighbours: none lost silently, live ones kept |
| `routing_table_due` | the routes, lifetime 2 | a counterexample: a purge invalidates a route before its deadline |
| `request_limits` | 2 threads, limit 2, 5 requests, 2 errors; 3 ids, lifetimes 0 and 2, 5 ticks | no request is lost, every deferred one is sent, a count past the limit comes back; a live id is always recognised |
| `aodv_routing` | 2 addresses, 4 handlers or ticks, sequence numbers modulo 4 | valid routes have a next hop, one-hop routes lead to the neighbour itself, sequence numbers are never taken back. 343 485 states |
| `async_logging` | a producer that blocks, one that discards and whose sink throws, a flusher that overruns, 2 threads, queue of 2 | one fate for each message, a pool that is gone is drained, the queue is a `BoundedQueue`, every log call settles and shutdown completes. 144 448 states |
| `file_sinks` | rotating: limit 3, messages of 1, 2 and 4 (larger than the limit), 2 old files, 5 messages; timed: daily and hourly, rotation at midnight and later, 0 to 2 files kept, messages a tick late, 2 starts | size, order and what is lost of a rotating log; which files of a timed one are there, and that a failed open is tried again. 799 969 states |
| `daily_noon` | a daily sink with a rotation later than at midnight, 2 files to be kept | a counterexample: one of the last two files is deleted |

### Bounds

Three planes are the fewest in which a satellite has two neighbouring planes and
the two ends of `LinkMaintenance`'s search differ; four are needed for the
double booking. One satellite per plane is enough for `constellation`, because
links across planes join equal slots; `Orbit` needs three for the phases. Three
destinations, neighbours, or keys let a walk stop before, at and behind the
removed element, the positions where Java's iterators differ. In the request queue
three packets are stamped, enough to fill a queue of two and drop from its front.
`aodv_routing` starts from a fresh node and from one that has sent five earlier
requests: in the latter `m_pathDiscoveryTime` is large, a searched route survives
the purges of one handler, and forwarding and intermediate replies happen. Four
handlers are enough for search, answer, link failure and a second search.

`async_logging` has one thread of each kind that the code tells apart, two workers,
because a terminate message must not be taken twice, and a queue of two, which the
producers, the flusher and the terminate messages fill in every mixture; one
message for each producer and one round of the flusher keep the liveness check
small, and the proofs cover every number of them. A queue made for no items
(`QueueSize = 0`) is excluded by `AsyncAssumption`: `circular_q` is then full and
empty at once and every blocking call hangs. In `file_sinks` five messages run a
rotating sink through more rotations than it keeps files, and with two ticks to a day the
clock runs through two midnights, so that there are three files, one more than kept.

Deadlock checking is off where a bound ends the behaviour (the clock, the number
of calls), and on in the satellite modules, which never stop, and in
`AsyncLogging`, whose only legal end is `AllDone`.

### Fairness

`OpticalDevice` and `SatelliteNetwork`: the simulator executes every scheduled
event, so a scheduled `TransmitComplete` happens (strongly fair in the
composition, where a maintenance pass disables it for the length of an event) and
a maintenance pass goes on. No fairness is assumed of applications that send or of
links that come up. `RateLimit`: `ScheduledThreadPoolExecutor` runs every task it
was given and a running thread goes on; callers need not call. `AsyncLogging`: the
operating system runs every thread that can run and hands a free mutex to one that
waits for it, so each client inside a call, each worker, the flusher inside a round
and a main thread inside `shutdown` is weakly fair. Nobody has to log, to replace
the pool or to shut down, and spurious wake-ups need not come. Log calls are
bounded, so a producer that is starved by the endless traffic of others is not
covered. The file sinks have no fairness and no liveness property.

### What the code does differently from what it says

`orbit_coarse`, `routing_table_due` and `daily_noon` are runs that TLC must refute; the
findings in `PROJECT.json` quote the comments. The models show other
disagreements, which the passing properties are careful not to claim:
`Enqueue` tests the limit with `==` and never drops again once the limit was
lowered below the size; the shared timeout object lets queued packets outlive
their timeout; `DropPacketWithDst`, `DeleteAllRoutesFromInterface` and the purges
stop at their first removal; packets without an id are taken for duplicates of
each other; the neighbour timer, the retry timer and the acknowledgement timer are
cancelled before they were scheduled, so they throw and never start; `Start` gives
the timer of the route errors the function of the requests, so the count of errors
is never reset; two threads can drive the count of requests past its limit,
where the test, an equality, does not find it until the next reset; a satellite
that dips over the limit between two checks keeps the link it lost in a send down;
`OpticalChannel::Send` is documented to return true always and returns false when
the latitude check fails. In spdlog, a rotating sink that could not reopen its file
never opens one again and drops small messages without an error, while the timed
sinks do try again; a file whose deletion fails once is never deleted; a message of
a blocking logger can still be overrun by a logger of another policy on the same
pool, and `flush` of a logger with `discard_new` may be dropped.

## 4. Proofs

For every value of the constants, under the `ASSUME`s of the modules and the conditions
that a theorem names. All invariants and action properties of the passing runs are
proved, and all refinements, one of them without its fairness; what is only
model-checked is listed at the end of this section.

### Satellite links: `SatelliteNetworkProofs`, `OpticalDeviceProofs`

*I. Wiring* (any number of planes and satellites, any motion). `SendFindsBothEnds`
and `PoolIsFree` are not inductive: a link that `LinkConfig` has still to build could
be found in the pool, and a channel could have one end only. `IInv` adds
`WiringSound`, which ties terminals to channels in both directions and keeps the pool
free of repetitions, and `PendingUntouched`, which says that what `LinkConfig` has not
come to yet has never been touched. The proof follows `DevAttach`, `ChAttach` and
their inverses through `Connect` and `DisConnect`, and these through the branches of
`LinkMaintenance`.

*II. Staggered motion* (`StaggeredSpec`: neighbouring planes do not leave the polar
region within one pass of each other). `StaggeredInv` adds `Wired`: a link is up
between the right terminal of a satellite and the left one of its right neighbour
with neither recorded, or down with both recorded, and every channel is on a link or in
the pool. From it `NeighbourWiring`, `BreakedIsExact`, that the pool is never popped
empty (`PoolNeverExhausted`: links and channels are equally many, so one is free for each
link that is down) and that no terminal is booked twice. `TwoPlanesAreStaggered`: with two planes nothing has to
be assumed of the motion. The run `orbit_coarse` shows that the assumption is needed
with four, and part IV which orbits meet it.

*III. The network.* `NetworkImplementsConstellation`: whatever the transmitters do,
the wiring takes the steps of `Constellation`; a send changes it in one way only,
`SendBreaksLink`. So `IInv` holds in the network too. `Fates` follows one packet
through air, got and lost, and gives `OneFatePerPacket`. `NothingSentOverPole` is a
property of `ChannelSend` under `IInv`; `ArrivesAtFacingTerminal` needs the staggered
motion or two planes. `NetworkImplementsDevice`: each step of the network is a step of
`OpticalDevice` for a terminal between planes, or a stutter. It is the safety part of
the property `ImplementsDevice` that the run checks.

*IV. Orbits* (any numbers of planes, slots, phase, ticks and interval that satisfy
`ThreeZones`, the three latitude classes exist, and `CheckedOften`). `CheckedOften` is
the question of how often `LinkMaintenance` has to run. It says of the positions at two
passes in a row, for every step of the orbit,

* `CrossingsAreSeen`: a satellite that comes above the limit between them is still
  there at the second. Otherwise a link that a send took down meanwhile is recorded for
  nobody and never comes up again (section 3);
* `PlanesLeaveInTurn`: when a satellite is found to have left, a neighbour that is not
  recorded does not have its other link down. This is what the search of
  `LinkMaintenance` through all broken terminals of a neighbour takes for granted.

`OrbitsAreStaggered` derives the `Staggered` motion of part II from it, so the theorems
there hold of the orbits (`OrbitLinksAreSound`), and `OrbitLinksFollowPolar` that after
every pass exactly the links without a recorded satellite are up, which is not inductive.
`OrbitInv` adds to `StaggeredInv` the clock and three facts: a satellite is recorded as
the last pass left it, or as the pass under way did when that has come past it
(`PassAgrees`; one at the limit itself keeps the record it had, so either is possible);
no link is up with an end recorded, and one that is down has an end recorded or above
the limit by now (`LinksAgree`: a send takes links down between passes); and what
`LinkConfig` recorded so far are satellites above the limit (`ConfigAgrees`). `CrossingsAreSeen` is needed
when the clock ticks, `PlanesLeaveInTurn` when a pass comes past a satellite.

`CheckedOften` ranges over all satellites and steps. `PhaseChecksOften` derives it from
`CheckedInPhase`, four comparisons of figures: there is a pass for every phase between
neighbouring planes, the polar region takes longer to cross than an interval and no
less than a phase, and the stretch below the limit no less than two phases and an
interval. The proof puts three neighbouring planes on the half orbit, a phase apart
(`ThreePlanes`), and reads the latitude classes off their places. A Walker
constellation such as 66/6/2 on near-polar orbits, with the limit at 70 degrees, is of
this kind when it is checked every three minutes. Planes without a phase (`F = 0`) are not, and nothing
is claimed of them.
`orbit_staggered` meets the condition (an `ASSUME` of `MCOrbit` that TLC evaluates);
`orbit_coarse`, with an interval of 3 and a phase of 2, does not, and breaks the first
comparison only. The module of the proofs extends `Orbit` for this
part; no proof of the other parts uses the assumption on its constants.

`OpticalDeviceProofs` (any queue size): the invariant is the conjunction of the type
invariant, `OneCompletionWhileBusy`, `NoIdleBacklog` and `StartedInOrder`: the order of
starts needs that a READY transmitter has an empty queue, since `SendFrom` dequeues
right after it enqueued.

### AODV: `AodvTablesProofs`, `RequestLimitsProofs`, `AodvRoutingProofs`

*Routing table* (any destinations, any order of the `HashMap`, any lifetimes).
`CountOnlyInSearch` is inductive together with the type invariant. Both are followed
through `Purge` as statements about a table, since the walk may end after any prefix.
`OnlyInvalidPurged` needs that the walk really ends at a key it meant to remove, which
rests on the well-foundedness of `<` on the positions. `BrokenRoutesInvalid` needs that
no other call can claim to be a completed invalidation.

*Request queue* (any packets, limits, timeouts). Every call takes entries out of a list
or adds one at its end, and each time one of three counts of the packet goes up by one;
`QueueGood` says so of a list and the counts and is followed through the purge that each
call begins with, whether it ends or is cut short. From it `EveryPacketAccounted`; with
the serial numbers of the list in order, `OldestFirst`.

*Neighbours.* An address is listed once, so whatever the second walk of `Purge` takes
out is closed and was reported by the first: `NoSilentRemoval`, `LiveNeighborsKept`.

*Rate limits* (any number of threads, both limits). Each step of a thread moves it into
or out of `SendRequest`, or leaves it there, and changes one counter of `NoRequestLost`
by the same amount. The counts of the protocol itself may take any value, races
included: what becomes of a request does not depend on them. *Id cache*: a record is
appended only where none with its id is left, so an id has at most one record, and a
purge that throws has removed one that was due (`LiveIdsKnown`).

*Protocol handlers* (any addresses, lifetimes, width of the sequence numbers).
`ValidHasNextHop` and `OneHopIsNeighbor` are not inductive: flag, hop count and next
hop are set apart from each other, by way of copies, and a purge may invalidate a route
in between. `AInv` says `Leads` of every entry, valid or not: outside of a search it
has the next hop and the distance that were set together. The tables a handler passes
from call to call are followed through each of them, exceptions included (`Fine`).
`FreshestSeqKept` rests on `SameSeq`, no call but the reverse route of a request
changes a sequence number, and on the entry of the origin outlasting the two purges
between the look at its number and the update.

### Logging: `CircularQProofs`, `AsyncLoggingProofs`, `FileSinksProofs`

*Circular buffer* (any capacity, 0 included, any items). The index arithmetic modulo
`max_items_` is replaced by case distinctions (`FollowingIsSucc`, `SlotIsAt`); then
`push_back` appends and, when the buffer is full, gives up the first item, and
`pop_front` takes the first item off (`PushBackFacts`, `PopFrontFacts`). Everything
about queues below uses these two facts and not the indices.

*Asynchronous loggers* (any number of producers, workers and loggers, any policies, any
size of the queue), under `AsyncAssumption`. `QueueIsBoundedQueue`: a client that stands
before the queue has a message to post, so every step of the program is a step of
`BoundedQueue` or none; the specification it implements has no fairness, so the
refinement is proved in full. `EveryMessageHasOneFate` follows one message through the
four sets of places it can be in; the strengthening is that a client outside the queue
has nothing to post and a worker before the queue nothing in hand. `PoolIsDrained`: all
who are inside a call hold the pool, so whoever drops the last reference is alone; it
posts as many terminate messages as there are threads, behind everything else. The
queue is a stretch of messages followed by k terminate messages, and k, the threads
that took one and those still to be posted add up to the number of threads; when all
have ended, k is 0 and the queue is empty.

*Timed sinks* (any period, rotation, delay and arguments within `TimedAssumption`).
`TimedInv`: all files opened are from before the next time of rotation; those that are
on the disk and were not missed are in `filenames_q_`; when the sink rotates at midnight
or by the hour they are there in order, and the last `max_files_` of them exist. From
this `LastFilesRetained`, `OldFilesDeleted` and `ClosedOnlyWhileDue`. It uses that a
message is not from the future. What the constructor puts into the queue is a loop
that the model writes as a fold. No induction theorem can be cited for it, so the proof
shows that the recursive function behind the fold exists for every length, by the least
length without one (`FoldsExist`), and reasons about its stages.

*Rotating sink* (any `max_size`, number of files, sizes of messages), whatever call
fails and wherever the program is killed. `Chain` says of a set of files that each fits
or is a single message, that the messages in a file are in order, and that those of an
older file come before those of a newer one. `RotatingInv` says it of the files as they
are and as they would be with stdio's buffer written, which is what a kill and a flush
need, and adds that `current_size_` is never less than the log file has: it may be more,
after a write that threw or after `rotate_now`, which does not reset it. `SizeBounded`
and `KeptInOrder` follow. For `LosesOnlyTheOldest` every step is first described on the
files (`FilesMove`: nothing, a message more, or all up by one), and then on the
concatenation of the files: two joins of the same pieces agree from the first common
one on (`JoinsAgree`, again by the least index where they do not).

### Only model-checked

* Liveness: `EveryPacketStarts`, `EveryRequestOriginated`, `BurstEnds`,
  `EveryLogSettles`, `ShutdownCompletes`, and the fairness half of `ImplementsDevice`.
  The provers have no rule for `ENABLED`.
* What `Orbit` does when its figures do not satisfy `CheckedOften`: the run
  `orbit_coarse` is one case of it.

## 5. Not modelled

About 33 000 lines of the repository are C++, and most of them have no state of the
program to model:

* the copy of fmt in `spdlog/fmt` (about half of all lines), `pattern_formatter` and
  the stopwatch and hex helpers convert data to text; templates, no state;
* `SimpleIni` is a sequential parser and writer of text, used by the tests of the
  satellite module to read their parameters;
* the console, socket, syslog, Windows and Qt sinks are one write each to something
  outside of the repository;
* levels, error handlers, backtrace and configuration by environment of the logger
  core do not take part in what the loggers promise about messages; of the logger
  only the path of a message to its sinks is modelled;
* the mobility model is Kepler propagation in floating point, the link budget of the
  channel likewise (a nondeterministic drop), the pcap helper writes files, the
  extension helpers are arithmetic on vectors.

Of the Java port, the IPv6 layer, `Ipv4L3Protocol`, `UdpL4Protocol` and the
callbacks are declarations or stubs. `RouteOutput` and `RouteInput` of the protocol
return early as long as `m_socketAddresses` is empty, which nothing fills. The wait
timer of the ARP cache is never created, so its retries cannot happen. Sending and
the reception of RREP and RERR are empty.

## 6. Plan

Done: the satellite modules, the AODV tables and handlers, the asynchronous loggers
and file sinks; proofs of all their safety properties.

Next, modelling, in this order:

1. ARP as far as it runs: the states of a cache entry, pending packets and late
   replies.
2. UDP sockets: bind, connect, shutdown and close in any order, the receive buffer
   at its limit.
3. The backtrace ring of the logger core, over `CircularQ`.
4. Packets and headers: the buffer of a packet under headers added, removed and
   copied; the AODV, ARP, UDP and IPv4 formats as round trips (the signed hop byte,
   the 255 destinations of a RERR).
5. `Node` and `Ipv4Interface`: protocol handlers, device listeners, addresses.
6. The ready-to-break notification of `OpticalChannel`.

Next, proofs: the components still to be modelled, each with its invariant.
