# ZeroTopic: a TLA+ model of its messaging core

ZeroTopic (OpenIBBOs) is a C framework for embedded controllers, with a Linux port that
runs the same core. Sensors and tasks write values into a shared *object dictionary*; a
*topic bus* turns the events they publish into *topics* by rules and calls the
subscribers; interrupts and tasks hand items over through *ring buffers*; an older
message bus, *VFB*, connects the device tasks. This directory models that core in TLA+,
model-checks it with TLC and proves the main facts about it with TLAPS.

Paths below are relative to `src/`.

## 1. The system

| Part | State | Operations | Interacts with |
|---|---|---|---|
| Ring buffer, `zero_topic_core/ring_buffer/ring_buffer.c` | item slots, `write_idx`, `read_idx` (C11 atomics), two counting semaphores | write, read, write/read_blocking, write_isr, reset, get_count, get_space | interrupts, the ISR queue of the topic bus |
| Object dictionary, `zero_topic_core/obj_dict/obj_dict.c` | entries (key, value pointer, length, version, reference count), one semaphore | set, get, retain, release, cleanup_unused, iterate, queries | memory pool, heap, topic bus (which reads its entries without the semaphore) |
| Memory pool, `obj_dict/obj_dict_mempool.c` | blocks with an in-use flag | alloc, free | dictionary; falls back on the heap |
| Rules, `topic_bus/topic_rule.c`, and publishing, `topic_bus/topic_bus.c` | topic entries: rule, trigger mask, cache of the last query; the bus semaphore | rule_create, publish_event, publish_manual, process_isr_queue | dictionary timestamps, delivery |
| Delivery and subscriptions, `topic_bus/topic_bus.c` | subscriber lists | subscribe, unsubscribe, `__trigger_topic_callbacks` | dictionary, callbacks, router |
| Topic router, `topic_bus/topic_router.c` | table of routes, `router_count` | add_vfb, add_custom, route, remove | VFB, callbacks |
| Topic server, `topic_bus/topic_server.c` | `running`, counters | start, stop, run_once, its task | ISR queue, bus |
| VFB, `Middlewares/vfb/vfb.c` | event lists, receiver queues, frames with `use_cnt` | subscribe, send_core, MsgReceive, TaskFrame | `os_queue`, heap |
| OS layer, `Rte/src/*` | semaphores, queues, threads, mutexes per port | take/give, send/receive, reset | everything above |
| DMA request list, `Middlewares/list/ex_list_dma.c` | request list, lock | request, activate, complete | drivers |
| Serial tasks, `Middlewares/device/Uart`, `Debug`, over `bsp/dev_uart` | buffers, `lock_tx`, stream buffer, two DMA channels | start, send, receive interrupt, receive task | VFB |
| Other device tasks, `Middlewares/device/*` | key states, samples | their loops | VFB |
| Board support, tables, filters, demos, vendor code | registers, tables | - | - |

### What makes it hard

* **The ring is lock-free.** A reader and a writer, one of them possibly an interrupt,
  decide from separately loaded indices and copy items while the other side moves. Its
  semaphores are a second count of the same items; different functions treat them
  differently (`write` gives nothing, `write_isr` gives an item without taking a space).
* **A timed-out take counts as taken.** `os_semaphore_take` answers 1, 0 on a timeout, or
  a negative value; all of the core tests for `< 0`.
* **The bus reads the dictionary without its lock**, keeps the pointer over the callbacks
  and relies on the reference count to keep it valid.
* **Rules have memory**: an AND rule completes over several events and publishers; a cache
  holds the answer of the last query; entries are reused.
* **Partial failures**: no memory for a value, a rule, or its timeouts; a full queue in the
  middle of a send to several.
* **A frame of VFB has as many owners as receivers**, each of which counts it down without a
  lock. The semaphore around sending and subscribing starts with one token too many.
* **A wait has more than one end.** A condition variable wakes one sleeper per signal, wakes
  without one, and a wait that reaches its limit does not look at the queue again.
* **The server's thread says itself that it runs**, so that a stop or a second start may come
  too early. The router's table has no lock at all.
* **Hardware goes on by itself**: the DMA reads and fills buffers while tasks and interrupts
  use them.

### What makes each part correct

* Ring: it is a bounded FIFO, no slot is written while it is read, a blocked call returns.
* Dictionary: a key has one entry; a read returns one whole write; counts are exact; a
  block has one owner and none is lost.
* Delivery: the pointer a callback gets stays the value of its key; every subscriber on
  the list is called; every reference is given back.
* Rules: an event fires exactly the topics whose rule it completes.
* Router: a route is followed until removed, and leads to the callback it was added for.
  Server: every event accepted is published once, in order; a stop is obeyed.
* OS queue: it is a bounded FIFO, and nobody sleeps over an item or a free place.
* VFB: a frame is freed once, by its last receiver, and not before; messages of one sender
  stay in order; a message is missed only for a failure that was met.
* Serial port: the DMA never sends from a buffer being overwritten; a received byte is
  neither doubled nor lost for another reason than want of room.

`PROJECT.json` lists the hazards of this kind, each at its line with the property that covers
it, or the reason why none does.

## 2. The modules

| Module | Models |
|---|---|
| `BoundedFifo` | what a ring buffer promises: a queue of at most `Capacity` items |
| `RingBuffer` | `ring_buffer.c`, one access to shared memory per step |
| `KeyedStore` | what the dictionary promises: a map read and written atomically, with versions |
| `ObjDict` | `obj_dict.c` and the blocks of `obj_dict_mempool.c` |
| `TopicTrigger` | `__trigger_topic_callbacks`, subscribe and unsubscribe, composed with `ObjDict` |
| `TopicBus` | `topic_rule.c`, rule creation and publishing |
| `OsQueue` | `os_queue.c` of the POSIX port over `ringbuf.c`: mutex, two condition variables, time limits |
| `Vfb` | `vfb.c`: subscription, sending, receiving, frames; its queues are bounded FIFOs, which `OsQueue` shows them to be |
| `TopicRouter` | `topic_router.c`: the table, the manager that changes it, the passes through it |
| `TopicServer` | `topic_server.c` and the ISR queue of `topic_bus.c`, composed with `TopicRouter`; the queue is a bounded FIFO, which `RingBuffer` shows it to be |
| `Uart` | the serial tasks and interrupts of `Uart.c` over `dev_uart.c` and its DMA |
| `MC...` | model values and symmetry for TLC |
| `RingBufferProofs`, `ObjDictProofs`, `TopicTriggerProofs`, `TopicBusProofs`, `OsQueueProofs`, `VfbProofs`, `TopicServerProofs` (with the router), `UartProofs` | theorems about the module named, and their proofs |

### RingBuffer

`write_idx`, `read_idx`, `slots`, `sem_items`, `sem_spaces` are the fields of
`ring_buffer_t`; `wr[p]` and `rd[c]` are the call each writer and reader is in: its
program counter, function, item, and last index loaded. A write is `BeginWrite`,
`TakeSpace` (the blocking functions), `PushLoad` and `PushCheck` (the two loads of
`ring_buffer_get_count` and the decision), `PushIndex`, `PushCopy` (the memcpy: it lasts
as long as the writer is at `copy`), `PushStore` and `GiveItem`, or `RefundSpace` when the
push fails. Reading mirrors it. `op` is the function called: `write`/`read`, `isr`, and
the blocking functions with a wait of 0 (`poll`), a limit (`timed`) or `UINT32_MAX`
(`forever`). Indices wrap at `IndexMod`, which stands for 2^(width of `size_t`); the
subtraction of `get_count` is done on that width. A `timed` take of an empty semaphore
answers 0, and goes on, at any moment: time is not modelled.

### ObjDict

`entries[s]` has the fields of `obj_dict_entry_t` without flags and timestamp; `used` and
`mem` are the blocks allocated and what they hold, where `Torn` is the content of a block
being written or never written. A call takes `lock`, moves through steps that a task
outside the semaphore can observe (`FindEntry`, `ClaimSlot`, `TrimValue`, `AllocValue`,
`CopyBegin`, `CopyEnd`, `Stamp`; `ReadValue`, `ReadMeta`; `Retain`; `Release`; `Sweep`,
one turn of the cleanup loop each) and gives it. The pool serves a value that fits a
block; else the heap does, which may fail. `pins[t]` is the key task `t` has retained;
`answer[t]` what its get returns. Whether a value is old enough for a cleanup is left
open, so that cleanups free at any time they are allowed to.

With `LockTimesOut` a take of an empty semaphore may succeed without a token, as in
`os_semaphore.c` after 100 ms. Without it, no call holds the semaphore for that long.

### TopicTrigger

Extends `ObjDict` with the bus: the subscriber list (`subscribers`, `next`, `allocated`),
`bus_lock`, and the delivery of each publisher. `ScanValue`/`ScanKey` are the unlocked
search of `__find_dict_entry`, `CheckValue` and `LoadValue` its use, `RetainData` and
`ReleaseData` start a dictionary call that then runs as any other (`PublisherCall`).
`StartWalk` and `NextSubscriber` walk the list; `From(n)` is the set of its nodes from `n` on,
the least set closed under `next`. `topic_publish_event` delivers without the
lock of the bus, `topic_publish_manual` with it.

### TopicBus

`topics` is the array of entries: rule type, events, mask, cache. `VisitTopic` is one turn
of the loop of `topic_publish_event`: cache, rule, freshness, mask, and the whole-rule
freshness test of AND rules. `fresh` is the set of keys with a recent value: it stands for
the timestamps in the dictionary and changes at any time. `heard` is a history variable:
the events of an AND rule published in time since it was made or last complete; it is
computed from the events, never from the mask, so that mask and cache can be compared
with it. A rule made anew may fail for lack of memory, which leaves the entry claimed.

### OsQueue

`pBuffer`, `uxHead`, `uxTail`, `uxCount` are the fields of `ringbuf_t`; `call[t]` says whether
a task is outside, at the mutex, waiting on its condition, or woken and at the mutex again.
What a thread does between getting the mutex and giving it back or waiting is one step: `Push`
and `Pop` (with the signal), `Block` (fail at once or wait). `TimeOut` ends a wait without a
look at the ring, also one that has just been signalled, as POSIX allows: the signal is then
gone, which the history variable `missed` records if another task of the kind still waits.
`SpuriousWakeup` is the wakeup without a signal.

### Vfb

`queue_list[e]` is the list of receivers for an event, `heap` and `content` the frames
allocated and what is in them, `use_cnt` their counts, `queue[r]` the copies (pointers) queued.
`BeginSend` is `__vfb_send_core` up to its loop; `SendQueue`, `QueueFull`, `WaitOver` and
`SendFails` are one turn of it. A failed turn goes on with the next `i` but the same list item.
Reading, storing and testing `use_cnt`, and freeing, are four steps (`LoadCount`, which is part
of the action before it, `StoreCount`, `TestCount`, `FreeFrame`). `Preempted` says whether
another task may count the same frame down in between, `LateSubscribe` whether a task may
subscribe while another sends.

### TopicRouter and TopicServer

`routers[i].custom` is `type != 0`: with `TOPIC_ROUTER_TYPE_VFB == 0` a VFB route is an entry
that still counts as free and has a topic and a key in it. `AddCustom`, `StoreCallback`,
`StoreTopic`, `StoreUserData` are the stores of `topic_router_add_custom` in their order, each
visible to a pass, which looks at an entry in two steps (`MatchEntry`, `CallEntry`). `owner`
remembers the callback last added to each entry.

`thread[t]` is where a server thread or a task in `topic_bus_process_isr_queue` is; a published
event starts a pass through the router for each topic it fires. `Hasty` lets a stop come before
the thread has begun and a second reader before the first has ended; `Unguarded` lets routes be
removed while passes are under way, or be added in an entry in which a VFB route has left a
topic.

### Uart

`handler` is where `UartRcvHandle` is with a message to send: the copy into `uart_tx_buffer`,
the start of the DMA, the wait for `lock_tx`. `tx_dma` is the transmit channel, which reads the
buffer byte by byte. `rx_at` is the position of the receive channel, `rx_flags` the interrupts
pending (buffer full, pause on the line), `rx_isr` where the interrupt handler is between its
count, its copy and the restart of the DMA. `excused` collects the bytes the code has no room
or no ear for. The port is not enabled before `UartStart`; a message sent earlier waits its
300 ms in vain, which `late` records.

## 3. The runs

| Run | Checks | Bounds |
|---|---|---|
| `RingMixed` | `TypeOK`, `NoSlotRace`, `CallsInv`, and that the ring implements `BoundedFifo` (`RingIsFifo`) | 2 slots, indices mod 4, two items, all nine functions and waits mixed, resets |
| `RingBlocking` | `TokensConserved`, and under fairness `BlockedWriterReturns` | 2 slots, indices mod 6, unbounded waits only |
| `DictStore` | `TypeOK`, `UniqueKeys`, `BlocksOwned`, `LookupsHold`, and that the dictionary implements `KeyedStore` (`IsKeyedStore`) | 2 tasks, keys, entries, data values; lengths 0, 1, 2; one pool block (of length 1), one heap block; counters mod 3 |
| `DictRetain` | `RefExact`, `NoBlockLost`, `RetainedStays` | 3 tasks that write one length, retain, release, clean up; no pool |
| `TriggerFixed` | `CallbackDataValid`, `RouterDataValid`, `EverySubscriberCalled`, `RefExact` | a publisher, a dictionary user, two keys, two subscribers |
| `BusRules` | `TypeOK`, `TopicsUnique`, `RulesFireExactly` | 2 publishers, 2 entries contended by 3 topics, 3 events, rules of every type |
| `QueueWaits` | `TypeOK`, `NoWakeupLost`, that the queue implements `BoundedFifo` (`QueueIsFifo`), and under fairness `SleepersServed` | 2 places, a sender, 2 receivers, interrupts, 2 items, every kind of limit, resets |
| `VfbFrames` | `TypeOK`, `CopiesIntact`, `FramesCounted`, `DeliveredInOrder`, `MissedByFailures`, and under fairness `QueuesDrain` | a task that sends twice, an interrupt that sends once, 2 receivers with queues of 1, 2 frames, a receiver ends after one idle wait |
| `ServerRelay` | `TypeOK`, `RoutesAsAdded`, `AllRoutesCalled`, that interrupts and bus are joined by a `BoundedFifo` (`RelayInOrder`), and under fairness `AcceptedAreRelayed`, `StopEnds` | 2 threads that read, a queue of 2, 2 entries, 2 topics, 2 callbacks, 2 events, one of which fires two topics |
| `UartBytes` | `WireInOrder`, `BytesAccounted`, and under fairness `BytesMoveOn` | buffers of 2 bytes, messages of 2 and 1, 4 bytes received |
| `TriggerResize`, `VfbPreempted` | a claim of the repository that the code does not keep; see section 6 | small |

Each module's type invariant is a run's, but for `TopicTrigger` and `Uart`, whose types are part
of the invariants proved of them (`BusTypes`; `SendKept`, `RxTypes`).

**Why the bounds are enough to be interesting.** Two slots are the smallest ring that is
empty, partly filled and full, and with indices modulo 4 or 6 they wrap within every long
behaviour; `IndexMod = 6` also has a range that is not a power of two, as nothing in the
argument depends on it. Two keys and two entries fill the array and let a slot change its
key; one pool block and one heap block run out together; a counter modulo 3 or 4 wraps
after a few writes. Two subscribers suffice to unsubscribe the first, the last, and one
in front of which another was put. Three topics for two entries make `topic_rule_create`
fail for lack of place, and the rules share events so that one event fires several. Two
receivers suffice for a signal to wake one while the other comes by or sleeps on. A queue of
one place fails while the other has room, twice in one send if need be, and with two frames
the memory of the first is used again while the second is on its way. Two routes suffice for a
hole in front of a route, and buffers of two bytes are full, half full and run over within four
bytes. What
the bounds might hide for rings and dictionaries of other sizes is what the theorems of
section 5 are for.

**Symmetry** is used only in runs without liveness: over tasks that make the same calls,
heap blocks, data values, subscription nodes, publishers and topic ids. `PoolBlocks` has one element;
entries are numbers, for the code searches them in order.

**Deadlock** is checked in every run but `VfbFrames`, `VfbPreempted` and `UartBytes`, in which
the number of messages is bounded and the system stops when all have been handled.

**Usage the runs assume.**
* `RingMixed`, `RingBlocking`: one writing and one reading context, and `ring_buffer_reset`
  while no call is in progress (it takes no lock and destroys the semaphores).
* `DictStore`, `DictRetain`, `TriggerFixed`: `LockTimesOut = FALSE`.
* `DictRetain`, `TriggerFixed`: each key is written with one length. `TriggerResize` is
  what happens otherwise.
* `TriggerFixed`: no task unsubscribes while a topic is delivered
  (`UnsubscribeAnytime = FALSE`), no cleanup runs beside a delivery. The publisher reads
  the entry before it retains it; a cleanup in between would free the value it is about to
  hand out, and a node freed under the walk would be read. The code has no protection
  against either.
* A task releases only what it has retained, one key at a time.
* `VfbFrames`: `Preempted = FALSE`, `LateSubscribe = FALSE`. `VfbPreempted` is the same system
  without the first.
* `ServerRelay`: `Hasty = FALSE`, `Unguarded = FALSE`: whoever controls the server waits for
  its thread to begin and to end, and routes are removed between passes. Routes are added at
  any time.

## 4. Fairness

All of it is weak: every runnable thread is scheduled again and again, and nothing that a
caller is free to do has to happen.

* `RingBlocking`: each step of a writer inside a call, and each step of a reader, including its
  next call, for a reader is a consumer loop. With one writer and one reader a token given
  stays in the semaphore until the one task that waits for it takes it.
* `QueueWaits`: a task at the mutex gets it and goes on. No wait has to reach its limit, and no
  spurious wakeup has to come, so that `SleepersServed` rests on the signals alone.
* `VfbFrames`: a receiver goes on as long as it has a message, a callback or a timeout to deal
  with, and a send that has begun goes on; a queue is full for ever only if its receiver has
  ended, and then the send fails.
* `ServerRelay`: every server thread takes its steps, sleeps end. Nobody has to publish, start,
  stop or change routes. `StopEnds` adds that interrupts stop publishing one day, because
  `run_once` reads until the queue is empty.
* `UartBytes`: handler, interrupts and the receive task run, the DMA moves on, and a line on
  which bytes have come pauses one day. No byte has to come and no message be sent.

## 5. What is proved

Every safety property and every refinement that a passing run checks is also a theorem: it holds
for every value of the constants that satisfies the module's assumption (`RingAssumption`,
`DictAssumption`, `TriggerAssumption`, `BusAssumption`, `QueueAssumption`, `VfbAssumption`,
`RouterAssumption`, `ServerAssumption`, `UartAssumption`: what the code's own types and
allocations give) and the conditions named with it below. Those conditions are the ones section 3
lists as the usage the runs assume, or bounds on a size; none of them is taken by the theorems
that do not name it. Section 6 shows what happens without most of them.

| Condition | Says |
|---|---|
| `SPSC` | one writer and one reader of a ring |
| `UnboundedOnly` | the calls on a ring are those that wait without a limit |
| `~LockTimesOut` | no call holds the semaphore of the dictionary beyond 100 ms |
| `PoolBlocks = {}` | the dictionary has no memory pool |
| `PlainRetaining` | all values have one length other than 0; tasks are fewer than a counter counts |
| `PlainDelivery` | the two above but the pool, and no cleanup runs |
| `~UnsubscribeAnytime` | nobody unsubscribes during a delivery |
| `PlainRules` | 0 is no key, and no rule lists an event twice |
| `FewReceivers` | fewer than 2^16 receivers, as `use_cnt` has 16 bits |
| `~Preempted`, `~LateSubscribe` | a countdown of a frame is not preempted by another; nobody subscribes during a send |
| `~Unguarded` | routes are removed, and added over what a VFB route left, between passes only |
| `~Hasty` | the server is stopped after its thread began and read by one thread at a time |

**`RingBufferProofs`**
* `TypeCorrect`: `Spec => []TypeOK`, for any number of readers and writers.
* `CallsConsistent` (`SPSC`): `Spec => []CallsInv`. `CallsInv` says what a call relies on between
  its check and its store: the writer's index is current and the room it saw is still there, the
  reader's item is still there, the slot holds what it copied. It is inductive together with
  `TypeOK`; the count alone is not, because a store from a stale index would break it.
* `SlotsNotShared` (`SPSC`): `Spec => []NoSlotRace`. A writer at `copy` sees `Count < Capacity`, a
  reader at `copy` sees `Count > 0`, so that the two masked indices differ.
* `RingImplementsFifo` (`SPSC`): `Spec => RingIsFifo`. The refinement mapping takes the slots from
  `read_idx` on, `Count` of them, as the queue. `PushStore` maps to `Put`, `PopStore` to
  `Get`, `Reset` to `Clear`, and every other step to a stutter; the lemmas on modular
  arithmetic (masking commutes with the wrap because the capacity divides the index
  range) carry the argument.
* `TokensAreConserved` and `UnboundedWaitsSucceed` (`SPSC`, `UnboundedOnly`):
  `Spec => []TokensConserved` and `Spec => []UnboundedWaitNeverFails`. The inductive `TokensKept`
  says where each token is: in its semaphore, with the call that took it, or with the call that is
  about to give it; and that a call which holds one has the room or the item it stands for, so
  that `RefundSpace` is never reached. The second property fails as soon as limits are mixed in
  (section 6), so no passing run has it.

**`ObjDictProofs`**
* `TypeCorrect`: `Spec => []TypeOK`, also with timeouts.
* `DictConsistent`, `KeysAreUnique` (`~LockTimesOut`): `Spec => [](LookupsHold /\ UniqueKeys)`.
  `UniqueKeys` is not inductive: `ClaimSlot` preserves it only because the key it brings
  in is still absent. `DictInv == TypeOK /\ LookupsHold /\ UniqueKeys` adds that one call
  at a time is inside the semaphore and that what it looked up is still true.
* `BlocksHaveOneOwner` (`~LockTimesOut`): `Spec => []BlocksOwned`, inductive relative to `DictInv`:
  a block is handed out only while nothing points to it, and a slot is made to point to it only
  while it points to nothing.
* `NothingLeaks` (`~LockTimesOut`, `PoolBlocks = {}`): `Spec => []NoBlockLost`.
* `CountsAreExact`, `RetainedIsKept` (`~LockTimesOut`, `PlainRetaining`): `Spec => []RefExact` and
  `Spec => RetainedStays`. `RefExact` is not inductive: a claim resets a count, a release counts
  down what it finds. `CallsFit` ties each step to the function it belongs to and a release to
  the pin it gives back; `RefsKept` adds that a retained key has an entry and that an entry
  without a value has no references.
* `StoreIsAtomic` (`~LockTimesOut`): `Spec => IsKeyedStore`, for values of any lengths, with pool
  and cleanups. The abstract store is `Committed`: a key being edited has its former value. `Stamp`
  is the `Write`; a trim to length 0, a failed allocation and a sweep are a `Drop`; a read that
  finds nothing and `ReadMeta` are the `Read`; `Give` is the `Return`; all else stutters.
  `WritesKept` says what the editing call has done so far, `Lookups` that a lookup finds what
  there is.

**`TopicTriggerProofs`** proves about `TriggerSpec`, the composition.
* `SubscribersAreCalled` (`~UnsubscribeAnytime`): `TriggerSpec => []EverySubscriberCalled`.
  Inductive is `SubscribersKept`: the allocated nodes are those on the list, the list ends
  (no node is behind itself), and of a delivery the nodes called and those ahead of it are
  together what it is due to call. It rests on lemmas about `Reach`, which is `From` for any
  `next`: a closed set, the least one, the same after writes elsewhere, and without node `n` when
  every pointer to `n` is led past it (`ReachCut`).
* `DeliveriesUseTheDictionary` (`PlainDelivery`): `TriggerSpec => Spec`. A publisher begins its
  calls on its own terms, from a pointer it read without the lock; that each is a call the
  dictionary expects (retain when nothing is held, release of what is) needs the rest of the
  invariant `DictKept`: where each publisher is (`DeliveryKept`), that a value once found stays
  where it is (`ValueStays`), that nobody cleans up (`NoSweeps`), with `DictInv`, `CallsFit` and
  `RefsKept`. Therefore the theorems of `ObjDictProofs` hold during deliveries.
* `CallbacksSeeTheValue`, `RouterSeesTheValue`, `CountsStayExact` (`PlainDelivery`):
  `CallbackDataValid`, `RouterDataValid` and `RefExact`, from the same invariant.

**`TopicBusProofs`**
* `TypeCorrect`, `EntriesUnique`: `Spec => []TypeOK`, `Spec => []TopicsUnique`.
* `FiresExactly` (`PlainRules`): `Spec => RulesFireExactly`. The inductive `RulesKept` says of each
  entry that its mask is the bits of the events heard and that its cache is the answer a search
  would give. `PlainRules` is needed for both: the cache of a new entry reads "key 0: no", and an
  event listed twice sets one of its two bits.

**`OsQueueProofs`**, without conditions
* `TypeCorrect`: `Spec => []TypeOK`.
* `SignalsSuffice`: `Spec => []NoWakeupLost`, inductive relative to `TypeOK`.
* `QueueImplementsFifo`: `Spec => QueueIsFifo`; `HeadAfterLast` ties the two indices to the count.

**`VfbProofs`**
* `TypeCorrect` (`FewReceivers`): `Spec => []TypeOK`.
* `MessagesInOrder`, `FailuresAreMisses` (`FewReceivers`): `DeliveredInOrder`, `MissedByFailures`,
  also with preempted countdowns and late subscriptions. `OrderKept` says that the receivers of
  the list before the item of a send have its message or were missed, the others have only
  earlier ones.
* `FramesAreCounted`, `CopiesStayIntact` (`FewReceivers`, `~Preempted`, `~LateSubscribe`):
  `FramesCounted`, `CopiesIntact`. `CountKept` says that `use_cnt` is the number of copies queued,
  callbacks under way, queues to be tried and counts not yet stored, which the proof counts as
  one finite set of uses.

**`TopicServerProofs`**, for the server and the router in it
* `TypeCorrect`: `Spec => []TypeOK`; it includes that `router_count` is the number of routes.
* `CallsAsAdded`, `EveryRouteCalled` (`~Unguarded`): `RoutesAsAdded`, `AllRoutesCalled`. The
  inductive `RoutesKept` has a part for complete entries, one for the entry being filled, which
  rests on the order of its stores, and one for each pass.
* `RelayImplementsFifo` (`~Hasty`): `Spec => RelayInOrder`: events in the hand of the one reader
  and in the ring are the queue.

**`UartProofs`**, without conditions
* `WireCarriesMessages`: `Spec => []WireInOrder`. `SendKept` counts flag and token: until a wait
  times out there is one exactly when the DMA is done and the handler has not noticed.
* `BytesAreAccounted`: `Spec => []BytesAccounted`. `RxKept` says that each stage holds an ascending
  run of bytes behind those ahead of it, and that all of them with the excused ones are what came.

**Only model-checked:** liveness, which the prover does not do: `BlockedWriterReturns`,
`SleepersServed`, `QueuesDrain`, `AcceptedAreRelayed`, `StopEnds`, `BytesMoveOn`. The modules use no
recursive operator: `From` is a closure, and the order on the line in `Uart` is said byte by byte
(`After`) rather than as a prefix of a concatenation, so that neither needs induction over data.

## 6. Where the code and its documentation disagree

Two of them have a run of their own.

* **`TriggerResize`.** `topic_bus.c:84` says the reference keeps the data from being deleted
  during the callbacks. A write of another length frees it all the same.
* **`VfbPreempted`.** `vfb_test.c:134` expects every message to arrive with the checksum it was
  sent with. A receiver preempted between its two looks at `use_cnt` sees the 0 that the last
  receiver has left, and both free the frame; one allocated in between is freed while queued.

The others show when a constant of a run is changed and the property named is the only one
checked (a stronger invariant of the run may break first):

* **A timed-out take counts as taken.** `ring_buffer.h:35` promises that `UINT32_MAX` waits
  without limit, and `ring_buffer.c:244` that a pop after the take does not fail. Check the
  invariant `UnboundedWaitNeverFails` with `RingMixed.cfg`: a read that timed out gives back a
  token it never had, and a later unbounded read takes it and fails.
* **One writer.** `topic_bus/topic_bus.md:264` claims several producers and ISR safety. With
  two writers `RingMixed.cfg` violates `RingIsFifo`: two contexts in `ring_buffer_write_isr`
  load the same index and one item is lost.
* **100 ms.** `obj_dict/obj_dict.md:344` claims that the semaphore keeps the data consistent.
  `DictStore.cfg` with `LockTimesOut = TRUE` violates `UniqueKeys`.
* **Key 0.** `topic_bus/topic_bus.md:17` says any event of an OR rule fires it. With
  `Keys = {0, 1}` and `Rules <- ZeroRules` `BusRules.cfg` violates `RulesFireExactly`: the
  cache of a new rule says "key 0: no", and 0 is a legal key.
* **Stop and start.** `Middlewares/vfb.plan.md`, section 4.3, has the server not run after a
  stop. With `Hasty = TRUE` `ServerRelay.cfg` violates `StopEnds`, as a stop before the thread
  has begun is lost, and `RelayInOrder`, as two threads read the queue.
* **Routes removed under a pass.** With `Unguarded = TRUE` `ServerRelay.cfg` violates
  `RoutesAsAdded`.

Two more are visible without a run. VFB routes are never followed (`topic_router.c:47`, 103).
`MSG_GET_PAYLOAD` (`vfb.h:45`) is the address of the field `payload_offset`, while
`vfb_send` puts the payload behind the header (`vfb.c:313`): the UART handler sends the bytes
of the pointer first and leaves out as many at the end.

## 7. What is not modelled, and why

* Weak memory. Steps are sequentially consistent; whether the relaxed loads are enough on
  a weakly ordered core is a question for another tool.
* Time. Timeouts and ages are nondeterministic.
* Contents beyond "whole or torn", flags, timestamps, diagnostics, statistics.
* The semaphore of the memory pool, which is created with a count of 2 and protects a pool
  that is only called under the semaphore of the dictionary.
* `ring_buffer_destroy`, `os_semaphore_destroy`, `os_queue_destroy`: the end of an object's
  life. `os_queue_destroy` frees the queue without waiting for the threads it has woken.
* In `Vfb`: the list that a send to an unknown event creates (it stays empty and the send
  fails), the timeout of the semaphore, receivers that share a queue.
* In `Uart`: caches, error interrupts, the shell behind the console. `Debug.c` is the same code
  over another port and is not instantiated a second time.
* `ex_list_dma.c`, which nothing in the repository calls; the other device tasks, one loop each
  over registers.
* FreeRTOS, the vendor's drivers, EasyLogger, LetterShell, TLSF: nearly all lines of the
  repository, and not its own. They appear as actions marked external where the core relies on
  them.
* Rules of 32 or more events, for which the mask expression `1U << event_count` is
  undefined.
* Timeouts of the lock of the bus in `TopicBus`, and callbacks that call the bus again.
* The placeholders in `obj_dict_storage.c`; board support, register tables, filters and
  vendored code.

## 8. Plan

1. *Done:* `RingBuffer`, `ObjDict`, `TopicTrigger`, `TopicBus`, `OsQueue`, `Vfb`,
   `TopicRouter`, `TopicServer` and `Uart` with their runs; proofs of the ring's refinement
   and of the dictionary's consistency.
2. *Done:* theorems for every safety property, action property and refinement of the passing runs
   (section 5).
3. *Then more of the model:* callbacks that call the bus, unsubscribing and cleaning up during
   a delivery, in `TopicTrigger`; a pool beside the heap for `NoBlockLost` in `ObjDict`.
4. *Then proofs about that:* which of the conditions of section 5 can be weakened, first
   `PlainRetaining` for keys whose writers agree on a length each, and `~UnsubscribeAnytime` for
   nodes other than the one being called.
