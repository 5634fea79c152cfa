# TLA+ models of emblib

emblib is a C++ library for embedded controllers: containers and lock-free
primitives, CAN and CANopen nodes, redundant storage, fault flags, state machines,
schedulers, filters, controllers, and the mathematics of motor control. What this project
models is the code whose correctness depends on how an interrupt interleaves with a
thread, on when the power goes, on which frame is late, on what a handler does before it
returns, or on which legal calls came before; and, of the code that computes, what is
computed incrementally and has a definition to be compared with.

Contents: [the system](#the-system) · [the modules](#the-modules) ·
[conventions](#conventions) · [the runs](#the-runs) · [fairness](#fairness) ·
[the proofs](#the-proofs) · [findings and observations](#findings-and-observations) ·
[what is not modelled](#what-is-not-modelled) · [plan](#plan)

    tlc -workers 2 -config MCEepromStorage.cfg EepromStorage    # a run
    tlapm EepromStorageProofs.tla                               # a proof module

## The system

### Components, their state and their operations

| component | state | operations | what is hard |
|---|---|---|---|
| `isr_spsc_inplace_queue` | `front_`, `back_` (free-running, wrap at 2^w), the slots | producer: `try_emplace`, `try_push`; consumer: `try_pop`, `front`, `clear` | two sides at every access, the wrap, object lifetime |
| `seqlock`, `isr_seqlock` | `seq_`, `value_` | `store`, `update`, `load` | torn copies, stores that overtake a load, the wrap of `seq_` |
| `triple_buffer` | `buf_[3]`, `shared_`, `write_`, `read_` | `store`, `load` | ownership of three buffers at different rates |
| `double_buffer` | `buf_[2]`, `front_` | `store`, `load` | a load that two stores overtake |
| CANopen server (NMT slave, RPDO consumer, TPDO / heartbeat / SYNC / EMCY producers, heartbeat consumer) | NMT state, `rx_queue_`, `tsdo_queue_`, a time stamp and a flag for each timer | interrupt: `enqueue_rx`; thread: `run` in seven steps, `start`, `stop`, `setup_*`, `watch` | frames that wait while timers run out, commands and callbacks in the middle of `run`, a bus that refuses frames, full queues |
| SDO server, object dictionary | the sorted dictionary, the variables, `tsdo_queue_` | `try_handle` (read, write, restore), `drain` | abort codes, cut values, dropped responses and retries |
| raw CAN node | `rx_`, `tx_`, `rx_queue_`, `now_` | interrupt: `enqueue_rx`; thread: `add_rx`, `add_periodic_tx`, `run` | as for CANopen, and slots added before the first run |
| eeprom storage | two copies of each page with their CRC, error counters | `read` (with repairs), `write` | power loss and driver errors at each of the driver calls |
| trouble registry | `shadow_`, a double buffer for each level | contexts: `set`, `reset`, `clear`; readers without a lock: `test`, `any`, `flags` | lost updates, scans over changing levels, torn flags |
| state machines v2, v3 | the state | `dispatch`, `force_transition`, `start_fsm`, `stop_fsm`, and the user's handlers | handlers that call the machine again |
| state machines sp1, sp2 | the state, a lock | `change_state`, `dispatch` | two contexts; both decide before they lock |
| scheduler | task tables with time stamps, one delayed task | `add_task`, `add_adaptive_task`, `add_delayed_task`, `reset`, `set_period`, `run` | tasks that change the table they are run from, with a time sampled earlier |
| triggered actions (`chrono`) | when the trigger was first seen | `check_and_execute` | the moment the delay is over |
| parameter registry in non-volatile memory | a hash, a value and a CRC for each parameter | `get`, `set`, `reset`, `reset_all`, `erase` | half-done writes, layouts that change with the firmware |
| `registry_mirror` | the flags of each level, as received | `store`, `clear`, its questions | answers in agreement with each other |
| containers | slots, `front_`, `size_` | push, pop, emplace, erase, resize, iterate, copy, move, assign | lifetimes of the values, wrap-around, full and empty |
| filters | a window, a sum, an output | `push`, `set_output`, `reset`, `set_smoothing` | incremental results against their definition |
| sensors | the filters of each phase, a queue of frames | interrupt: `submit`; main loop: `process` | frames that arrive while phases are processed |
| command multiplexer, ramp generator | the active source; target, output and step | `activate`, `deactivate`, `poll`; `set_target`, `update`, `set_slope`, `reset` | order of activation and polling, steps that overshoot |
| controllers, integrator | gains, limits, the integral | `push`, `reset`, setters | windup, limits and gains that change |
| registers (`mmio`), pins, actuators | a word; a pin; the desired position | `write`, `modify`, `set`, `toggle`, `clear_w1`, `clear_w0`; `command`, `in_sync` | neighbouring fields, flags that the hardware raises, polarities |
| math | none | `saturate_round`, `quantize`, `norm2pi`, ranges, per unit types | limits that the float format does not have |
| field-oriented control, units, metaprogramming, delegates, pipes, scope guards, singletons, CAN transport | little or none | real arithmetic, types, forwarding | see [what is not modelled](#what-is-not-modelled) |

### How they interact

- The **interrupt and the thread** share the SPSC queue and nothing else in both CAN
  nodes: `enqueue_rx` pushes, `run` pops. So the queue is modelled and proved by itself,
  at each access, and is a bounded sequence in `CanopenServer`, `RawNode` and, for the buffered sensor, in
  `SensorPipeline`.
- The **CANopen server** is a composition by calls: `run` drains the queue into
  `dispatch_rx`, which hands a frame to the NMT slave, the SDO server or a consumer, and
  then ticks each service in turn with the time it sampled at its begin. The services
  meet in the NMT state, which a command, a user callback or `start`/`stop` can change
  between any two of those steps. The SDO server's only tie to the rest is its response
  queue, so its requests are modelled by themselves in `SdoServer`, and in `CanopenServer`
  only the number of its responses is kept.
- The **trouble registry** publishes each level through a double buffer: writers exclude
  each other by a lock, readers take none. Both are one module, because what a reader may
  see is decided by the two together.
- The **filters** keep their windows in a `circular_buffer`: `WindowFilters` is written on
  top of `CircularBuffer`, and a **sensor** is a queue, a filter, a transform and a filter.
- The **multiplexer** drives a sink; here it is a **ramp generator**, and the two are one loop.
- The **user's code** enters through callbacks: handlers of state machines, handlers of
  frames, tasks, the eeprom driver and its CRC. A callback is modelled as the calls it may
  make.

### What makes each component correct

- Queue: no slot is touched by both sides at once; each element is built and destroyed
  once; nothing is lost, duplicated or reordered; "full" and "empty" are true; every call
  returns.
- Seqlock: a load returns, whole, a value that was the latest at a moment of the load;
  it returns once the writer stops. Triple buffer: never a torn value; the first load
  after a store gets the latest one.
- CANopen server: a peer is declared lost when, and only when, it has been silent for its
  timeout; PDOs leave the node only in operational; a stop command is obeyed; heartbeats
  keep going. Raw node: the same for its slots.
- SDO server: acknowledged writes read back; refused ones change nothing; a retry changes
  nothing; a client that waits is answered.
- Eeprom: a page survives an interrupted call; no repair destroys the last good copy; a
  read returns something that was written, and gives up only when nothing is left.
- Trouble registry: no change is lost; a scan without a lock misses nothing that stayed up
  and invents nothing; flags of several words are whole.
- State machines: entry and exit actions pair, however transitions nest; and chain,
  whichever contexts make them.
- Scheduler: a task is called when it is due and no more often than its period says; a
  delayed task is called once.
- Parameter registry: what was set reads back; what was cut short reads as one of the two
  values or as an error, never as a mixture.
- Containers: sequences, with each value constructed and destroyed once.
- Filters, triggered actions, mirror, math: what their definition says.
- Sensor: all phases' values are of the same frames.
- Multiplexer and ramp: the sink follows the active source only, and gets there.
- Controllers: within limits, and no windup. Registers: fields and flags do not disturb each
  other. Actuator: in sync means there.

## The modules

| module | stands for | size and role |
|---|---|---|
| `BoundedFifo` | what a queue between one producer and one consumer promises | abstract specification |
| `IsrSpscQueue` | `concurrent/isr_spsc_inplace_queue.hpp` | a step is an access to an index or a slot; implements `BoundedFifo` |
| `LatestValue` | what a shared value promises: each load returns a value that was the latest during it | abstract specification |
| `Seqlock` | `concurrent/seqlock.hpp`, `isr_seqlock.hpp` | word by word; the class is chosen in `Init`; implements `LatestValue` |
| `TripleBuffer` | `concurrent/triple_buffer.hpp` | word by word |
| `CanopenServer` | `can/canopen/server.hpp` and the services under `detail/` | a step is one step of `run`; the interrupt comes between any two |
| `SdoServer` | `detail/sdo_server.hpp`, `od.hpp`, `sdo.hpp` | a request is a step |
| `RawNode` | `can/raw/node.hpp` | as `CanopenServer` |
| `CanNodes` | | the three of them side by side, with the assumptions about their constants |
| `EepromStorage` | `memory/eeprom/` | a step is one driver call |
| `TroubleRegistry` | `trouble.hpp` (`registry`) with `concurrent/double_buffer.hpp` | a step is one access to the shadow, a word or a front index |
| `RegistryMirror` | `trouble.hpp` (`registry_mirror`) | a call is a step |
| `FiniteStateMachine` | `fsm/fsm_v2.hpp`, `fsm_v3.hpp` | a step is one handler's begin or return |
| `SpMachines` | `fsm/fsm_sp_cpp23.hpp` | a step is a decision, a handler or the release of the lock |
| `Scheduler` | `scheduler/basic_scheduler.hpp` | a step of `run` is the call of one task, its return or the pass over one that is not due |
| `TriggeredAction` | `chrono.hpp` | a poll is a step |
| `NvmRegistry` | `nvm.hpp` | a step is one write to the storage |
| `BoundedSequences` | what a container promises: bounded sequences | abstract specification |
| `ContainerSlots`; `CircularBuffer`, `InplaceQueue`, `InplaceStack`, `InplaceVector`; `Containers` | `container/` | slots and lifetimes; the operations of each class as operators; objects on which any of them is called. Implements `BoundedSequences` |
| `WindowFilters`, `Filters` | `filter/`, `algorithm.hpp` | the filters over a `CircularBuffer` as operators; one filter of any class, used |
| `SensorPipeline` | `sensor/` | a step is one stage of one phase |
| `CommandedRamp` | `generator/ramp_generator.hpp`, `control.hpp` | the loop of a multiplexer that drives a ramp |
| `Controllers` | `controller.hpp`, the integrator of `math.hpp` | a push or a setter is a step |
| `Registers`, `Actuators` | `mmio.hpp`; `actuator/`, `gpio.hpp` | an operation is a step |
| `Arithmetic` | `math.hpp` | operators only, and their definitions |
| `Control` | | the machines, the scheduler, the loop, the controllers, the registers and the actuators, which share nothing, side by side, with the assumptions about their constants |
| `Data` | | the containers, the filters, the sensor, the registry of parameters, the triggered action, the mirror, the triple buffer and `Arithmetic`, side by side, with the assumptions about their constants |
| `ModArith` | | remainders, the least and the largest element of a set of integers, recursion over an interval |
| `IsrSpscQueueProofs`, `SeqlockProofs`, `CanProofs`, `EepromStorageProofs`, `TroubleRegistryProofs`, `ControlProofs`, `DataProofs` | | the proofs about each module, and about each part of `CanNodes`, `Control` and `Data` |
| `MCControl`, `MCCanNodes`, `MCData` | | behaviours of one of the parts, while the others stay as they are |
| the other `MC*` | | the values TLC uses that a cfg cannot state; a module without one is checked as it is |

The correspondence, definition by definition and line by line, is the `map` of
`PROJECT.json`. In short:

**IsrSpscQueue.** `ppc` and `cpc` say where each side is in its operation, the locals of
the source (`got`, `cursor`, `bound`) are variables, `alive` is the set of constructed
slots. `TryEmplaceRoom` is the load of `front_` that finds room, `Construct` the
placement new, `Publish` the release store. `Clear` samples `back_` once and `ClearSlot`
destroys up to it, as the code does. An index is loaded with acquire and stored with
release by its single writer, the own index is relaxed and seen by nobody else in
between: the accesses are therefore interleaved as sequentially consistent.

**Seqlock, TripleBuffer.** A value is a function on `Words`, copied in any order; a value
that is stored has one content in all words, so that a mixture shows. For `isr_seqlock`
the reader cannot run while the writer is in a store (it is the one that is interrupted),
which is why signal fences suffice there. `candidates`, `owed` and `fresh` are ghosts.

**CanopenServer.** `pc` walks through `run`: `drain`, `rpdo`, `tpdo`, `sdo`, `heartbeat`,
`sync`, `watch`. `DispatchNmt`, `DispatchSdo`, `DispatchRpdo`, `DispatchHeartbeat` and
`DispatchIgnored` are the cases of `dispatch_rx`. A loop over slots is one step, because the
interrupt shares only the queue. Configuration calls come between runs, or inside `run` from
callbacks. A refused frame is the parameter `ok` of `TickHeartbeat` and `TickSync`.

**SdoServer.** `Handled(r, store)` is `try_handle` as an operator: the response and the new
variables. The four data bytes are a pair (the byte an 8-bit type uses, and the rest), which
is what the cut of a value to its declared type tells apart. `Init` says of the dictionary that it
is sorted, which is what `std::sort` in `init_dictionary` leaves; `LowerBound` halves what is left of
it, as `std::lower_bound` in `find` does.

**RawNode.** `Begin` samples the clock, `Dispatch`/`Dispatched` drain the queue into the
first slot that matches, `CheckTimeout` walks the slots, `Send` the periodic frames.

**EepromStorage.** `pc` is the call, `step` its next driver call: `write` makes four (data
and CRC of the first copy, then of the second), `read` four, and a repair two. Any driver
call may fail (a read leaves nothing; a write leaves the cell old, new or `Torn`), and
`Crash` may come at any of them. A cell holds a value or `Torn`; a CRC field stands for the
CRC of its value. `candidates` and `risk` are ghosts: the values that the history lets a
read return, and how many calls were cut short since both copies were known to be equal.

**TroubleRegistry.** `Enter` takes the lock and reads the shadow, then a level is modified
and copied word by word behind its front, which is flipped. A reader scans level by level,
sampling the front and copying words. Who preempts whom is in the guards: a writer that
preempts the reader runs to its end, unless the reader has itself preempted it (`nested`).

**FiniteStateMachine.** `calls` is the stack of handlers that have not returned. The policy
(`moore`, `mealy`, `mixed`) is chosen in `Init` and decides which handlers exist and which
may call the machine: `moore` gives `on_event` a machine it cannot change.

**SpMachines.** `Decide` is what comes before the lock, `Leave` takes it and calls `finalize`
of the state that is left, `Come` sets the state and calls `initiate`, `Release` ends it.
`told` is the last handler's call and what it was told.

**Scheduler.** A time stamp is an age. `run` samples the clock, walks the tasks, then the
adaptive ones, then the delayed one, with `pc` and `index`; `calling` is set while a task
runs, and meanwhile the task may call every operation of the scheduler and time may pass
(`lag`). `credit` and `owed` are ghosts: the calls that the passed time pays for, and whether
a delayed task is still to be called.

**NvmRegistry.** The storage is a sequence of bytes, a parameter at the offset that its
predecessors' sizes give. `set` writes its three fields one after the other, `reset_all` and
`erase` go through the layout; `Interrupted` is a failed write or a power cut that leaves any
subset of the bytes written. `Update` starts a firmware with the other layout on the same
bytes, in which the parameters that keep their place keep their value. `intact` and `candidates` are ghosts.

**Containers.** An object is a record of slots, `front_`, `size_` and `sound`, which turns
`FALSE` for good at a construction over a value, a destruction of none or a read of none. The
operations are operators on such records, one per overload group of the source; `Containers`
calls any of them whose `ASSUME` holds, on objects that are copied, moved and assigned, also
to themselves.

**WindowFilters, Filters, SensorPipeline.** Samples are integers, scaled so that an exponential
filter that halves computes exactly. `start` and `samples` are ghosts that the definition is
evaluated on. In the sensor, `try_pop` takes a frame, and `submit_impl` puts it through the
stages of one phase; the interrupt's `submit` comes between any two.

**CommandedRamp, Controllers, Registers, Actuators, TriggeredAction, Arithmetic.** Numbers are
integers. `accept` of the sink is `set_target` of the ramp, and `Offer` is the program. A PI
controller has the integral gain multiplied by the time step. A register is the set of its
bits that are 1, so that masks are sets and a field is an interval; `Raise` is the hardware. An
actuator has its pins' polarities, encoders and decoders chosen in `Init`. `saturate_round`
works on a float format of three bits of mantissa, where the limits of the integer are rounded
as `float` rounds those of `int32_t`.

## Conventions

- **Time is relative.** The code only compares `now - stamp` with a period. So a stamp is
  kept as its age, and ages stop at a `MaxAge` past which every comparison is decided. There
  is no last instant, and behaviours are infinite. `lag` (`CanopenServer`) and `gap`
  (`RawNode`) are the age of the time that `run` sampled and keeps comparing with.
- **Bounds** are CONSTANTS that the header of each module marks `bound`, and stand in
  guards or in `MaxAge`; nothing else is cut off.
- **Faulty variants.** A definition whose comment begins with "Faulty" is not part of the
  specification. It is a mistake one could make in the code, and shows that the property named
  for it in `PROJECT.json` notices: TLC finds it violated with the faulty definition in place.
- **Ghosts** are marked in the variable declarations. They are written by the actions
  and read by properties only; no guard depends on one.

## The runs

Each cfg's properties, and what a pass means. States are distinct states.

| run | instance | properties | shows |
|---|---|---|---|
| `spsc_queue` | capacity 4, indices modulo 8, 2 values (114,000 states) | `NoSlotRace`, `IInv`, `ImplementsFifo`, `OperationsComplete` | the queue is a FIFO and wait-free, with no race and exact lifetimes, while both indices wrap |
| `seqlock` | 2 words, 3 values, sequence modulo 8, 3 overtaking stores | `SeqlockImplementsLatest`, `SeqlockLoadReturns` | loads are whole and current, and end |
| `triple_buffer_stale` | 2 words, 2 stores | `AlwaysLatest` (violated) | see Findings |
| `canopen_supervision` | one RPDO slot, one watched node, queue of 2, periods off or 2, lag 1 | `NoFalseTimeout`, `StopObeyed`, `SilenceDetected` | supervision is exact, and a stop command is obeyed |
| `canopen_producers` | one TPDO, heartbeat, SYNC, SDO frames | `NoStrayPdo`, `HeartbeatKeepsGoing` | producers follow the NMT state and survive a bus that refuses |
| `sdo_server` | 7 entries with all access rights, queue of 1, windows 1 and 2 | `PatientClientAnswered`, `AcknowledgedWriteReadsBack`, `RetryChangesNothing`, `OnlyPermittedWrites` | requests do what their response says, once |
| `raw_node` | 2 slots that share an identifier, one periodic frame, queue of 2 (236,000 states) | `NoFalseRxTimeout`, `SilenceReported` | time-outs are exact up to one run |
| `eeprom` | one page and its copy, 3 values (297,000 states) | `IInv`, `SurvivesOneInterruption`, `LastCopyKept`, `ReadReturnsWritten`, `CorruptOnlyIfLost` | what survives which failures |
| `trouble` | 2 writers, 2 words, 2 levels (3,000,000 states) | `NoLostUpdate`, `SteadyStatusFound`, `FoundStatusWasActive`, `FlagsWhole` | changes are atomic, scans without a lock are right about what did not move down |
| `control` | state machines, sp machines, scheduler, multiplexer and ramp, controllers, registers, actuators (98,000 states) | `EntryExitPaired`, `TransitionsChained`, `CalledAsScheduled`, `DueTaskRuns`, `SinkFollowsActive`, `NoWindup`, `FieldsAndFlagsKept`, `InSyncMeansThere` | each of these components does what it is for, in any sequence of calls |
| `data` | containers, filters, sensor, parameters, triggered actions, mirror, triple buffer of 2 words and 4 stores, math (471,000 states modulo symmetry) | `ContainersImplementSequences`, `MatchDefinitions`, `ValuesOfOneInstant`, `GetReturnsWhatWasSet`, `NoTornLoad`, `NewValueSeen` | what is stored or computed step by step is what its definition says; three buffers stay three, loads are whole, the first after a store is current |

A property may have parts with names of their own. `NoFalseTimeout` contains the invariants
it rests on, `EvidenceCounted` in `CanopenServer` and `SilenceTracked` in `RawNode` (where `CanNodes`
calls it `NoFalseRxTimeout`), as
`SeqlockImplementsLatest` contains `NumberTells`, `NoTornLoad` `ThreeBuffers`,
`NoLostUpdate` its module's `IInv`, `CalledAsScheduled` `RateBounded` and `DelayedTaskKept`; each
of them the type invariant of its module. `MatchDefinitions` joins `OutputExact` (filters),
`ExecutedWhenHeld` (triggered actions), `AnswersAgree` (mirror) and `MathExact`.

### Why the bounds are enough

- *Queue.* `IndexMod = 2 * Capacity` is the smallest wrap the code may run with, so each
  behaviour wraps; four slots let the two sides be apart, adjacent and a full window away; two
  values tell a reordering or a duplicate from the truth. The safety part is proved for
  every value of the constants.
- *Seqlock.* A load goes wrong only if the sequence number comes back to where it was:
  `MaxOverlap` stores during one attempt with `2 * MaxOverlap < SeqMod`. With 32 bits that
  is 2^31 stores during one copy, and the code accepts it as out of the question; the
  module states it as an assumption. Three overtaking stores and a modulus of 8 already
  exercise the wrap and each relative position of writer and reader.
- *Triple buffer.* The three indices have six permutations, reached with two stores and
  two loads; four stores let a buffer come around to each of its owners.
- *CANopen.* `MaxLag = 1` is a run that the clock overtakes, `Burst = 1` lets a queue of
  two overflow within a run, and a period of 2 is shorter and longer than what can have
  passed. Timers do not influence each other but through the NMT state, so one of each
  kind is enough, and the producers and the consumers are two instances of one specification.
- *Raw node.* Two slots, as the first that matches takes the frame; with two frames left from the
  run before, `MaxQueued = 2` overflows the queue of two; `MaxBoot = 3` is as long as the timeout, so that a slot added
  before the first run can time out in it.
- *SDO.* Every kind of entry and request is there; two values for each half of the data
  tell a cut value apart; a queue of one response is full after each request, and a window of two is
  one more than it holds. Proved for every dictionary, queue and window.
- *Eeprom.* Pages do not share cells, so one page is enough, and three values distinguish
  "the last", "the one before" and "the one being written". Proved for any number of both.
- *Registry.* A status at one level and one at two, in different words: a scan can be
  between levels and a copy between words. Two writers contend for the lock.
- *State machine.* The machine has no memory but its state and stack; with three states
  a nested transition can go back, forth and elsewhere, and `MaxDepth = 4` nests
  a transition in a handler of a nested one. Proved for any number of both.
- *Sp machines.* Two contexts decide in every order with respect to each other's steps; a third
  one could only wait for the same lock. With three states a stale decision differs from both ends.
- *Scheduler.* Two simple tasks let a task add the next, or the last, element of the table that
  is walked; one adaptive and one delayed task follow them. `MaxLag = 1` is a clock that moves
  on while tasks run; periods are as long as it or longer, and so are delays but for 0.
- *Multiplexer and ramp.* A step of 3 overshoots the distance between two commands, one of 1 does
  not; there are commands on both sides of the output.
- *Controllers.* The errors saturate the output on both sides, and `FloatMax = 30` is beyond all
  that a controller with an anti-windup can reach, so that one without reaches it.
- *Registers.* A field of one bit and one of two, next to each other, fill a register of three.
- *Containers.* Capacity 3 has a first, a middle and a last slot; two objects are the two sides of
  a copy or move, and two values tell an order. Proved for any number of all three.
- *Filters, sensor.* More samples than the window holds: 5 for a window of 3. In the sensor two
  phases, a queue of two frames that overflows, and windows of 2 and 3. Proved for all of them.
- *Parameters.* A layout of two parameters of different sizes, and the next firmware's of three,
  which keeps one in its place and moves the other to where bytes of both layouts are. Proved for
  any layouts and sizes.
- *Triggered actions.* `MaxTime` and `MaxPolls` of 5 let a trigger come, last longer than the
  delay of 1, go and come again.
- *Math.* A mantissa of 3 bits and integers of 7: the largest integer is no float, as
  `INT32_MAX` is not. A turn of 6 units, with angles several turns away. Proved for every format in which
  a largest integer that is no float has a nearest one.
- `CHECK_DEADLOCK FALSE` in `MCData.cfg`: filters, triggered actions, the triple buffer and
  math stop at their bounds. Everywhere else deadlock is checked.

## Fairness

- `IsrSpscQueue`, `Seqlock`: an operation that has begun goes on (weak fairness of each
  side's steps). An interrupt returns, and the thread is resumed; nobody is obliged to
  begin another operation.
- `CanopenServer`: weak fairness of the steps of `run`, which the main loop calls
  forever, and of the clock. Strong fairness of the heartbeat that the bus accepts: each tick
  tries again, and a bus that is asked again and again takes a frame at last. A bus that
  is off for good is not assumed to recover, and then no heartbeat is promised.
- `RawNode`: weak fairness of `run` and of the clock.
- `Scheduler`: weak fairness of `run` and of its steps: the main loop calls it again and again, and
  a task returns. `CommandedRamp`: weak fairness of `poll` and `update`, for the same reason.
  `MCControl` states them for behaviours of these components.
- The other specifications assume none: their properties are about what may not happen.

## The proofs

TLAPS checks seven developments, each for every value of the constants: a theorem says nothing of the
bounds of the runs. What is assumed of the constants stands in the ASSUME of each module, which the runs
evaluate.

### The queue (`IsrSpscQueueProofs`)

From `QueueAssumption`: the capacity is positive and divides the modulus of the index,
which is at least twice the capacity (the source demands a power of two).

1. *Arithmetic* (`ModArith`): division with remainder; that shifting by a multiple does not
   change a remainder; that numbers less than the divisor apart have different ones. With it,
   that wrapping does not move a slot and that a window of at most `Capacity` indices
   names different slots, also across the wrap.
2. *The inductive invariant* `IInv == TypeOK /\ LifetimeExact /\ ControlInv`. `LifetimeExact`
   says that the live slots are the window between the two sides' progress; it is not
   inductive alone, since `Construct` needs the room that `try_emplace` saw in an earlier
   step. `ControlInv` records what each side still knows in the middle of an operation: the
   producer's room can only grow, the consumer's element cannot go away.
3. *Theorems*: `TypeCorrect`, `Invariance` (`[]IInv`), `Lifetimes` (`[]LifetimeExact`), and
   `RaceFreedom` (`[]NoSlotRace`): the slots that both sides are in are at two different
   numbers of one window.
4. *Refinement*: `ImplementsBoundedFifo` (`ImplementsFifo`). `ValueInv` adds that a side's cursor
   has its slot's value in hand. Then `Publish` appends to the abstract sequence, a pop takes its
   head, and every other step leaves it: the sequence is the slots of the window, read in order, and
   `Contents` says that construction outside the window does not touch it.

### The eeprom (`EepromStorageProofs`)

From `EepromAssumption`: at least four pages, and a torn cell that matches no value (the CRC
tells it).

1. *The pages* (`PagesApart`): copies are on the device and no two share a place. `PutCell`
   says what one driver call changes, `WriteEffect` and `RepairEffect` what each step
   of a write or repair does to the two copies.
2. *The inductive invariant* `IInv /\ SurvivesOneInterruption`. `SurvivesOneInterruption`
   alone is not inductive: that a crash at the third driver call is harmless depends on the
   first two having succeeded (`WriteInv`), that a repair is harmless on the copy
   it repairs from (`RepairInv`), which a read has compared some steps before (`ReadInv`);
   and that a write may begin at all, on both copies being equal when nothing was cut short
   (`EqualWhenSettled`). The parts that quantify over pages are put into one predicate for a
   page (`PageInv`); a step leaves every page but its own alone (`OtherPage`), and each action
   has a lemma for its own page.
3. *Theorems*: `Invariance` (`[]IInv`), `OneInterruption` (`[]SurvivesOneInterruption`), and
   the action properties `LastCopy`, `ReturnsWritten` and `CorruptIfLost`, which follow from
   the invariant and from who may write (`WhoWrites`) and how calls end (`HowCallsEnd`).

### The seqlock (`SeqlockProofs`)

From `SeqlockAssumption`: the modulus is even, and no attempt of a load is overtaken by half
of it. The invariant is `NumberTells`: the number is odd exactly in a store; it differs from the
sampled one by twice the stores since; and the copied words are those of the committed value as
long as it does not differ. `SameNumber` is where `ModArith` comes in: within the bound the
number is the same only if no store came between. `ImplementsLatest`
(`SeqlockImplementsLatest`) maps `End` to the abstract store, `Load` and `Return` to the
abstract call and return, and the rest to stutters.

### The CAN nodes (`CanProofs`)

*The CANopen server*, from `ServerAssumption`. The invariant `EvidenceCounted` relates two ages: that
of the time stamp which the code keeps for a peer, and `heard`, that of the last reason to count the
peer as alive: a frame handled, a frame in the queue when `run` sampled the clock, or the node
becoming operational. The stamp is as new as the reason, or the frame is in the queue that `run` is
draining. `WhoExpires` says who can be declared lost by a step, and `LostOnlyWhenSilent`
(`NoFalseTimeout`) follows; `PdosOnlyWhenOperational` (`NoStrayPdo`) from the guard of the one step
that sends a PDO.

*The SDO server*, from `SdoAssumption`: what `init_dictionary` asserts, that no two entries have the
same key. The algorithm is proved first: `FirstNotBefore` says that the halving search of a sorted
dictionary returns the first entry that is not before the key. The search is a recursive function;
that it is right for every interval is shown by a least counterexample, the shortest interval it
fails for, since `Halved` leads to a shorter one. `Found` turns it into `EveryEntryFound`. Then
`HandledBy` tells a request by its outcome, and each theorem is about two requests one after the
other: what is written is of the type of its variable (`SdoInv`), so it reads back (`WritesReadBack`)
and is written again without a difference (`RetriesHarmless`); `WritesPermitted` and `Answered`.

*The raw node*, from `RawNodeAssumption`. The invariant `Tracked` is stronger than `SilenceTracked`:
it compares with what the node would believe if a run began now (`Reckoned`). The clock ages both
sides, a run's begin folds the gap into `lastRx`, and a frame that is dispatched begins a reckoning
that is no longer than the gap (`Anew`). A slot added later takes no frame from the earlier ones
(`OwnerStays`). `TimesOutOnlyWhenSilent` (`NoFalseRxTimeout`) follows.

### The trouble registry (`TroubleRegistryProofs`)

1. `NothingLost` (`NoLostUpdate`). `IInv`, which the run checks, says of the writer at work that
   the shadow is what the calls so far make it, and of a level nobody is at work on that its front holds
   its part of the shadow. It is not inductive: a call has to know that the levels still ahead
   are an interval that ends where it is to end (`Span`), and that a clear, while it modifies,
   has all of them ahead. Writers exclude each other by the lock, which `Alone` turns into
   "every other writer is idle".
2. *Scans.* A reader takes no lock. `ScanInv` follows the buffer that it copies from, which is in front or
   became the back one: nobody writes to that unless a writer is at this level (`Settled`). A status
   that stayed up is at a level still ahead, or at this one and then copied when its word is (`Kept`);
   what is copied was up at some moment (`SeenInv`); and the flags copied are those of one of the
   moments (`FlagsInv`). From it `ScansFindSteady`, `ScansFindActive` and `LevelReadWhole`.

### The parts of `Control` (`ControlProofs`)

- *State machines v2, v3*: `Paired` (`EntryExitPaired`). The property speaks of the handler on top of the
  stack. When it returns, the one below is on top and the property must hold of that: so the invariant
  adds that below the top there is no `on_exit`, which may not call the machine, and that an `on_exit`
  with nowhere to go is that of `stop_fsm`. With it the depth of nesting does not matter.
- *Sp machines*: `ChainOfTransitions` (`TransitionsChained`). `SpInv` says what was told last, by where the
  holder of the lock is; the stale decisions of the others do not appear in it.
- *Scheduler*, from `SchedulerAssumption` (periods and delays are counts of ticks, one of them the
  longest): `CallsKeepToSchedule` (`CalledAsScheduled`). Of each entry of a table, its time stamp and
  the credit that the passed time gives it tell how many calls it had (`Table`), through changes of the
  table in the middle of the walk; a delay runs just for a task that was added (`DelayInv`).
- *Multiplexer and ramp*, from `LoopAssumption`: `SinkObeys`, the safety part of `SinkFollowsActive`.
- *Controllers*, from `ControllersAssumption`: `IntegralStaysBounded` (`NoWindup`). That the output
  is within its limits is simple; that the integral is bounded needs the bound to survive a
  change of gains and limits between pushes, in products of unknowns. The assumption says that the
  floats leave room for the sums, as the code takes for granted.
- *Registers*, from `RegistersAssumption` (what the templates assert: fields are contiguous and apart):
  `RegistersHold` (`FieldsAndFlagsKept`). A field is an interval of bits (`FieldIsInterval`), so that
  writing it is a shift, and no bit outside it changes.
- *Actuators*: `InSync` (`InSyncMeansThere`).

### The parts of `Data` (`DataProofs`)

*The containers*, from `ContainersAssumption` (the union's other member, and a slot that was moved out
of, can be told from every value). `ContainersAreSequences` (`ContainersImplementSequences`) is a
refinement proof, for the four classes at once:

1. *Slots.* `Nth(f, k)` is the slot of the element number k + 1 of an object whose first slot is f.
   `NthFacts` says, from `ModArith`, that fewer than `Capacity` of them in a row are different, and that
   going on from one of them is the same as going on from the first.
2. *Holding.* `Holds(c, s)` says that the object c holds the sequence s: element by element in the
   slots from `front_` on, nothing in the others, and every lifetime kept so far. `PushBackHolds`,
   `PopFrontHolds`, `CopyHolds` and their like say what the effect of an operation, as one new record,
   holds.
3. *Operations.* `Pushed`, `Popped`, `Overwritten`, `Cleared`, `Filled`, `Assignment` and `Abandoned`
   say that what the code does, slot by slot, comes to that record, and that no slot on the way
   is constructed, destroyed or read that must not be. A push into a full buffer is a pop at the other end
   and then a push. `Reads` is about what is read.
4. *The invariant* `ContainersInv`: every object holds a sequence, and a stack or a vector begins at slot
   0. `Promised` turns a step that leaves the right sequence and reports the right value into one of
   `BoundedSequences`; there is a lemma for each operation, and one for the steps of each class.

*The registry of parameters*, from `LayoutsAssumption`: what `registry` asserts of layouts (no name
twice, each fits in the storage), values of the size of their type, and that a byte of a value or of an
unused storage is not taken for a byte of a CRC. `offset_of` is a sum over the layout (`Ends`), so that
frames are apart (`EndsGrow`, `FramesApart`). `GetReturnsWhatWasSet` is about whole frames, but a storage
that fails at any byte and a firmware that reads another layout's bytes make it a matter of single
bytes. The invariant `NvmInv` says that a call has written what is behind it (`Progressed`), that an intact
parameter has its frame whole (`IntactWhole`), that a byte of a CRC where the parameter has its own is
that of a candidate (`CrcsOfCandidates`), and, for the first firmware, that there is none anywhere else
(`CrcsAtHome`), which is what makes the bytes that the next firmware finds harmless. A step is followed by the
bytes that it may write (`WriteChanges`, `WriteEffect`, `TouchedKeeps`). `StorageInvariant` is
`[]NvmInv`, and `SetReadsBack` (`GetReturnsWhatWasSet`) follows: a frame that reads without an error
has a CRC of its value (`ValueReadHasCrc`).

*The triple buffer*, from `TripleBufferAssumption`. The invariant `ThreeBuffers` says that the three
indices are a permutation, and that the shared buffer and the reader's are whole. It is preserved since
an exchange permutes, and since the writer writes to its own buffer only (`ThreeBuffersAlways`).
`WholeLoads` (`NoTornLoad`) and `FirstLoadLatest` (`NewValueSeen`) follow from it and from what
`Return` returns.

*The triggered action*, from `ActionAssumption`. `ActionInv` says that the time stamp is that of the first
poll of the unbroken ones that have seen the trigger (`Since`). `ExecutesHeldTrigger` is
`ExecutedWhenHeld`, the part of `MatchDefinitions` that is about it.

*The mirror of a trouble registry*, from `MirrorAssumption`. `test` and `any` leave their loop at the first level
that decides, `worst` at the last one, and the model has the loops as recursive functions. `ScanFromLowest`
goes through the levels by `Induction`; `TestScans`, `AnyScans` and `WorstScans` say that each loop
finds what there is, and `MirrorAnswersAgree` is `AnswersAgree`, the mirror's part of `MatchDefinitions`.

*The functions of math.hpp on integers*, from `AngleAssumption`: a turn is a positive, even number of units.
`TurnsTaken` says what is left of an angle after a division towards zero, where a negative angle differs from
a positive one, and `RemainderUnique` that there is one angle in a turn that is whole turns away.
`AnglesAreNormal` and `BoundsAreKept` are `AnglesNormal` and `BoundsKept` of `Arithmetic`, for every
integer; they are the parts of `MathExact` that are not about a float format.

*The filters*, from `FilterAssumption`: samples are integers, and a window has at least one. A window that
is sorted is odd, as the code requires of it (`Classes`); that of an average need not be. `FiltersExact`
(`OutputExact`) rests on an invariant for each class, `FilterHolds`, which relates the filter to all samples
since its output was set:

1. *Windows.* `Recent` is what a window that fills up holds, `Padded` one that is full from the start.
   `RecentAppend` and `PaddedAppend` say how a sample more slides them. `Ring` says that a
   `circular_buffer` holds a sequence; `RingPushed`, `RingFilled`, `RingCleared` and `RingRead` follow it
   through `write_back_with`, `fill`, `clear` and what is read, whatever the slot the window begins at.
2. *Sums.* `SumOf` is a recursive function; `Sums` shows that there is one and `SumAppend`, `SumTail`
   what enters and leaves it. So the running sum of a moving average is the sum of its window
   (`AveragePushed`), and an average stays between the least and the largest sample (`SumBounds`).
3. *Medians.* `Sorted` is any order that sorts. `SortingOrder` shows that there is one, and
   `MiddleIsMedian`, by counting what is below and above, that its middle is a median; `MedianUnique` that
   there is no other. So what the code takes from the sorted window is `MedianOf` (`MedianPushed`), and
   three exchanges find the same (`MedianOfThree`).
4. *Smoothing.* Going half of the distance, all of it or none stays in the range (`SmoothWithin`).

*Rounding*, from `FloatAssumption`: the least value of the wide integer type is a float, and the largest is
a float or is nearer to one neighbour than to the other, as in `float` and `double` for 32 and 64 bits.
`RoundsExactly` is `SaturateRoundExact` for every float of the format. In a coarse format the limit that the
code compares with is rounded up to a number beyond the type (`LargestIsRounded`), but no float is between
the two (`CoarseGap`), so that nothing reaches `lround` that it cannot return; in a fine one the limit
is exact. A float times a power of two is a float but for its exponent (`UnlimitedTimes`), so that the same
holds of `quantize`. `PowersExist` and `PowerSum` say of `Pow2` what is needed.

*The sensor*, from `SensorAssumption`: any number of phases, any depth and any windows, the median's odd; the
unit of a code divides all averages, since the model computes with integers. The invariant `SensorInv` says of
a main loop between two frames that each phase's prefilter and filter hold what its codes in the absorbed
frames make of them (`CoreHolds`), and of one in the middle of `process` that the phases before `phase`
have the frame that was taken and the others do not yet (`PhasesHold`). `absorbed` keeps as many frames as the
two windows can depend on: `FrameLeft`, `EndsColumn` and `EndsConverted` say that no filter notices when
the oldest leaves. `ConverterInverts` says that a converter finds the value that a code stands for. `SensorValues`
is `ValuesOfOneInstant`, whatever the interrupt submits between two steps.

*Side by side*: `EachPartBehaves` says that a behaviour of `MCData` is one of each part, and
`DefinitionsAreMatched` is `MatchDefinitions`, from the theorems about the parts.

### What is only model-checked

- Liveness, which the prover does not reach with fairness: `OperationsComplete`, `SeqlockLoadReturns`,
  `StopObeyed`, `SilenceDetected`, `HeartbeatKeepsGoing`, `SilenceReported`, `DueTaskRuns`, and the end of
  `SinkFollowsActive`.

Every safety property of a run is stated by a theorem.

Induction over data is out of the provers' reach as a theorem with an operator for a parameter; where a
recursive function had to be shown right (the search of the dictionary, the loops over levels, sums, powers of
two), `Induction`, `Recursion` and `Least` of `ModArith`, which are about sets of numbers and intervals, do.

## Findings and observations

**`triple_buffer` returns older values again** (run `triple_buffer_stale`). The header says
"the reader always gets the latest committed value" (`triple_buffer.hpp:10`). `load`
exchanges unconditionally, so a second load with no store in between takes back
the buffer that the first one left, which holds an older value; with a reader faster than
the writer, loads alternate between the two. `NewValueSeen` is what does hold: the first load
after a store is current.

Observations, where the code does what its author may or may not have meant, and no document
says otherwise:

- `eeprom.cpp:175`: the results of the repair writes are not looked at. A transient error on
  the first copy makes a read return the second one, older after an interrupted write,
  and restore it. `ReadReturnsWritten` therefore settles the value only at a read whose driver
  calls all succeeded.
- Two interrupted writes without a read in between can spoil both copies: the first one the
  second copy, the second one the first. `LastCopyKept` states that nothing else can.
- `raw/node.hpp:46`: a slot added before the first run is timed from the zero of the clock
  and can time out in the first run. `NoFalseTimeout` says so.
- A frame that arrives after the dispatch loop and before its slot is checked does not save
  the slot from its timeout in this run (`raw/node.hpp:84`); the same window in the CANopen
  server is the `lag` of `NoFalseTimeout`.
- `double_buffer`: one load may be overtaken by one store, not by two; `FlagsWhole` states
  the condition, and `double_buffer.hpp:10` does too.
- `fsm_v2.hpp:276`: a transition made by `on_exit` runs `on_exit` again and leaves the states
  entered and exited unequally. `FsmAssumption` leaves such handlers out.
- `fsm_sp_cpp23.hpp:99`: both sp machines decide on a transition before they take the lock, so two
  contexts can decide in one state, and the second transition leaves a state that did not ask for
  it. `TransitionsChained` holds all the same.
- `basic_scheduler.hpp:96`: a delayed task that adds a delayed task from its own callback loses
  it, since the delay is cleared after the callback; and one added with a delay of 0 is never
  called, since 0 means "none". `DelayedTaskKept` says so.
- `circular_buffer.hpp:293`: a push into a full buffer destroys the oldest value before it
  constructs the new one; `push_back(front())` on a full buffer would read what was destroyed.
- `polyphase.hpp:12`: a reader of `values()` that interrupts the main loop can see the phases of two
  frames; `ValuesOfOneInstant` is about the main loop.
- `controller.hpp`: after the limits change, the output is the old one until the next push.
- `mmio.hpp`: a field is written by reading the register, changing it and writing it back. A
  register that an interrupt writes too needs a critical section of the caller's; the model has one
  writer besides the hardware.
- `math.hpp`: in a float format `norm2pi` of a tiny negative angle may round to a full turn; the
  angles of `Arithmetic` are integers.
- `ramp_generator.hpp`: a step smaller than the spacing of floats at the output would not move it.

## What is not modelled

- *Real arithmetic:* field-oriented control, the sine generator, trigonometry, square roots and
  conversions of units. There is no control in them, and neither TLC nor the provers have reals.
- *No state or no control:* units, metaprogramming, delegates, pipes, scope guards, singletons,
  and `timeout` of `chrono.hpp`, which is a clock compared with a duration.
- *An interface:* CAN frames and transport; the nodes that use it are modelled.
- *External:* the CAN controller's driver (a bus that delivers, drops and refuses), the eeprom
  driver, the CRC, the user's callbacks and critical sections; they are in the models as
  the choices that the code allows them.
- *Abstracted:* payloads, COB-IDs and their arithmetic, the format of errors and logs, and
  weak memory. The queue's indices are published with release and read with acquire by single
  writers; the thread fences of `seqlock` order the copy against the number; `isr_seqlock`,
  `triple_buffer` and `double_buffer` have signal fences and relaxed exchanges, which order
  accesses on one core only, and one core is what they are modelled on.
- *Rounding:* of filters, controllers and the ramp, which are over integers. `saturate_round` is
  the exception: there it is the question.

## Plan

Everything with state and control of its own is modelled, and every safety property that a run checks is
proved. What is left would widen the models:

1. The sine and the profile generators and field-oriented control, as far as they are control: which branch is
   taken, and what an angle that wraps does to them.
2. A reader of a sensor's values that interrupts the main loop, once the code says what it may see.
3. The push of a reference into the buffer that holds it, which the containers' model takes as a value.
