# Verification of the vvp run time

This directory holds TLA+ models of the parts of Icarus Verilog whose correctness depends on
the order in which things happen, TLC configurations that check them on small instances, and
TLAPS proofs. Icarus Verilog translates Verilog to a text file (`iverilog`: preprocessor,
parser, elaboration, optimization, code generator) and then simulates it (`vvp`). The translation
is sequential and mostly data; the simulation is an event loop with cooperative threads, nested
calls of functors, delays, cancelled events and C functions of the user that call back into it.
The models therefore start in `src/vvp`.

Paths below are relative to the repository. `PROJECT.json` maps every definition to the lines it
models and lists the runs, hazards and theorems.

## 1. Inventory

### The parts of vvp, and how they interact

| Part | State | Operations | Interacts with |
|---|---|---|---|
| Event scheduler (`vvp/schedule.cc`) | list of time cells with six queues each, lists of initialization and final events, run/stop/step flags, time | `schedule_*`, `schedule_simulate`, `schedule_finish`, `schedule_stop`, SIGINT | runs the events of everything below, which schedule more |
| Threads (`vvp/vthread.cc`) | parent, children, detached children, flags (scheduled, waiting for an event, joining, waiting in `wait fork`, ended), program counter | `%fork %join %join/detach %disable %disable/fork %wait %wait/fork %delay %end` | scheduler events hold threads; events hold lists of threads |
| Events (`vvp/event.cc`) | last bits seen by each edge functor, waiting threads, pending event controls | receive a value, `%wait`, `%event`, `schedule_evctl` | called from inside a value that is being sent; send values themselves |
| Net delays and module paths (`vvp/delay.cc`) | pending values in order of time; wake times of path inputs, current delay | receive a value or a delay, `run_run` | one scheduler event for each pending value, which cannot be taken back |
| VPI call-backs (`vvp/vpi_callback.cc`) | lists of call-backs by signal and by reason, `vpi_mode_flag` | register, remove, walk, call | user code called from inside a value change, changing values again |
| Functors (`vvp/logic.cc`, `part.cc`, `udp.cc`, `dff.cc`, `latch.cc`) | input values, pending flag, pending values of registers, the compiled table of a primitive | receive a value, `run_run` | sending a value is a nested call; a gate delays it by one scheduler event |
| Signals and nets (`vvp/vvp_net*.cc`, `resolv.cc`) | value, assign mask, force mask and value, links of a force or an assign, cached groups of drivers | receive, assign, deassign, force, release, resolve | every value passes the filter of the net on its way to the fan-out |
| Automatic contexts (`vvp/vthread.cc:440-500`, `ufunc.cc`) | live and free contexts of a scope, context stacks of a thread | `%alloc`, `%free`, fork, join, end | shared by parent and child threads |
| Islands (`vvp_island.cc`, `island_tran.cc`) | pending flag, ports, branches in rings | flag, resolve | one scheduler event for a whole network of switches |
| Memory (`slab.h`, `permaheap.cc`, `vvp_object.cc`, `vvp_darray.cc`) | free lists, reference counts, queues | allocate, free, push, pop | events are slab cells |
| Tables (`symbols.cc`, `array.cc`, `words.cc`) | B-tree of names, array words | set, get | construction, value changes of words |

### The other parts

* `ivlpp`: stacks of conditionals and include files.
* Parser and parse form, elaboration, optimization, synthesis: passes over trees and graphs.
  Only the netlist keeps state with an invariant of its own, the ring of links of a nexus
  (`net_link.cc`) with its cached guess of a constant driver (`link_const.cc`); the lexer decides
  which edge letters a primitive's table is compiled from (`lexor.lex:243-258`).
* `tgt-vvp` generates the thread code. What it generates for blocks, tasks, `disable` and event
  controls decides which programs the threads of vvp execute, so `VThread` takes its programs
  from it.
* Constant numbers (`verinum.cc`) and the expressions that `eval_tree.cc` replaces by them: no
  state, but lengths, signs and word sizes that meet in many combinations.
* System tasks (`src/vpi`): mostly output; `sys_queue.c` keeps rings of jobs and their statistics.
* Other code generators, `vhdlpp`, drivers, waveform writers, `libveriuser`, `cadpli`: input,
  output and adapters.

### What is hard

1. *Interleaving*: handlers schedule into the time step that is being run; a thread is disabled
   while it is queued, waiting, or about to be joined; `$finish`, `$stop` and interrupts come at
   any point.
2. *Nesting*: sending a value is a call. A call-back or an event control that changes a value is
   called, by the same loop over the same list, inside itself.
3. *Stale state*: pointers kept over such calls (`next`, `prev`, `last`), cached minima and
   delays, scheduler events for values that were cancelled, events that name deleted threads.
4. *Order*: of regions in a time step, of values that arrive when an older one is due, of
   assignments released by one event.
5. *Life time*: a thread is freed by its parent, by itself, or by the event that names it; a
   removed call-back by a later walk.
6. *Progress*: no wake-up may be lost; no event may be left in a list nobody looks at.

The properties that make each part correct are listed with its module in section 3.

## 2. Plan

Order: what everything else rests on comes first.

| | Modules | State |
|---|---|---|
| 1 | `Agenda` (abstract), `Schedule`, `Lemmas`, `ScheduleProofs` | done and proved, except liveness |
| 2 | `VThread`, `VThreadProofs` | done and proved, except `EndsAll` |
| 3 | `Delay`, `ModPath`, `DelayProofs` | done and proved |
| 4 | `EventControl`, `EventControlProofs` | done and proved; to add: events of automatic scopes |
| 5 | `VpiCallback`, `VpiCallbackProofs` | done and proved; to add: array words |
| 6 | `Functor`, `Networks`: gates, part selects, muxes, flip-flops and latches; the output settles on the function of the inputs | done; to prove: the pending flag and the event queue agree |
| 7 | `Context`: automatic contexts with forks, calls and ends | done; to add: contexts of `.ufunc` functors |
| 8 | `Signal`, `SignalProofs`: assign, force and release; `Udp`, `Primitives`: primitives against the meaning of their tables | done; `Signal` is proved |
| 9 | `Nexus`, `NexusProofs`: links of the netlist against a partition | done and proved |
| 10 | `SymbolTree` against a map, `Resolver` against all drivers at once | done |
| 11 | `SysQueue`: the queues of `$q_initialize` against lists; `Verinum`: constant numbers against integers | done |
| 12 | `Vector4`: the vectors of the run time against single bits and integers | done; to add: reals, casts, xor |
| 13 | `Slab`, `DynamicObject`, `Conditionals` (ivlpp), `Island` | not begun |

`Schedule` is the module that would be composed with others: `VThread`, `Context`, `Delay`,
`ModPath`, `Functor` and `VpiCallback` each contain the part of the scheduler they depend on (the
order of active events, or "at this time and not later"), and what they take for granted is what
`ImplementsAgenda`, `RunsOnTime` and `CellsInOrder` establish. A module that instantiates
`Schedule` for all of them would multiply the state spaces without adding a behaviour.

Three modules only bring others together for a run: `MCThreads` (`VThread`, `Context`,
`EventControl`), `MCNets`
(`Delay`, `ModPath`, `Signal`, `Functor`, `Udp`) and `MCStructures` (`VpiCallback`, `SymbolTree`,
`Nexus`, `Resolver`, `SysQueue`, `Verinum`, `Vector4`). Their parts share no state. A variable `part` is chosen in the initial state
and says which of them acts for the whole behaviour; the others stay in one initial state. The run
explores the sum of the state spaces of its parts. `MCThreads` extends `VThread` and `EventControl`,
`MCNets` extends `Delay`, `ModPath` and `Signal`, and `MCStructures` extends `VpiCallback` and `Nexus`, so the run checks their properties by their own
names; a property of an instantiated part is an implication from `part = ...`.

## 3. Modules, runs and what they show

### Schedule: the event scheduler

`list` is `sched_list`: a sequence of cells with `delay` (the distance from the cell before) and
six queues. `ListWith` is `schedule_event_` with its walk that subtracts distances; `ListPushed`
is `schedule_event_push_`. `Simulate` is `schedule_simulate` and `run_rosync`, one action per
branch of the loop and per event taken from a queue; `pc` says where it is, and between two
steps the handler of the event (`cur`) may call any `schedule_*` function, `$finish` or `$stop`
any number of times up to the bounds (`Client`). A SIGINT may come at any point between `signals_capture` and
`signals_revert`. The handlers themselves are the environment. `ev`, `ran` and `at` of a cell are
auxiliary: they record what was asked for.

`Agenda` is what clients rely on: a set of events with absolute times, of which one may start
when it is due and nothing that was scheduled before it, for the same time and no later region,
is left.

* Run `schedule` (three events, delays 0 to 2, all regions, `$finish`; `MaxStops` is two; stops,
  interrupts and single steps count half an event each and together with the events at most
  `MaxRequests` = 3, so three events run without a stop and two events with two): the cells
  stay sorted and correctly spaced (`CellsInOrder`), an event runs exactly when it is due
  (`RunsOnTime`), none is dropped that was asked for in time (`NoEventLost`), when read-only
  call-backs run everything asked for before has run and nothing they ask for at the present time ever does
  (`ReadOnlyLast`), `$finish` ends its time step in full (`FinishEndsStep`), every pending event runs
  or the simulation is finished (`EveryEventRuns`), and the whole implements `Agenda`
  (`ImplementsAgenda`), which contains the order of regions and that an event runs once. The
  inductive invariant of the proofs is checked as well (`IInv`). Three events with three distances
  are enough to insert before, between, at and after existing cells and to schedule into every
  queue while it is drained; two events and a stop at any point are enough to lose one of them.
  Fairness is `WF_vars(Simulate)`: the loop is a sequential program, so it goes on as long as the
  handlers return and the user answers the prompt; nothing is assumed of any single event.
* Run `schedule_late_start` finds the flaw described in section 6.

Clients ask for any event at any point. Some requests come too late (`TooLate`, and `late` of an event):
the start of a time step that has begun; in a read-only call-back, anything for the present time but
another read-only call-back or the deletion of a thread, which `schedule.cc:1011-1014` calls not legal; and, in a `cbStartOfSimulation` call-back, a
change of a net, for which `schedule_functor` still uses the list of initialization events
(`schedule.cc:980`). The scheduler takes such an event like any other, into a queue that it does not look at
again, and deletes it with its cell, for a read-only call-back with SCHEDULER ERROR
(`schedule.cc:1019-1051`); only `vpi_put_value` refuses (`vpi_priv.cc:1104-1154`). The properties say that these
are the only events that are lost, that they never run, and that they do no harm to the others: the cell that
holds them is dropped, not looked at again, and its distance stays right for the cells behind. An event
is marked where it is asked for; `StepDrained`, a part of `IInv`, says that the marks are right, for at the
places of the loop given by `pc` the marked ones are just those in queues that have been passed.

`$finish` ends the loop only when time would advance: what handlers of the same time step ask for afterwards at
that time still runs. `schedule.h:175-178` reads as if the events that remain were left out.

### VThread: threads

A thread is a record with the fields of `vthread_s`. Its program is a list of instructions, taken
from what `tgt-vvp/vvp_process.c` generates for a statement: blocks that fork and join, join any
or none, task calls, named blocks, `disable`, `disable fork`, `wait fork`, delays, waiting for and
triggering an event. A thread begins any of them as long as `MaxStatements` allows, so all short
programs are explored, not a chosen one. `active` is the active queue with lists of threads as
one event, `rest` what is left of the list being run, `waiters` the threads that wait for the
event. A `disable` runs as several actions, one per thread, as `do_disable` does.

* Run `threads`, first part (six threads, four statements, which is enough for a fork in a task in
  a fork and a disable of each): a thread is in one scheduler event at most, so the assertion in
  `vthread_mark_scheduled` holds (`QueuedOnce`); no pointer leads to a deleted thread and no ended
  thread is left over (`HandlesLive`); parents and children agree, children and joins balance and
  `%join/detach` finds no task (`FamilyAgrees`); who waits in a join or in `wait fork` has a child
  that will wake it (`NoLostWakeUp`);
  a `disable` leaves nothing running, and `wait fork` waits for all (`EndsAll`).
* Run `vthread_waitfork`: section 6.

Constants: `TaskForks` allows an unnamed fork in the body of a task. Then `FamilyAgrees` fails:
`%join/detach` of the enclosing block may find a task among its children, which is the assertion
at `vthread.cc:3467`. `DisableDetached` allows a disable to hit a scope with detached threads;
besides `NoLostWakeUp`, `FamilyAgrees` then fails (`vthread.cc:2328`), and `HandlesLive`: a detached
thread that was disabled stays with its parent (`vthread.cc:2340`), and if the parent is disabled or
ends after it, `vthread_reap` only lets go of it, so it is never deleted.

### Context: variables of automatic tasks and functions

Contexts are numbers; `live` and `free` are the two lists of each scope, `wt` and `rd` of a thread the
tops of its stacks, which `link` chains through the contexts as the code does. A context "holds"
the call whose arguments were written into it, 0 after it was reset: that is all the properties
need of the variables. The programs are what `draw_ufunc.c` and `vvp_process.c` generate: `%alloc`,
arguments (one of which may be a call of the same function), `%fork` and `%join`, or a function call
inside the opcode, reading the results, `%free`; named blocks inside and outside a task; delays in
between; `disable` of each scope at any point.

* Run `threads`, second part (one process, five threads, three calls: two calls at a time from two
  branches of a fork, and one nested in either): every call finds its own variables (`OwnContext`);
  contexts are neither lost nor in two lists (`ContextsConserved`). A call whose caller was disabled
  is never freed; the property counts these (`abandoned`) instead of forbidding them.

### Delay and ModPath: delays of nets and of module paths

`Delay` is `vvp_fun_delay`: `list` holds the pending values, `calls[t]` counts the scheduler events
for time `t`, also those whose value was cancelled. `shape` chooses the node that is compiled:
one bit with variable delays, two bits whose fall delay is longer than the rise
delay (the other way round is the same with 0 and 1 exchanged), or a real. `now`, `since`,
`least` and `in` are auxiliary: when the present input arrived and what it was; `fed` is too.
`run_run` is two steps: `RunDue` takes the event out and sends its value, `Sent` is the return of the send,
after which `initial_` is cleared. In between (`sending`) values and delays may come back to the node.

* Run `nets`, delays (delays 0 to 2, four times, three values): the cached minimum is the minimum,
  and the invariants that section 5 proves hold (`TypesOK`); every pending value has its call, and the output ends up equal to the input
  (`OutputFollows`); a pulse shorter than the delay never shows and every bit waits for
  its own delay (`PulsesRejected`). A value that comes back inside the first send is the exception (`fed`):
  `initial_` is still set, so every bit of it is compared with the first bit of the value that is being sent
  (`delay.cc:280-289, 486-487`). With `assign #(3,5) a = {a[0], b}` the first event sends {x,1}, {1,1} comes
  back, its delay is that of 1 to 1, which is none, and the other bit changes at once. Nothing says what
  should happen, so this is no finding; without the exception TLC finds `PulsesRejected` violated.
  `OutputFollows` holds of such values too.
* Run `delay_race`: section 6. `MaxRaces` is how many values may arrive at a time when a pending
  value is due but its call has not run. One race is harmless for vectors; with two,
  `SkipsRepeats` and `OutputFollows` fail. For reals `OutputFollows` fails with one
  (`delay.cc:458`), so there the bound is 0.

Values with strengths (`recv_vec8`) are plain values in the model. `get_delay` compares `value()` alone
(`delay.cc:375-383`), so a change of nothing but strengths has no delay in the code; the model has no such
change.

`ModPath` is `vvp_fun_modpath` with ordinary, edge-sensitive and `ifnone` paths, conditions that
change and a driver. The configuration has two ordinary paths, the second for the rising edge of
its input, and two `ifnone` paths. Several pending calls all send the newest value. `promised` is
auxiliary: the time by which the output should have its value, from the paths that ought to count
(`Applying`).

* Run `nets`, paths (six times, four changes): the loops that select paths select the right ones
  (`CandidatesRight`), and the output is never later than the path says (`NeverLate`).
* Run `modpath_bits`: section 6.

Wake times start at 0, and the second loop takes an `ifnone` path with an equal wake time into the
list only when that is later than the latest ordinary one, or 0 without one (`delay.cc:597`). So when
no ordinary path is enabled and no `ifnone` input has changed after time 0 (`Unwoken`), it keeps only the
first `ifnone` path, although all apply. The properties say of that case what still holds: one of
the paths that apply is chosen, and the output is not later than the slowest of them says.

### Signal: variables and wires under assign and force

`signal` is what the functor (`sig`, `assigned`), the filter (`drv`, `mask`, `force`, `fresh`, `push`) and the
readers (`seen`: what the fan-out received last; `told`: what the value change call-backs read) of
one signal hold. `Send` is the filter with its early returns, one operator for the vector, the
strength and the real version. `linked` is the fan-out of the signals it may be linked to, as
`vvp_net_t::link` and `unlink` change it; `Deliver` is what such a signal sends to the ports linked to
it. `want` and `held` are auxiliary.

* Run `nets`, signals (a vector of two bits or a real, variable or wire; forced, assigned and
  released in whole and in part; two signals to link to, one of which changes): whatever went
  before, readers and call-backs have the value of the signal (`SeenIsValue`), a forced bit has the
  value of the last force, and a linked signal follows its source (`LastForceHolds`). Two bits
  make a part and a rest; one more would repeat either. The state space is complete: nothing is
  counted.
* Run `force_link`: section 6. `Reforce` allows a force by value of a signal that is still forced
  by another one; the run `nets` has it off.

A variable that is released while it is continuously assigned keeps the forced value until the
assigned one changes again, as `opcodes.txt:988-990` describes; `held` takes these bits out of
`SeenIsValue`.

### Functor, Networks: gates and registers

A network is a graph of nodes with a fan-out in order. `f` has the inputs each functor remembers,
what it sent last, the pending flags and the two queues that matter, active events and
non-blocking assignments. `Send` and `Deliver` are the nested calls; `RunEvent` is one event of the
scheduler, `Change` a thread that writes a variable while events wait. Initial states are those
after the initialization events have run.

* Run `nets`, functors (cross-coupled nands, a nand that hears itself through a `bufz`, a mux behind
  gates, a shift register with clear, a latch in front of a flip-flop on the inverted clock; two
  events waiting when a variable changes): when nothing is pending every port has what its driver
  sent and every gate shows the function of its inputs (`Settled`); a register shows what its
  input was before the edge, told from the nets and not from what it remembers (`StoresRight`).
  The networks were chosen so that there is a loop with and without a filter, an ignored port, two
  registers on one clock in both orders of data and clock, and a chain from latch to register.
* Run `dff_edge`: section 6. `Phases` says at which level of the clock the enable and the
  asynchronous input change: "0" and "1" in `nets`, so that the clock does not change while the
  flip-flop is disabled and enabled again in between; "any" in `dff_edge`.

### Udp, Primitives: user defined primitives

A table is written as in the language, with letters and edges in parentheses. `Code` is what the
lexer makes of an edge, `Expanded` and `Edge` what vvp compiles from it, `CalculateOutput` the search
through the compiled rows in their order; `Meaning` is the reference, straight from the rows.

* Run `nets`, primitives (a flip-flop with set, a latch, a toggle with every kind of edge, a
  multiplexer; three pending events): the output is what the table says of the whole history of the
  inputs, and is shown when all events have run (`UdpFollowsTable`).

### EventControl: events and event controls

`Compile` is `compile_event`: it makes a functor and links it in front of the fan-out of each of its
inputs, so the events of a net are in the order opposite to that in which they were compiled. When all
are there threads begin to act. `calls` is the stack of the C++ calls in progress: `Deliver` is a
turn of the loop over a fan-out, and `CountDown`, `RunControl`, `DeleteControl` and `WakeThreads` are the loop over
the event controls in `waitable_hooks_s::run_waiting_threads_`, which keeps `last` in a member while the assignments
it releases send values and enter the same loop again. What a thread does (`Store`, `Trigger`, `ScheduleControl`,
`WaitFor`) begins when no call is in progress. `promised` and `due` are auxiliary: the
pending assignments as they were made, each with how often its event has still to happen, and the
threads for which an event, or one that includes it (`Including`), has happened.

* Run `threads`, third part (a rising edge, any change of two signals, a named event, an `or` event,
  compiled in any order; two pending controls, for any of these events but the named one alone
  (`Controlled`), with a count of up to two; one thread that waits for the change or for the `or` event
  (`Awaited`)): the list holds the pending assignments
  in order with their counts (`ControlsKept`), they are made in order (`InOrder`), no thread
  sleeps through its event (`WaitersWoken`), and every functor ends with the value of the signal
  (`LatestSeen`) however the calls nest. Two controls are what it takes for one to change the
  list under the other. The inductive invariant of the proofs, `EventInv`, is part of `TypesOK`.
* Run `event_abort`: section 6.

### VpiCallback: call-backs of the VPI

`next` and `head` are the list of call-backs of one signal, `mem` the life of a call-back, `lists`
the four lists of simulator call-backs, `events` those that are scheduler events. `calls` is the
stack of calls in progress with the local variables of `run_vpi_callbacks` (`cur`, `next`, `prev`,
`save_mode`). When a client function runs it may register and remove call-backs and change the
signal, which starts a walk inside the walk.

* Run `structures`, call-backs (four call-backs, three nested calls: a walk has one call-back behind
  it, one it is at, one before it and one that is new): a walk calls every live call-back it should
  and deletes every removed one (`WalkComplete`), nothing deleted is used (`NoDangling`), nothing is
  lost (`NoneLost`), and a client function finds the right mode after calls inside it (`ModeRight`).

Constants that say what clients do not do: `NestedReap` removes call-backs of the signal inside two
walks, or walks it inside a walk while it has a removed one; with it `NoDangling` fails, because
the inner walk deletes what the outer one holds (`vpi_callback.cc:709-735`). `RemoveSimulator`
removes a simulator call-back before its turn; the loops of `vpiEndOfCompile` and the others call
it although it is null (`vpi_callback.cc:456`), which also shows in `NoDangling`.

### SymbolTree, Nexus, Resolver: tables, nets, drivers

`SymbolTree` is the B-tree of `symbols.cc`, node by node with parents; `table` is the map it stands for.

* Run `structures`, trees (six symbols entered in every order, by set and by get): the search finds
  every symbol with its value and no other, and parents and children agree (`TreeIsMap`). Leaves of
  two and nodes of three entries, where the code has 254 and 508, give four levels; nodes of five
  give the binary search a choice.

`Nexus` is the ring of links of `net_link.cc`: `next_` and `nexus` of a link, `list_` and `driven_` of a
nexus. `nets` is the partition the connections make.

* Run `structures`, nets (four pins: a constant 1, a constant z, an input, a driver; connected, unlinked,
  deleted, asked for their nexus or their value in every order, without a bound on the number of
  steps): rings are the nets, every link finds its one nexus, no nexus is left over, and a cached
  guess is what would be found now, or would be without the constants of z (`RingsAreNets`). This is the
  most that holds: a constant z is a driver for `driven_value` (`link_const.cc:199`), so a constant and a z
  make a net variable, but `Nexus::connect` keeps the guess of a net when it splices in one that is driven with z, as if
  nothing drove it (`net_link.cc:75`). The theorem covers pins of all sorts, supplies and constant x included.

`Resolver` is `resolv_tri` and the wired logic of `resolv.cc`: values in a tree of groups of four.

* Run `structures`, drivers (five ports, which need a second level, of which one is never sent a
  value; z, strong 0, 1 and H and weak 1; tri, tri0, triand, trior): the net shows what all drivers
  together give, exactly when none is ambiguous (`ResolvesRight`). Two ambiguous drivers give the hull
  of the values in between, so the property asks for "at least" then.

### SysQueue, Verinum: queues of system tasks, and constants

`SysQueue` is `sys_queue.c`: `base` is its vector of rings, one action per task that changes it; `QFull`
and `QExam` are operators on the state. `log` is auxiliary: the jobs a queue should have, and when
each came and went.

* Run `structures`, queues (two queues of up to two jobs, three jobs, three times): a ring gives its
  jobs away in the order of its type and is full when it says so, and every statistic of `$q_exam` is
  exact (`QueueRight`). A word has 6 bits and the times are 0, 20 and 63, so the sum of two waiting
  times already needs the upper word. The same property checks the bit by bit division for sums that
  no short behaviour reaches, and the rounding and the overflow for every time and variable size.

`Verinum` is the arithmetic of `verinum.cc` with its bits, lengths and signs, and the folding of
expressions by `eval_tree.cc`. A state is an expression; a step evaluates it.

* Run `structures`, constants (every pair of numbers of one to four bits, signed or not, with and
  without a length, and some with an x; a long has three bits, so that numbers are shorter, as long
  and longer): the result is the one of integer arithmetic modulo 2^width, comparisons that are
  decided without knowing an operand are right, and `(a + c) - d` has the value of what it is rewritten
  to (`ConstantsRight`).

### Vector4: values of the run time

A vector is its size and two planes of words, as in `vvp_vector4_t`; bits of the last word beyond the
size have any value the code can leave there (`Dirty`). The operators are the word by word code of
`vvp_net.cc` and `vthread.cc`: copies across words, carries, `divide_bits`, the flags of comparisons,
shifts in both directions; and the arithmetic, comparison, shift and reduction functors of `arith.cc` and
`reduce.cc` with `vvp_vector2_t`. Instructions that the machine does in one operation on a word are that
operation. A state is an instruction with its operands; a step executes it.

* Run `structures`, values (words of 4 bits, so that sizes 3, 4, 7, 8 and 9 are a part of a word, a
  word, parts of two words, two words and three; words 0, 1, 8 and 15, and an x or z at either end; shifts and
  selections by every amount from before the first bit to beyond the last): every result has the bits
  of the same operation on single bits or on integers modulo 2^size (`VectorsRight`).
* Run `wide_divide`: section 6. `Unguarded` lists the operations that are tried with operands for which
  they are known to be wrong (`Right`): "div" there, none in `structures`. With "div/s", "arith/div" or
  "pow/s" in it `VectorsRight` fails as well. The smallest word divided by -1, which the machine does
  not define, is left out (`Overflows`).

## 4. Bounds

Every bound is a constant and appears as a guard: `MaxEvents`, `MaxStops`, `MaxRequests`,
`MaxThreads`, `MaxStatements`, `MaxCalls`, `MaxTime`, `MaxInputs`, `MaxRaces`, `MaxChanges`,
`MaxControls`, `MaxCount`, `MaxCallbacks`, `MaxDepth`, `MaxQueue`, `MaxPending`, `MaxAdds`. They bound how often
the environment acts, not what the code does, except `MaxDepth`, which stops a client that changes a
value in every call-back for ever. `Moving`, `Sending`, `Drives`, `Processes`, `Networks` and `Tables`
choose what is explored. `WordBits`, `HalfBits`, `LongBits` and `IntegerWidth` are the sizes of words, and
`LeafWidth` and `NodeWidth` of nodes, scaled down. `Signal`, `Functor`, `Nexus`, `Resolver`, `Verinum` and `SymbolTree` have no counter:
their runs are exhaustive for the given sets. `Sizes` and `WordValues` choose the vectors of `Vector4`, whose words and ints
have `WordBits` and `IntBits`. Deadlock is checked for `Schedule`, which has an
explicit end; the runs of several parts stop when a part has used up its bounds, so it is not
checked there, and "someone waits for ever" is stated as an invariant (`NoLostWakeUp`,
`WaitersWoken`, `OutputFollows`, `Settled`) instead.

Each property of a passing run has a mutant in the module it is about: a definition with a
plausible mistake (a dropped unlink, a distance that is not adjusted, a list that is not
cleared) with which TLC finds the property violated.

Some hazards are covered in part. The passing runs leave out what is known to go wrong, and the runs with
the expectation "violation" show it: wide divisions (`wide_divide`, not `VectorsRight`), a force by value over a force by
link (`force_link`, not `nets`). Two have no run: a simulator call-back that is removed before its turn
(`RemoveSimulator`) and the smallest long modulo -1 (`Overflows` in `Verinum`). `PulsesRejected` says nothing of the bits of
a value that comes back inside the first send.

## 5. Proofs

Each module of proofs extends the module it is about; `Lemmas` has what they share: an induction
principle for sets of naturals, the existence of a function that is defined step by step, insertion
into a sequence, removal from one, sequences without repetitions, and stacks (push, exchange the top, pop). All
theorems hold for every value of the constants that the named assumptions allow: bounds are naturals
(`MaxThreads` at least two, for the two processes), delays are naturals, of which `Delay` needs a
largest, and what clients may do are Booleans. Nothing else is assumed, except where a theorem says so.

### The scheduler (`ScheduleProofs`)

| Theorem | States | Assumes |
|---|---|---|
| `TimingHolds`, `TypeCorrect`, `OnTime`, `InOrder` | `[]Timing`, `[]TypeOK`, `[]RunsOnTime`, `[]CellsInOrder` | |
| `Invariance`, `ReadOnlySyncIsLast`, `NothingLost` | `[]IInv`, `[]ReadOnlyLast`, `[]NoEventLost` | |
| `FinishCompletes` | `FinishEndsStep` | |
| `Refinement` | `ImplementsAgenda` | |

Nothing is assumed of what handlers and call-backs ask for. `IInv` is `Timing` and `Sorted`. `Timing` is `TypeOK`, `CellsInOrder`,
`RunsOnTime`, and what makes them inductive: the lists name events that were scheduled
(`ListsKnown`), the first cell is the current one while it is being run (`CellOpen`), and handlers
run only at certain places of the loop (`HandlerPlace`). `CellsInOrder` alone is not inductive
because dropping the first cell is only right if its distance is 0, and `RunsOnTime` needs that
events are taken only from an open cell. The heart is `ListWithProperties`: inserting an event keeps
a list of cells spaced and puts the event, and nothing else, into a cell of the right time. It rests
on `RemainingValue` (what is left of the delay at cell i is the time from the cell before it to the
event; by induction over the list), `StopsAtProperties` (the walk has a place to stop) and
`InFrontInserts`, `BetweenInserts`, `AppendInserts`.

`Sorted` is what the loop of one time step relies on: every queue is in the order in which its
events have to run (`CellsSorted`), a cell has something to run or is the current one
(`CellsUsed`), what the loop has passed holds only what was asked for too late, and nothing else does
(`StepDrained`), initialization events come before the others, and no late event has run (`InitFirst`).
The three theorems follow from it: `NoEventLost` because the cell that is dropped has only late events left
(`DropCellOrders` and `TooLateDrained`), `ReadOnlyLast` because the queues before the read-only one
have been passed, `FinishEndsStep` because the loop is left at a cell that is still to come, and all that is due
lies before it (`BehindInTime`). What a step does to the order is shown
for the queues of one cell first (`EventTakenInLine`, `CellsSorted`) and then for the list (`HoldMore`: an
insertion adds one event and moves none). An event that is asked for in time goes into a queue that
has not been passed, one that is late into one that has: that is `TooLateDrained`.

The refinement maps `todo` of `Agenda` to the events of all cells and lists that were asked for in time, with their regions and
times, and its `running` to `cur`; a step of `Simulate` that takes an event is `Agenda`'s start of an event that
is due and that no other has to precede, one that drops a cell is a stutter or the advance of time,
and a `Client` step adds one.

### Threads (`VThreadProofs`)

| Theorem | States | Assumes |
|---|---|---|
| `Invariance` | `[]IInv` | |
| `TypeCorrect` | `[]TypeOK` | |
| `NeverQueuedTwice` | `[]QueuedOnce` | |
| `Families` | `[]FamilyInv` | `~ DisableDetached` |
| `HandlesStayLive` | `[]HandlesLive` | `~ DisableDetached` |
| `Waitings` | `[]WaitInv` | `~ DisableDetached`, `~ TaskForks` |
| `WakeUpsKept` | `[]NoLostWakeUp` | `~ DisableDetached`, `~ TaskForks` |
| `FamiliesAgree` | `[]FamilyAgrees` | `~ DisableDetached`, `~ TaskForks` |

`QueuedOnce` is not inductive: a parent that is woken must not be in an event already. So `IInv` says
that a thread runs, or has at most one reason not to (`OneReason`); that a thread has the room to
fork that was counted when it began a statement (`RoomToFork`), so that the thread it creates is one
that was never used (`Untouched`) and in no list; that parents are older than their children
(`Kin`), so that what is `Below` a thread does not contain the thread that wakes up, and that a child
which can still run points to its parent. `BelowYounger` is an induction over the recursive function
`Below`. There is one lemma per opcode (what it does to the family, to the flags, and to the
lists), and they do not depend on the constants that restrict the programs (`TaskForks`,
`DisableDetached`).

The second half of the module is about who belongs to whom. `FamilyInv` says of one thread when its memory is
there (`Memory`: a thread that has ended is kept by its parent or by an event that still names it,
and by nothing else), that its parent has it among the children of the right kind (`Up`) and that its
children point back (`Down`). The last holds only while somebody looks at the children (`Attended`): a thread
that ended and has no parent may keep stale pointers in its set of detached children until it is deleted. A thread
that runs has as many joins left in its code as it has children (`Owes`). `Disables` is about the
moments between two steps of a disable: the thread that disables is still running and, unless it is one of those
disabled, has not ended. The invariant of waiting (`WaitInv`) adds that a thread which waits in a join has a
child that has not ended and that the join would take, that one which waits in `wait fork` has a
detached child, and that a task is still a child when it is to be joined and is joined before a `%join/detach`.

Threads end by `%end`, `disable`, `disable fork` and inside a disable with their whole subtree. All
go through one relation, `Buried(s, u, E, O, R)`: from `s` to `u` the threads in `E` are reaped, those in `O`
end and stay to be joined, and those in `R` let go of their detached children. `BuriedMemory`,
`BuriedLinked`, `BuriedOwes` and `BuriedWaits` show once that such a change keeps the invariants,
under the conditions `Fits` (who is not detached goes with its parent, who stays has a parent). What
an opcode has to show is that it buries (`JoinEndedKeeps`, `DisableForkKeeps`, `DisableNextKeeps`,
`EndKeeps`, `ZombieKeeps`). `BelowTree` and `BelowSubtree` say what the recursive function `Below` gives
in a family: the thread, its children, theirs, and nobody else. `OpcodeCounts` and `BalancedCode`
count the forks and joins in the code of statements; a statement is balanced when it is begun
(`StatementBalanced`).

Both assumptions are about programs and are needed: with `DisableDetached` or `TaskForks` the
properties fail as section 3 tells. `HandlesStayLive` does not need `~ TaskForks`.

### Net delays and module paths (`DelayProofs`)

| Theorem | States | Assumes |
|---|---|---|
| `Invariance`, `TypeCorrect` | `[]DelayInv`, `[]TypeOK` | `OneRace` |
| `Following` | `[]FollowInv` | `OneRace`, `NoRealRace` |
| `OutputsFollow` | `[]OutputFollows` | `OneRace`, `NoRealRace` |
| `PulsesAreRejected` | `PulsesRejected` | `OneRace`, `NoRealRace` |
| `RepeatsSkipped` | `SkipsRepeats` | `OneRace`, `NoRealRace` |

They hold for every width, every set of delays and both kinds of values. `OneRace` says that at most
one value arrives in a time step while an event of that step has still to run (`MaxRaces` is at most
1), `NoRealRace` that for reals none does. Both are needed: with two the run `delay_race` finds the dropped value,
and a real that repeats the output is dropped while another is due (`delay.cc:458`).

`DelayInv` adds to the types how long the list can be: a value that arrives finds nothing, one event that is not due
and is taken away (`Free`), or one that is due and stays (`Race`), so there are never more than two
events and the first of two is due (`Arrival`). Then the calls can be counted (`Counts`): every event
has one, so when none is left for the present time no event is (`AdvanceFacts`), and time does not
leave one behind. `OutputFollows` is not inductive, as it does not say why an event may be run when its call comes;
`FollowInv` says that the latest event has the value received and has waited for it, since it was
received first: for the least delay and, with fixed delays, for that of every bit that changes (`Timely`), unless it is
`fed`. Inside the first send nothing else is on its way (`FirstSend`). The heart
is `EnqueueFollows`: the delay is computed from a reference value that is the value the
output will have by then, or the X of a node that has shown nothing yet, and the slowest bit decides
(`UseDelayFacts`). A delay that changes meanwhile lowers only `least` (`SetDelayFollows`,
`LoweredRight`).

| Theorem | States | Assumes |
|---|---|---|
| `PathInvariance` | `[]PathInv` | nothing more than `PathsAssumption` |
| `PathsAreRight` | `[]CandidatesRight` | the same |
| `NeverTooLate` | `[]NeverLate` | the same |

These hold for lists of paths of any length, any delays and any width. `PathsAssumption` only says what
the constants are. `CandidatesRight` is about two loops, folds over the lists in the model. A fold is a
recursive function, the `CHOOSE` of a fixed point (`FoldsAre`); it is proved by giving a fixed point,
the function that says for every set of visited indices what the loop has found
(`OrdinaryRight`, `ChosenGrows`), and then that two fixed points agree on `1..n` (`FoldsAgree`,
with `NatIsInductive`, which takes a set in place of a formula). What one more source changes is
`NewestGrows`. `NeverLate` is not inductive: it does not say that anything will change the output.
`PathInv` says that a call is pending by the time promised, so time cannot pass that before the call
has run. `CallInTime` is the arithmetic: the least of the times left, each cut off at 0, gives the
time promised. That the longest delay exists, which bounds the times of calls, needs that the set of
delays is finite (`DelaysOfPaths`, `FiniteBound`).

### Call-backs (`VpiCallbackProofs`)

| Theorem | States | Assumes |
|---|---|---|
| `Invariance` | `[]IInv` | |
| `ModesRight` | `[]ModeRight` | |
| `WalksComplete` | `[]WalkComplete` | `~ NestedReap` |
| `NothingLost` | `[]NoneLost` | `~ NestedReap` |
| `NothingDangles` | `[]NoDangling` | `~ NestedReap`, `~ RemoveSimulator` |

The invariant has three groups. `Nested` and `ModesSaved` say how calls nest and that every call has
saved a mode that is right for its caller: `ModeRight` is the case of the innermost call, and the
rest is what it becomes when calls return. `Places` says where a call-back is kept, by reason, state
and whether it is executed; `Pointers` and `InOrderOfAge` that pointers of the signal never lead to
call-backs of another kind, and that a new call-back is younger than all others. The third group is
about the list and the walks over it: the list has the call-backs of the signal, youngest first
(`Linked`), and each walk has all that it must still call or delete before it (`Walking`). A walk
that deletes a call-back changes the list behind the back of the others, so this group needs that
such a walk is alone (`AloneWithRemoved`), which is what `~ NestedReap` says of the clients; with
`NestedReap` the properties are false. `ListedIsSignal` connects the order of the list with `Listed`,
which follows the pointers step by step.

### Events (`EventControlProofs`)

| Theorem | States | Assumes |
|---|---|---|
| `EventInvariance` | `[]EventInv` | `InstanceAssumption` |
| `ControlsAreKept` | `[]ControlsKept` | `InstanceAssumption` |
| `WaitersAreWoken` | `[]WaitersWoken` | `InstanceAssumption` |
| `LatestIsSeen` | `[]LatestSeen` | `InstanceAssumption` |
| `MadeInOrder` | `InOrder` | `InstanceAssumption` |

`InstanceAssumption` is what a compiled program has: edge events have signals as inputs, `or` events
have events, named events none. The signals, the events, how deep `or` events are nested, and the bounds are arbitrary.

The properties speak of the moments when no value is on its way, so none of them is inductive: the
invariant has to say what holds in the middle of calls that nest to any depth. `ControlsOK` says it of the controls of one
event. When no call runs them they are as promised (`Kept`). Otherwise only the innermost of the loops over
them matters, because `last` belongs to it: those before `last` have been counted already (`Passed`), those it comes to
have not (`Ahead`), up to a control with count 0, which is one that an outer loop is running. The
innermost loop is either in no other loop over the same event, and then reaches the end of the
list (`Alone`), or stands before such a control (`Blocked`), and then it never gets to the end: it ends in the failed assertion of
`event_abort`. That is why an inner loop never wakes the threads or deletes a control behind the back of
an outer one, and why `last` is right again when an outer loop goes on. `LoopTurn` reduces a turn of the loop to the
event it is about; `ControlsElsewhere` shows that all other events keep what they have, whatever calls are
put on top. `DueReached` (a thread that should wake waits for an event that a call in progress will
reach; `IncludedBy` unfolds the closure by one `or` event) and `SeenOrSent` (a functor that
has not seen the value of a signal has a send of that signal before it) are the invariants for the threads and the
values. `RunControlMakes` shows that the assignment that is made is the first that was released.

### Signals (`SignalProofs`)

| Theorem | States | Assumes |
|---|---|---|
| `SignalInvariance` | `[]SignalInv` | `SignalAssumption` |
| `ReadersSeeTheValue` | `[]SeenIsValue` | `SignalAssumption` |
| `LastForceDecides` | `[]LastForceHolds` | `SignalAssumption`, `~ Reforce` |

`SignalAssumption` only keeps the names of values and signals apart. The theorems hold for every kind
of signal, every width, and any number of values and of signals it can be linked to; `~ Reforce` is needed, as
the run `force_link` shows.

`SeenIsValue` is not inductive for two reasons. The functor of a variable and the filter behind it
both remember the last value and drop what does not change, so a value could be dropped by one layer
that the other still needs: `LayersAgree` says that they always remember the same. And a bit that is held
after a release may be forced again, and the next value then stops at the filter: `Shown` says that such
a bit is shown right although it is `held`. `SendRight` is the heart: a value that passes the filter, with any of
its early returns, leaves right what was right, and makes right what it changes unless the filter drops
it. `ReleaseVariable` and `ReleaseWire` are the two ways back from a force. For the last force,
`LinksAgree` says that a port is linked to one signal at most, that a link of a force decides all bits,
and that a link of a continuous assignment assigns all bits.

### Nets (`NexusProofs`)

| Theorem | States | Assumes |
|---|---|---|
| `Invariance` | `[]NexusInv` | `LinksAssumption` |
| `NetsAreRings` | `[]RingsAreNets` | `LinksAssumption` |

`LinksOK` says that the pins are finitely many and that `NoLink` is no pin; the sorts of the pins are
arbitrary. The code has only pointers; the invariant gives every nexus the sequence of links that
these pointers make (`RingIn`), and says that no link is in two of them and that they are the nets
(`RingsIn`). `RingWalk` and `FindWalk` show that the walks of the code, which are recursive
functions, give just this sequence and, from each of its links, its nexus: the function that is
claimed satisfies the recursive equation, and an induction shows that no other does. `Rewired`
reduces an operation to the rings it changes. The sequences are then appended to (`AddLinkKeeps`),
concatenated (`SpliceKeeps`) or shortened (`RemovedKeeps`); `ConstantKept` is why a remembered value may stay when
only links that drive nothing come or go, and `FreeNexusExists` (a pigeonhole argument) why a link
that is not connected finds an unused nexus.

### Only model-checked

* Liveness under fairness (`EveryEventRuns`) and what the recursive operators of `Functor`
  (`Deliver`, `Drained`) and other modules compute are out of the prover's reach.
* Of the threads, `EndsAll`: it needs an invariant on the threads of a scope (every thread that can
  run is in its scope) beyond `FamilyInv`. That `HandlesLive`, `FamilyAgrees` and `NoLostWakeUp`
  fail for the other values of `DisableDetached` and `TaskForks` is found by TLC.
* Of the delays, what happens with more races than the theorems assume.
* The properties of all other modules. `Resolver`, `Vector4`, `Verinum`, `SymbolTree`, `SysQueue`
  and `Udp` are mostly functions of data; their runs enumerate it.

## 6. Findings

Runs with the expectation "violation" check one property against what the code says of itself:

* `schedule_late_start`: a `cbAtStartOfSimTime` call-back for the current time goes into a queue that
  was already drained, and is deleted with its time cell (`schedule.cc:987`, `vpi_callback.cc:377-381`).
* `vthread_waitfork`: disabling a detached thread does not tell its parent, which then waits for
  ever in `wait fork` (`vthread.cc:2342`, `opcodes.txt:1271-1273`).
* `delay_race`: `clean_pulse_events_` compares with the oldest pending value where its comment says
  the most recent one, and drops a value (`delay.cc:189-191`).
* `modpath_bits`: bits of a vector that change in different directions fail an assertion
  (`delay.cc:666`).
* `event_abort`: `a <= @(a) 0` comes upon itself in the list of event controls and fails an assertion
  (`event.cc:65`).
* `force_link`: `%force/vec4` leaves the link of an earlier `%force/link`; after `force a = b; force a = 0;`
  the signal follows `b` again (`vthread.cc:2935`, `vvp_net.h:1297-1299`).
* `dff_edge`: a flip-flop does not look at its clock while it is disabled, so it misses the edge
  after clock down, enable up, clock up, and sees one that is none the other way round
  (`dff.cc:79`, `README.txt:212-214`).

* `wide_divide`: `divide_bits` corrects an estimate that "may be 1 too big" but is too large by any
  amount, because the top word of the divisor need not be large; when the product does not fit,
  the correction ends too early and the quotient is wrong (`vthread.cc:2402-2403, 2490-2491, 2521-2523`).
  With 4-bit words 240 / 24 gives 15; with words of 64 bits it takes a dividend like 0xf0...0 in two words
  and the divisor 2^64 + 2^63. An estimate for a small top word can also take as many rounds of
  adding as it is too large.

Seen on the way, without a run of their own: the two constants above that clients have to keep
to (`NestedReap`, `RemoveSimulator`); requests that come too late for the scheduler to notice, and what `schedule.h:175-178` says of `schedule_finish` (section 3, Schedule); the first send of a delay that comes back (section 3, Delay); a guess that is kept although two constants drive the net (section 3, Nexus); an unnamed
`fork ... join_none` of one statement is elaborated as that statement, so the parent waits for it
(`elaborate.cc:2913`); a function that disables the scope of its caller leaves `do_callf_void` with a
child that may be deleted (`vthread.cc:1329`); the contexts of calls whose caller is disabled stay live
for ever; `join_none` and `join_any` in an automatic scope fail an assertion (`vthread.cc:3478`);
releasing a part of a signal removes a force link of the whole ("XXXX Can't really do this",
`vthread.cc:4959`); deassigning a part of a variable that is not assigned fails an assertion
(`vvp_net_sig.cc:287-296`); when an ambiguous driver reaches as far as a clear one of the same
strength, the resolver keeps what the clear one should have swept up (`vvp_net.cc:3602-3632`), so the
drivers of `Resolver` do not include that pair; a time that does not fit a signed variable of 34 to 63
bits is replaced by a value that is not "the maximum positive value" (`sys_queue.c:748-749, 767`), so
`QueueRight` does not look at it; `%` divides the smallest long by -1, which `/` takes care not to
do (`verinum.cc:1444, 1517`); `div_mod` of `vvp_vector2_t`
shifts its mask out when a number above 2^(wid-1) is divided by 1, and gives 0 (`vvp_net.cc:2807-2817`;
`README.txt:664-665` of vvp says "no width limits"); a power with a negative exponent is 0 when the base is
wider than an int, also for 1 and -1 (`vthread.cc:4540-4553`); `$clog2` of a negative constant is at least the width of an integer, which
the same call at run time does not do (`eval_tree.cc:1684-1685`, `vvp/vpi_priv.cc:1572`).

## 7. Not modelled

`PROJECT.json` lists every component with its reason. In the modelled parts: payloads and formats,
the slab heaps of events, functions that disable their caller, `.ufunc` functors, real and wide vector
values in `EventControl`, array words and time formats in `VpiCallback`, the conversion of values to
delays in `Delay`, partial vectors, tri-state buffers and concatenations in `Functor`, strengths in
`Signal`, automatic, string and object signals, passive pins and substitutions in `Nexus`,
full memory in `SysQueue`, reals, casts, xor, index registers and part selects with undefined bases in
`Vector4`, strings, reals and bitwise operators in `Verinum`. The rest of
vvp is in the plan; the translator is mostly data: of its passes over trees and graphs, only the
state listed above has an invariant that a sequence of steps could break, and their tests compare
output. That is why the map covers a small share of the repository's lines.
