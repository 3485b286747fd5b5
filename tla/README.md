# A TLA+ specification of bwapi-c2

bwapi-c2 is a C ABI over BWAPI: 53 generated wrappers over players, some two
hundred pure accessors over type tables, a client lifecycle and an error
channel, all behind `extern "C"` functions no exception may leave. Most of it is
straight-line conversion code. What is hard about it is what those functions
share: a few globals, one mutex, an atomic thread id, callbacks into the host, a
game object that BWAPI's client makes and deletes, buffers that belong to a host
compiled against some other header, and ids that travel from one call to the
next. This directory specifies that part, model-checks it on small instances and
proves the results for all instances where the prover can.

## 1. Inventory

| Component | State it keeps | Operations | Interacts with |
|---|---|---|---|
| Error channel (`src/abi.cpp`) | `g_mutex`, `g_code`, `g_message` | `latch`, `bwapi_last_error`, `bwapi_last_error_message`, `bwapi_clear_last_error` | every failing export calls `latch`; the host polls |
| Callbacks (`src/abi.cpp`) | `g_error_cb`, `g_error_user`, `g_log_cb`, `g_log_user`, `t_reentrancy_depth` | the two setters, `log`, `ReentrancyScope` | `latch` and `log` call the host, which calls back |
| Thread affinity (`src/abi.cpp`) | `g_abi_thread` | `bind_abi_thread`, `unbind_abi_thread`, `on_abi_thread` | bound by connect, unbound by disconnect and a lost server |
| Client lifecycle (`src/client.cpp`) | `g_events` | connect, update, disconnect, is_connected | `BWAPI::BWAPIClient`, `BWAPI::BroodwarPtr`, the server's pipe |
| Boundary (`src/abi_internal.h`, `src/*.gen.cpp`) | none | `guard`, `game_ready`, the buffer checks, in the order `tools/abi/emit_source.py` writes them | latches on every early return |
| Handles (`src/handles.cpp`) | none | `resolve_unit`, `_player`, `_force`, `_region` | `BroodwarPtr`'s tables |
| Buffers (`src/abi_internal.h`, `src/abi.cpp`) | the caller's arrays | `write_string`, `write_ids`, `write_rows`, `write_positions` | host memory; `BWAPI_HAS_FIELD` on the host's side |
| Type tables and ids (`src/types.gen.cpp`, `src/bulk*.cpp`, `include/bwapi_c2_types.h`) | none | pure accessors, row tables, `unknown_id`, `is_valid`, packed positions | upstream's constant tables; the host goes from id to id |
| Constants across a pin bump (`spec/constants.yaml`, `src/constants.gen.cpp`, `tools/abi`) | the yaml, the header, the `static_assert`s | `--update-constants`, `regen.py`, the build, `regen_check.sh` | upstream's enumerations |
| Fixture (`tests/fixture`) | a `GameData`, an event queue, footprints | `unit`, `neutral`, `event`, `start`, `frame`, and plain field writes | BWAPI's `GameImpl`, BWEM |
| Spec tools (`tools/abi`, `bindings`) | files | load, emit, check coverage | build time only |
| BWEM surface (`include/bwapi_c2_bwem.h`) | none yet | declared; `teardown_bwem` is empty | |

What is hard:

* **Concurrency.** The error channel may be used from any thread at any time and
  has a mutex. The lifecycle and the wrappers have none: they rely on a check of
  the thread at the start of each call.
* **Re-entrancy.** `latch` calls the host in the middle of a failing call, and
  the host may call anything.
* **Failure.** The server may go away during `update`; BWAPI may throw anywhere.
* **Staleness.** Copies outlive what they were copied from: the callback pair, the
  events, a resolved object, a length the host grew its buffer to.
* **Two versions at once.** The DLL and the host have headers of their own, and
  every table row is a negotiation between them.
* **Boundaries.** Strides and caps of 0, 1 and -1, lengths at `INT32_MAX`, ids at
  the end of a class, tables and buffers at their last slot.
* **Half-done work.** `fill()` may throw at any row, and each call of the fixture
  may throw with part of its effects done.

What makes each part correct, and the property here that says it:

* Error channel: the first error since the last clear wins, with its own message
  (`ChannelCoherent`, `ReadsPaired`, `ImplementsStickyLatch`); it is announced
  once (`OneNoticePerEra`), to the pair installed (`HandlersPaired`), outside the
  mutex (`MutexHeldOnlyInside`), and what is announced is what the channel holds
  (`NoticeMatchesChannel`).
* Lifecycle: the game is touched by its owner only and never after it is gone
  (`OwnerTouches`, `NoDanglingGame`); the binding and the connection go together,
  but for a throw between the end of the one and of the other
  (`BoundIffConnected`, `ConnectTruthful`); the events are never stale
  (`SnapshotFresh`); and over all calls of all threads there is one connection at
  a time, which its owner alone moves on and ends (`ImplementsConnection`).
* Boundary: a call that has latched touches nothing more, whatever its callback
  does (`TouchesLiveGame`, `OwnerEndsConnection`); no failure is silent
  (`NeverSilent`), the first broken rule is the one reported
  (`FirstRuleReported`), from inside the failing call (`RaisesAtTheCall`), with
  the neutral value in the caller's buffer (`NeutralString`).
* Buffers: a table call changes nothing but the rows it has finished
  (`OnlyWholeRows`) and a host of any header reads in them only what the DLL put
  there (`ConsumerView`), and one that is not newer may use its array again
  (`Reusable`); a host that sizes, grows and retries ends with one whole
  answer (`TakenIsWhole`, `HostServed`), inside its buffer (`StaysInBuffer`), and a
  truncated collection is a determined one (`TruncatedIsSmallest`).
* Type tables: every id the library hands out is one it takes back, neutral
  values included (`LinkResolves`), and a row is the scalar accessors, each once
  (`RowsMirror`).
* Pin bump: what gets past the build and the regeneration check is all of
  upstream's where the header's constants fill 0 to MAX (`DenseIsComplete`).
* Fixture: the invariants `fixture.h` numbers 4 and 5 (`EveryUnitDiscovered`, and
  `NoMisalignedStack` of the units `neutral()` has placed), also after a call has thrown half way
  (`PhantomsAreHarmless`); queued events arrive once and in order
  (`DeliveredOnceInOrder`, `FrameFitsOncePumped`).
* Handles: upstream's. `handles.cpp` only refuses a null and asks `GameImpl`, so
  `Boundary` lets any id resolve or not.

The hazards of this code, with their lines and the properties that watch them,
are in `PROJECT.json` under `hazards`.

## 2. Modules

| Module | What it is |
|---|---|
| `StickyLatch` | abstract: the first-error-wins register the channel promises |
| `ErrorChannel` | `src/abi.cpp`'s channel, callbacks and depth, thread by thread |
| `ErrorChannelProofs` | theorems about `ErrorChannel`, and that it implements `StickyLatch`, fairness apart |
| `MCErrorChannel` | `ErrorChannel` on a few threads, errors and handlers |
| `Connection` | abstract: one connection at a time, with an owner, frames and events |
| `ClientLifecycle` | `src/client.cpp` with thread affinity and one wrapper's prologue |
| `ClientLifecycleProofs` | theorems about `ClientLifecycle`, and that it implements `Connection` |
| `MCClientLifecycle` | `ClientLifecycle` on a few threads, connections and frames |
| `Boundary` | the prologue of every wrapper, `guard()`, and exports called from the error callback; composes `StickyLatch` |
| `BoundaryProofs` | theorems about `Boundary` |
| `MCBoundary` | `Boundary` on two threads and one callback |
| `RowTable` | `write_rows()` byte by byte, between a host and a DLL of different headers |
| `RowTableProofs` | theorems about `RowTable` |
| `MCRowTable` | `RowTable` with a row of three fields, and every stride around it |
| `SizedCall` | the other writers, under the host loop that grows its buffer and retries |
| `SizedCallProofs` | theorems about `SizedCall` |
| `MCSizedCall` | `SizedCall` on short answers and answers around `INT32_MAX` |
| `TypeIds` | the ids of every enumeration, `Type<>`'s clamp, packed positions |
| `TypeTables` | what every type and player accessor answers with; the columns of the rows |
| `TypeWalk` | a host that goes from id to id through `TypeTables` |
| `TypeWalkProofs` | theorems about `TypeWalk`, the rows, and the packing of positions |
| `MCTypeWalk` | `TypeWalk` with ids at the edges of the classes |
| `PinBump` | the constants from upstream through yaml, header and asserts to a merge |
| `PinBumpProofs` | theorems about `PinBump` |
| `MCPinBump` | `PinBump` over nineteen enumerations |
| `Fixture` | the builder of synthetic games, its event buffer, and what a throw leaves |
| `FixtureProofs` | theorems about `Fixture` |
| `MCFixture` | `Fixture` with two types of neutral and tables of three slots |

Definitions named like an action with a suffix (`LatchCodeOverwrites`,
`UpdateThreadUnchecked`), each with a comment that begins "Mutant:", are
deliberately wrong versions of the action that follows them. They are in no
next-state relation; substituting one breaks the property `PROJECT.json` pairs
it with, which is how we know that each property depends on the code.

### ErrorChannel

A thread is at a program point, `pc[t]`: `"host"` when it runs the host's code,
`"latch"` when it has called `latch()` and wants the mutex, `"latch.code"` when
it has the mutex and has written `g_code`, `"announceError"` when it has
released the mutex and is about to enter the callback. The other exports have
points of the same kind. `stack[t]` holds the callbacks running on the thread;
a thread at `"host"` with a non-empty stack is inside a callback and may make any
call. `failure[t]` and `local[t]` are the arguments and locals of the call in
progress.

Each write under the mutex is a step of its own, because a torn pair is what the
mutex prevents and the model has to be able to show it. A critical section that
makes a single access (`bwapi_last_error`) is one step. Reading `g_error_cb` and
`g_error_user` under the mutex is one step with the last write, since nothing
under another lock writes them.

| Action | Code |
|---|---|
| `CallLatch`, `LatchAgain`, `LatchCode`, `LatchMessage`, `EnterErrorCallback` | `latch`, abi.cpp:43-58 |
| `CallLog`, `Log`, `EnterLogCallback` | `log`, abi.cpp:64-76 |
| `LeaveCallback` | the callback returns, `~ReentrancyScope` |
| `LastError`, `LastErrorMessage` | abi.cpp:183-196 |
| `ClearCode`, `ClearMessage` | abi.cpp:198-202 |
| `SetErrorCb`, `SetErrorUser`, `SetLogCb`, `SetLogUser` | abi.cpp:206-216 |

A latching call is suspended while its callback runs and afterwards only returns
its neutral value, so the stack of callbacks is all that is kept of it. That
every failing export really does nothing after its latch is the subject of
`Boundary`.

Messages are model values, and the copy of one never fails. `era` counts clears
of a latched error; it, `latchedIn` and `lastCode` exist for the properties only.

### StickyLatch

The same promise without threads, mutex or stacks: `err`, `handler`, `era` and
the set `due` of notices that are owed to a callback. `Latch` keeps the first
error and makes a notice due when a callback is installed; `Start` discharges
it; weak fairness on `Start` says that no notice is lost. `ErrorChannel` maps to
it with a latch and a clear taking effect at the write of `g_code`, and a setter
at the write of `g_error_cb` (`AbstractErr`, `AbstractHandler`, `AbstractDue`).

### ClientLifecycle

Every read or write of what the threads share is a step: connect is check, open,
bind, clear; update is the two halves of `game_ready`, clear, wait, check,
snapshot; disconnect is thread check, clear, `Client::disconnect`, unbind; a
wrapper is thread check, game check, resolve, use. `game` is `BroodwarPtr` as the
number of the `GameImpl` it points to, 0 for null, so that an object resolved
through one game and used after another has replaced it can be told apart.

BWAPI is outside the repository and modelled as this code uses it:
`Client::connect()` makes a `GameImpl`, fails without a server, may fail with
one, throws before it has made a game, and says yes at once when already
connected; `Client::update()` returns with the next frame, or finds the pipe
broken and disconnects, or throws, before or after that; `Client::disconnect()`
deletes the game, and may throw before or after that. The copy of the events may
throw as well.

`guard()` is around all three exports, so a throw may come from any of them, and
that is how far the model goes: the BWAPI this repository is pinned to throws
nowhere (docs/c-abi-plan.md:306-318, which calls the `catch` an insurance), and
OpenBW's `connect()` always does (docs/research/r6-link-closure.md:217-226). A throw
of `disconnect()`, or of an `update()` that has lost the server, skips
`unbind_abi_thread()`: the library stays bound to a thread without a connection
until that thread disconnects again or some thread connects. `leftBound` is
history and marks that, so that `BoundIffConnected` can say that nothing else
leaves the two apart.

`latch()` is one step here (`Latch`), without callbacks; `Boundary` has the
lifecycle's calls with them.

`ConnectAlone` says whether the host keeps its other threads out of the library
while one of them is in `bwapi_client_connect()`. The conventions in
`bwapi_c2_types.h` ("All calls happen on the thread that calls
bwapi_client_update()") ask for more; the code checks less. With it the checks in
the code suffice, which is what the passing run and the proofs show; without it
they do not, which is what the run `off_thread` shows.

### Connection

What a host that connects alone may think of: an `owner`, a `game` with its
`frame` and `events`, and who is `inside` of it. Besides `Connect` there are a
way in, `Enter`, and four ways out: `Leave` (a wrapper's call is done, or
`update` threw), `Frame`, `Snapshot`, and `End` (a disconnect, or `update` found
the server gone). The program points, the thread check, `g_abi_thread` and the
server do not occur. `ClientLifecycle` maps to it with `inside` the threads that
are about to touch the game or to take it down (`AbstractInside`), and with the
owner the thread that has made the connection and is about to be recorded, then
the recorded one (`AbstractOwner`): at the moment between `Client::connect()`
and `bind_abi_thread()` the globals say that nobody owns a connection there is.

### Boundary

Where `ErrorChannel` and `ClientLifecycle` interleave threads, this module
nests calls. `stack` holds the calls in progress and the callbacks between them,
as on the C++ stack; the frame on top runs. A call is at one of the points of the
prologue in the order `tools/abi/emit_source.py` writes them (`"buffer"`,
`"thread"`, `"game"`, `"self"`, `"other"`, `"body"`, `"return"`); a callback is
at `"host"`, where the host may call any export, clear the channel, replace the
callback or return. What an export checks is a record (`Export`): the kind of its
out buffer, whether it touches the game, how many handles it resolves. One
export of each shape stands for all that share it, since the wrappers are
generated from one template: `bwapi_player_get_name` for strings over a player,
`bwapi_weapontype_table` for row tables, and so on, and the three lifecycle
exports, whose bodies are here in one step each.

A failing check is `Fail(c)`: latch, and go to `"return"`. The channel is
`StickyLatch`'s, used through `INSTANCE` with its actions as the channel's part of
each step; that the code's channel behaves as that register, also under threads,
is what the run `channel` and `ErrorChannelProofs` show. A notice that is due
blocks the call that made it until the callback has been entered (`At` requires
`due = {}`), which is `latch` calling it before it returns.

The fields `holds`, `failed` and `era` of a frame say in which game its handle was
resolved and what it latched when; the last two exist for the properties only.
`text` is what a string buffer with room holds. `"EXCEPTION"` stands for both
codes `classify()` gives. `CallsBwapi` says which bodies reach BWAPI, and so may
throw (`Throw`): all wrappers, `update`, a `connect` that is not connected yet
and a `disconnect` on the right thread. `ThrowGone` is a throw out of `update`
or `disconnect` when the game is gone already, which leaves the thread bound.

Two assumptions. The host makes one call at a time, from any thread. A callback
does not throw: `latch` calls it inside a `noexcept` function, where an exception
would end the process. `bwapi_client_is_connected`, `bwapi_last_error` and
`bwapi_last_error_message` only read and are left out.

### RowTable

Memory is an array of cells, one per byte of the host's array and what follows
it, and a cell says where its content came from: the host, `memset()`'s zero, a
byte of a size word, a byte of a field of row `r`, or padding. With that, a torn
row, a stale byte or a write past the end is a wrong cell, whatever the values
are. `Prepare(s)` is the host taking an array and storing the size of its own row
in element zero; `Call` is `check_buffer()` and `write_rows()` up to its loop
(abi_internal.h:164-180), which reads that word once; `FillRow` is one iteration;
`FillThrows` is BWAPI throwing inside `fill()`, which `guard()` turns into 0 with
the rows so far already written; `Return` is the return. A host calls again with
an array an earlier call has filled, so the word in element zero may be one the
library wrote, or store its row size there again (`StoreSize`), as a host newer
than the DLL has to: `Call` with room for rows takes the word to be the host's own
row size, which is that contract.

What `fill()` writes is all the fields of the row. `Align` is the alignment of the
DLL's row, 1 when it is only `int32_t`s and more when it holds a `double`: then
`sizeof(Row)` has padding, which `write_rows()` copies like the rest. A host that
asks for `cap` rows has `cap` rows; one that does not breaks the C contract.

### SizedCall

`Call` is `write_string`, `write_ids` or `write_positions` in one step, since
the caller's buffer is not shared; `Converted` is what happens to the answer
before it is copied (nulls dropped and ids sorted, for `write_ids`: `Kept` and
`Order`), `Room` how much of it fits, `Needed` the length returned, which a
string clamps to `INT32_MAX` (`IntMax`); a range is one of the game's and its
size is an `int32_t`. `CallMalformed` is `check_buffer()` or
`check_string_buffer()` refusing, `CallThrows` is `guard()` with
`empty_string()` before it. The rest is the host of `bwapi_c2_types.h`'s
conventions: it takes what fits, grows to what was needed and asks again, with
the buffer as the last call left it. `Change` changes the answer between two
calls.

### TypeIds, TypeTables and TypeWalk

`TypeIds` has the ids of the 23 enumerations of the header with their holes, the
clamp of `Type<>`'s constructor (external), `unknown_id`, `id_count`, `is_valid`
and the packing of positions. `TypeTables` has one entry for each accessor in
`types.gen.cpp` and `player.gen.cpp` with the class its answer is an id of, and
the columns of each row struct with the accessor `bulk.gen.cpp` fills it from.
The values are upstream's and left out. The accessors of a class are a set of
records, so that two of one name would both be there. `TypeWalk` is a host: `Ask` and
`AskPlayer` call an accessor on the id in hand and go on with the answer, which is
any id the answer's class can hold or the export's neutral value; `ReadTable` reads
a table into an array of some size and `LookUp` follows a column of it.

Left out are the accessors `TypeTables` does not need: the queries of the largest
unit size, and `bwapi_text_is_color`.

### PinBump

`upstream`, `spec`, `header` and `asserted` are the enumeration in BWAPI's headers,
in `constants.yaml`, in `bwapi_c2_types.h` and in `constants.gen.cpp`. Upstream
adds an enumerator in a hole, inserts one and renumbers, or removes one; somebody
edits a generated constant; `UpdateConstants` is `draft_spec.py
--update-constants`, `Regen` is `regen.py`. Each may happen in any order or be
forgotten. `Merge` needs the build (`Builds`: each assert names an enumerator that
exists on both sides with the same value) and `tests/regen_check.sh`
(`RegenClean`). Names that begin with two underscores are not exported
(`Exportable`). A name is represented by its present value.

### Fixture

`units`, `footprints`, `events` and `consumed` are `data->units`,
`neutral_footprints_`, `data->events` and `pending_consumed_`; `known` is external,
the units `GameImpl` has put into its players' sets. Each action is a whole call
with all its throws, and leaves what had been written before the throw:
`neutral()` records the footprint, then allocates the unit, then queues the event,
and any of the last two may throw (fixture.cpp:220-230). `frame()` queues a
MatchFrame and the events that were queued after the last batch; the first that
finds the buffer full ends it. `require_not_started` is every builder call after
`start()`. `accepted`, `delivered` and `threw` are history.

`unit()` refuses an owner outside 0 to 11 (`NoPlayer`) and takes every other, the neutral
player included. It knows no footprints, so a neutral placed by `unit(11, ...)` is
neither refused nor recorded, and `NoMisalignedStack` does not hold of it: the
property, and `PhantomsAreHarmless`, are about the units `neutral()` has placed
(`Neutrals`, by the field `by`). `Strays` are the units the scenarios give to
`unit(11, ...)`, on tiles where neutrals may stand, so that both are checked with
such units among them.

What GameImpl does with a batch is external: it delivers the events in order, and
a UnitDiscover puts a unit in its player's set.

## 3. Runs

| Run | Bounds | What it shows |
|---|---|---|
| `channel` | 2 threads, 2 errors, 2 error handlers and NULL, 1 log handler, depth 1, 1 clear, fairness | No torn pair of globals, no callback under the mutex, polled pairs match; the channel implements `StickyLatch`, liveness included; the mutex is always released |
| `nested` | 2 threads, 2 errors, 1 handler and NULL, depth 3, 3 clears | Callbacks that latch and clear from inside callbacks: one notice per era, depth equals nesting |
| `null_disables` | as `channel`, no log callback | A finding: see section 6 |
| `lifecycle` | 3 threads, 2 connections, 2 frames, `ConnectAlone` | The thread checks protect the game for a host that connects alone, and the whole implements `Connection` |
| `boundary` | 2 threads, 1 callback and NULL, stack of 4 frames, 2 connections, 1 clear | Every shape of export, every way to fail, and every call again from the callback |
| `off_thread` | 2 threads, `ConnectAlone` false | A finding |
| `row_table` | a row of 3 two-byte fields, strides -1 to 10, caps -1 to 4, 3 rows | Older and newer hosts, a forgotten size word, an array used again, `fill()` that throws at any row |
| `row_padding` | the same with alignment 4 and strides 4, 8 and 12 | A finding |
| `sized_call` | `IntMax` 5, answers up to 13 elements, starting caps 0 to 2, 2 changes | The retry loop over answers that change, fail and do not fit an `int32_t` |
| `type_walk` | the real tables; ids -2 to 256 at the edges of the classes | Every link from accessor, row and neutral value leads to a usable id |
| `pin_bump` | the real constants of 19 enumerations, 1 to 3 changes | What gets past the build and the regeneration check lacks nothing where it fills 0 to MAX |
| `fixture` | 2 types, 4 tiles, 1 stray, 3 unit slots, 3 event slots, 5 events, 4 neutrals | Stacked, overlapping and refused neutrals, one that `unit()` places, both tables full, every throw |

Why the bounds are enough. Two threads give every overlap of two critical
sections with the unprotected step that follows one; the properties quantify
over pairs of threads, and the proofs cover more. Two errors with distinct codes
and texts, and two handlers with distinct callbacks and user pointers, make every
torn pair distinguishable. Depth 3 with 3 clears allows a callback in a callback
in a callback, each of a different era; depth 1 with full handlers allows a
replacement between the copy and the entry. In the lifecycle three threads allow
an owner, a stale caller and a third that connects; two connections allow a game
to be replaced; two frames allow a snapshot to be overwritten. In the
boundary four frames are a call, its callback, a call of the callback and the
callback of that one, which the clear in between makes possible; two connections
let a callback disconnect and connect again under a suspended call.

In `RowTable` the strides go from below the size word through every byte of the
DLL's row to two fields past it, and the caps from refused to more than the
table has. `IntMax` is 5 so that a string can be just under, at and over it, and
long enough to come out of a cast as 0 or 1. In `TypeWalk` an id at each edge of
each class stands for those between, which no rule tells apart. `PinBump` leaves
out the four largest enumerations, whose size makes the run long and which have
the shapes (dense with MAX, holes with MAX) of others that are in; one dense
enumeration and one without MAX are changed twice, so that two changes can
cancel out, and the smallest one three times: an addition, a removal that opens
a hole and a second addition. In `Fixture` three slots leave room for two units
that stack and one that fills the table; four tiles allow the same tiles, a
partial overlap on either axis and none; five events fill the buffer, are
pumped, and fill what is left.

`MaxDepth`, `MaxEra`, `MaxGames`, `MaxFrames`, `MaxChanges`, `MaxAccepted` and
`MaxNeutrals` are the only bounds and occur only in guards: of `CallLatch`,
`CallLog`, `CallClear`, `ConnectOpens` and `UpdateFrame`, of `Invoke`,
`ClearLastError` and `ConnectOpens` in `Boundary`, of `Change` and `CallThrows` in
`SizedCall`, of `Change` and `EditHeader` in `PinBump`, and of `Next` in `Fixture`.
`MemBytes`, `TableSize` and `MAX_EVENTS` are sizes of things, not bounds.
A run with symmetry checks no liveness.

Deadlock is checked in every run: a host can always make some call.

## 4. Fairness

`ErrorChannel`'s `FairSpec` assumes that each thread inside the library goes on
when it can (`WF_vars(LibraryStep(t))`): the operating system runs it. Nothing is
assumed of the host, which need not call and whose callbacks need not return, and
no strong fairness of `std::mutex` is assumed. Under this `MutexReleased` holds
because every critical section is straight-line code, and `StickyLatch`'s fairness
holds because a due notice waits for nothing but its own thread.

`SizedCall` assumes that the host's own loop runs (`WF(Call)`, `WF(AskAgain)`): it
is a program that retries until it has an answer. Changes of the answer, failures
and malformed calls are not owed and may stop at any time; the first two are
bounded, so that `HostServed` is about the time after the last one.

The other modules state safety only and assume no fairness.

## 5. Proofs

`ErrorChannelProofs` proves, for every number of threads and all constants that
satisfy the module's four assumptions, that `IInv` is an invariant
(`Invariance`) and from it each safety property the runs check. `IInv` adds to
the properties what is true at each program point:

* `LatchInProgress`: at `"latch.code"` the code is the caller's, the message is
  still empty and the era is the present one. Without it `LatchMessage` could not
  be shown to restore coherence.
* `ChannelSettled` and `HandlersSettled`: the globals match unless some thread is
  between its two writes. `ChannelCoherent` follows with `MutexHeldOnlyInside`,
  because no such thread exists while the mutex is free.
* `NoticesOfPastEras`: no notice is of a later era than the present, and none is
  of the present one while nothing is latched. This is why the latch that
  succeeds opens an era without notices, which is what makes `OneNoticePerEra`
  inductive.
* `ReadsCurrent`: a code somebody has read since the last clear is still latched.

`ClientLifecycleProofs` does the same for the lifecycle under `ConnectAlone`.
Its `IInv` says how far a check still holds at each later point
(`ChecksStillHold`): a thread past the thread check is either the owner or has
passed while there was no connection and none has been made since. That is not
inductive if connect may overlap another call, which is exactly the assumption.
`BindingFollows` says at which points, and after which throws, a thread is bound
without a connection.

`LifecycleIsConnection` proves from `IInv` that the lifecycle implements
`Connection`, action by action. `OwnerMeant` and `OwnerStays` say what the mapped owner
is without its `CHOOSE`, `CallerOwns` that a thread inside a touching point is that
owner, and `InsideMoves` and `Unseen` what a step that changes only one program
point does to `inside`. `ConnectOpens` is its `Connect`: the bind and
the clear that follow are not seen. `DisconnectClient` is its `End`, which needs that
nobody else is inside, so that no call goes on with a deleted game, and that the
events are gone already. `ConnectionPromises` proves of `Connection` alone that only
the owner is inside, in the present game, with events of its present frame, and
`HostMayRely` puts the two together. `OnlyTheOwnerDisconnects` is the part of it one
line of client.yaml states.

`BoundaryProofs` proves `IInv` of `Boundary` and from it every property of the run
`boundary`, for any depth of nesting. What makes it inductive:

* `Suspended`: below the top of the stack there are only callbacks and calls at
  `"return"`. A step of the top frame may disconnect or connect; it cannot hurt
  the frames below, because they touch nothing any more.
* `DueAtTheTop`: a notice that is due is unique and is the failure of the call on
  top, so the callback that is pushed belongs there.
* `BoundWhileConnected`: a connection has a bound thread. The converse fails after
  `ThrowGone`.
* `Progress`: what the checks a call has passed still guarantee at each point;
  with one call at a time they hold until the body, which is the difference to
  `ClientLifecycle`.

`StillOK` (a suspended frame keeps its properties), `RunningStep`, `PushStep`,
`PopStep` and `ChannelStep` are the five ways a step can move the stack; each
action is an instance of one of them.

`ChannelIsStickyRegister` is `Spec => StickyRegister`, `StickyLatch` without its
fairness. `ErrMeaning`, `HandlerMeaning` and `DueMeaning` say what the mapped
variables are without the `CHOOSE`, by `MutexHeldOnlyInside`. Three actions are
steps of the register always (`LatchCode`, `SetErrorCb`, `EnterErrorCallback`),
`ClearCode` when something is latched, and the rest are not seen. That entering a
callback discharges exactly one notice needs `OneNoticePerEra` and
`NoticesOfPastEras`: no other thread can owe an equal one.

`RowTableProofs` proves every property of `row_table` for rows, words, strides,
caps and tables of any size. TLC checks one layout; what the proof adds is the
arithmetic of `r * stride + off`. `Placed` (the array is inside the memory and
`dst` is at row `i`), `Complete` (a call that returned has written all the rows it
had room for) and `Looping` make `NoOverrun` and `RowsWhole` inductive, through
`RowsApart`: a row ends before a later one starts. From them follows
`AdvancesByStrides`: the destination is `i` strides into the host's array and never
past its end. Also proved: a field both sides have is granted (`NeverWithholds`),
and `HasFieldTruthful` for a row without padding (`TruthfulWithoutPadding`), the
run `row_padding` being what happens with it.

`SizedCallProofs` proves the three safety properties of `sized_call` for answers
of any length, any `IntMax` and any number of changes. `LoopInvariant` says that
the length the host asks with is an `int32_t`, also after it has grown;
`WrittenCells` what is in each cell after a call. What takes the work is
`std::sort`: `Order` chooses an enumeration of the indices along which the ids
do not fall, and `SortingExists` shows that there is one. An induction over the
array is out of reach here, so the place of an index is defined at once, as the
number of those before it (`Rank`); the ranks are injective into 1 to n and
therefore all of them (`RanksAreAll`), which is also why no id is left out
(`SortingIsOnto`). `OneRetryServes` is the step `HostServed` rests on: a call
that did not fit grows the buffer to one that fits what it was told, so a second
call is needed only if the answer has changed since. The one exception is a
string of `INT32_MAX` bytes.

`TypeWalkProofs` proves both properties of `type_walk`. `WalkInvariant` adds to
`LinkResolves` that a table is read whole or for one row: `Unknown` is the last
row, so an array that has the rows but not that one would break a link.
`ClassEnds` is the fact about the real constants it rests on, for all fifteen
classes: the last id is Unknown's and the MAX constant one more. The run takes
ids at the edges of the classes; the theorem any integers. `RowsMirrorAccessors`
compares the 122 columns with the accessors class by class. `PositionRoundTrip`
shows that taking a packed position apart gives its coordinates, negative ones
included, for halves of any width: a run could not go through halves of 32 bits.

`PinBumpProofs` proves the property of `pin_bump` for all 23 enumerations, the four
largest included, and for any number of changes. That what is merged has upstream's
values (the lemma `MergedHeaderIsTrue`) is what `Merge` requires and no result;
that nothing is missing does not follow from it. `DenseHeaderIsComplete` needs
`UpstreamBounded` as well:
whatever upstream does, its MAX stays above its ids, which `IdsBelowMax` says of
today's constants and one lemma each of the three kinds of change. The proof
found that the property had been stated of the wrong enumeration: one that is
dense when the pin is bumped may get a hole by a removal and an unseen addition
in it. What counts is whether the merged header is dense, as `DenseIsComplete`
now says, and the run makes the three changes it takes.

`FixtureProofs` proves every property of the run `fixture` for tables, maps and
types of any size. The invariants of the builder's own books carry it:

* `Apart`: no two recorded footprints overlap partially, and `Recorded`: the
  footprint of a unit `neutral()` has placed is on record. `NoMisalignedStack` follows from the two with
  `SharedTileIntersects`, the step from the code's rectangle test to shared tiles.
* `Occupied`: a footprint without a unit is left only by a full table.
* `Announces`: the buffer before `start()` announces all units up to the first
  that found it full. `EveryUnitDiscovered` is what `start()` makes of it.
* `Buffer`: `consumed` is 0 only while nothing has been delivered, which is the
  case `DeliveredOnceInOrder` and `FrameFitsOncePumped` set apart.

The theorems' assumptions are the named `ASSUME`s of the modules, which TLC
evaluates in every run, and `ConnectAlone` where stated.

Every safety property a passing run checks is also proved. Only model-checked is the
liveness, which is beyond the prover: `MutexReleased`, `HostServed`, and in
`ImplementsStickyLatch` that a due notice is started. Of the latter two the safety
half is proved (`ChannelIsStickyRegister`, `OneRetryServes`). The three findings of
section 6 that have a run are violations and have no theorem, except that
`TruthfulWithoutPadding` says what keeps the third from happening.

## 6. Where the documentation promises more than the code

* `NullDisables` (run `null_disables`): `latch()` enters the callback it has
  copied, also when another thread's `bwapi_set_error_callback(NULL, ...)` has
  returned since: `Disabled` means that no setter is under way any more. The
  reference entry says "NULL disables".
* `BoundThreadTouches` (run `off_thread`): the thread check passes every thread
  while unbound, so a call already past it touches the game after another thread
  has connected. `abi_internal.h` says "While bound, every call that touches the
  game must come from that thread". The same window is in
  `bwapi_client_disconnect()`, whose reference entry (client.yaml:127-129) says
  that a call from another thread tears nothing down: `ImplementsConnection` fails
  without `ConnectAlone`. Both, like the first, need a host that uses two threads
  at once, which the threading convention forbids for everything but the error
  channel.
* `HasFieldTruthful` (run `row_padding`): a row's size is
  `min(stride, sizeof(Row))`, padding included. The row that holds a `double`,
  `bwapi_unittype_row`, has four bytes of it at the end. A host whose newer header
  has an `int32_t` there is granted it by `BWAPI_HAS_FIELD` and reads what the
  DLL's padding held.
* The comment in `frame()` (fixture.cpp:266) says that events queued since the last
  frame follow the MatchFrame. In a game started with nothing queued whose buffer
  is then filled, the MatchFrame takes a slot, the last event is lost and every
  later `frame()` throws. `DeliveredOnceInOrder` makes that case an exception.
* `fixture.h` lists as its invariant 5 that neutrals occupy their own tiles unless
  deliberately stacked, and keeps it in `neutral()`. `unit()` accepts the neutral
  player (fixture.cpp:185) and does not apply it, so a scenario that places a
  mineral field by `unit(11, ...)` half on one placed by `neutral()` builds the
  misaligned stack BWEM crashes on. The properties leave such units out.
* constants.yaml:4-5 says that the constants cannot drift from upstream. That is
  so of the constants there are, which the build asserts one by one; that none is missing is only so
  while the header's constants fill 0 to a MAX (`DenseIsComplete`): in `tech_type`
  upstream may use a free id and everything still builds, and any enumeration becomes
  like that when upstream removes an enumerator.
* types.h:199 says that `src/types.gen.cpp` asserts each constant; it is
  `src/constants.gen.cpp`.

## 7. Not modelled, and what could follow

* Upstream's values: the contents of the tables, of `bulk.cpp`'s table of required
  units, and `GameImpl` beyond what the code here uses of it.
* The fixture's plain field writes (`map`, `terrain`, `player`, `start_location`)
  and the order in which its destructor tears down the game and BWEM.
* `tools/abi/check_coverage.py` and the parsing of declarations, and the text the
  emitters write; what of the latter decides behaviour at run time is in
  `Boundary` and `PinBump`.
* The language bindings, the site, the build, and the research programs under
  `docs/research`: no state and no protocol of the library.
* BWEM, whose lifecycle is declared here and not implemented yet.
* A failing allocation inside `latch()`, and a callback that throws.

What could follow: the frame loop `bwapi_c2.h` prescribes as a module over the
abstract connection, with the liveness of a host that retries; and BWEM's lifecycle
once it has a body.
