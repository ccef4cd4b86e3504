# TLA+ models of async-benches

The repository holds small network servers, written directly on mio, that were
used to compare designs for asynchronous Rust, and a few micro-benchmarks. Most
of its difficulty is in one program: `techempower-6/mio-multithread`, whose
eight threads share one poll, one table of connections and two lock-free
protocols ("WARNING: this is crazy", its source says). These modules model that
program in detail, first its two protocols apart and then together, the HTTP
connection that three servers share and their date cache, the event loop of the
two slab servers, the one-shot server, and the two micro-benchmarks.

In what follows `MT` is `src/techempower-6/mio-multithread/src/main.rs`.

## 1. Inventory

| Component | State | Operations | What is hard | What makes it correct |
|---|---|---|---|---|
| Slot event protocol (`MT` 121-191, 556-604) | per slot `events` (bit 0 = owned, other bits = posted kinds), `lock`, the `Option<Connection>` | `try_connection`, `Lock::try_lock`, drop of the guard, the assertion of `remove` | any worker may get an event of any connection, at any step of another one | one owner, no event lost, one removal, no access without the lock |
| Free list (`MT` 44-61, 80-112, 192-199) | `Server::next`, per slot `state` (0 = in use, else the link) | `insert`, `remove` | CAS loops over a list whose links change under the reader; 0 is both an index and a mark | a stack: no slot lost, none in two places, no second connection in a slot |
| Server loop (`MT` 63-78, 114-118, 522-554) | the shared poll with a level-triggered listener, a batch of events per worker | `ready`, accept loop, poll loop | events that are late for a slot that was removed, is being filled or was reused | the two protocols agree on every slot, and what a late event can break is bounded |
| `Connection` (`MT` 203-519; the same code in `mio-multithread-unix` and `mio-singlethread`) | input and output buffers, `events`, `keepalive`, `read_closed`, `closed` | `ready`, `read`, `parse`, `process`, `write` | edge-triggered readiness: what is not drained is not reported again | every request answered, in order; closed when, and only when, nothing is owed |
| Slab servers (`mio-singlethread` 26-82, 400-423; `mio-multithread-unix` 31-87, 405-440) | a slab of connections per thread | accept loop, `try_connection` | a removal and an accept within one batch; a read that leaves input, edge-triggered | tokens and connections correspond; what is not read has a wake-up |
| `naive-mio` | a slab, `State` per connection | accept, `read`, `write`, `move_forward`, `reregister` | one-shot registrations | a connection is always watched for what its state needs |
| `date.rs` (three copies) | `LAST`: text and `next_update`, per thread | `now().fmt`, `update` | staleness of the cache, several caches, a wall clock that is set | no date is two seconds old, the threads disagree by a second at most |
| `tcp-throughput` (`server`, `std`, `mio-raw`) | the counter `AMT` | write, read and poll loops, `fetch_add`, `swap` by the reporter | two threads on one counter; clients that vanish; edge-triggered reads; the end of the stream reads as Ok(0) | reported + remaining = transferred; data is read; the next client is served |
| `nested-transition-perf` | a nested and a flat state machine | `next_state` | the count of states at the ends | both loops end; how many calls each takes |
| `hyper-master`, `iron` | none of their own | a request handler | decided by the framework | - |

Interactions: a worker of `mio-multithread` polls a batch of events; for the
listener's it accepts, `insert`s the socket (free list, then lock) and calls
`try_connection` itself; for a connection's it calls `try_connection`, which
takes or defers, calls `Connection::ready` under the lock, and at the end may
call `remove` (event word, then free list). The event protocol and the free
list meet in the slot's word `state`.

`PROJECT.json` lists the hazards with their lines and the properties aimed at
them.

## 2. Modules

| Module | Models |
|---|---|
| `Slots` | what the two lock-free protocols share: workers, program counters, `state` |
| `SlotEvents` | the shared poll, `try_connection`, `Lock`, the assertion of `remove`; one action per atomic operation |
| `EventGate` | `SlotEvents` over one lifetime of every slot; its invariants and refinement |
| `SerialHandler` | abstract: one handler at a time per connection, every posted event is in the batch of a handler |
| `EventGateProofs` | the inductive invariant of `EventGate` and what follows from it; `EventGate` implements `SerialHandler` |
| `SlotList` | the CAS loops of `insert` and `remove`, one action per atomic operation |
| `SlotListProofs` | lemmas on linked lists in the table: what the links from the head visit, that a list fits, what a pop and a push leave, and what that is on the stack |
| `FreeList` | `SlotList` under workers that accept and close |
| `SlotStack` | abstract: a stack of slots with atomic pop and push |
| `FreeListProofs` | the inductive invariant of `FreeList`; `FreeList` implements `SlotStack` |
| `SharedServer` | the server: `SlotEvents` and `SlotList` over the same slots, used again and again, with the accept loop and the shared listener; all liveness of the event protocol |
| `SharedServerProofs` | the inductive invariant of `SharedServer` and what follows from it; its list implements `SlotStack` too |
| `Connection` | `Connection::ready`, `read`, `parse`, `write`, with a client and its socket |
| `ConnectionProofs` | the inductive invariant of `Connection` and what follows from it; the bounds of `DateCache` on the date of a response |
| `NaiveMio` | the whole of `naive-mio`: loop, slab, one-shot registrations, state machine |
| `NaiveMioProofs` | the inductive invariant of `NaiveMio` and what follows from it |
| `SlabServer` | the event loop of `mio-singlethread` and of a thread of `mio-multithread-unix` |
| `SlabServerProofs` | the inductive invariant of `SlabServer` and what follows from it |
| `DateCache` | the refresh rule of `date.rs` in every thread, and the wall clock |
| `Throughput` | the server and the two clients of `tcp-throughput`, with their sockets |
| `NestedTransition` | the two machines of `nested-transition-perf` and the loops that call them |
| `BenchmarkProofs` | of `Throughput`, that its counts are conserved and `mio-raw` misses no edge; of `NestedTransition`, how long the loops are |
| `MCSharedServerLive` | `SharedServer` with a bound on how often clients connect and sockets become ready |
| `MC...` | the other instances that are checked |

### State and code

*Event word.* `Slot::events` is the set of the bits that are on; `Owned` stands
for bit 0 and the members of `Kinds` for the bits of an `EventSet` shifted by
one. `fetch_or`, `swap` and `compare_exchange` are one action each
(`PostEvents`, `TakeEvents`, `Release`), between any two of which every other
worker may step. `bits[w]` and `remove[w]` are the locals of the loop. The
handler is the set of its outcomes: the registration on first use (`Register`),
keeping the connection, closing it, panicking, finding no connection. A panic
stops one thread, as in the program: `main` waits in `join` and the others run
on; the guard's drop releases the lock, nothing releases bit 0.

*Poll.* `ready[s]` are edges nobody has been told of, `batch[w]` those `w` has
been told of and has not dispatched. An edge goes to one worker. A batch
survives what other workers do to its slots: that is how an event is late.

*Free list.* `next`, `state` and the local `nxt[w]` are the code's. `End` is
`usize::max_value()`; `InUse` is 0, as in the code, so that the link to slot 0
is the in-use mark in the model too. `FreeList` adds `live`, the slots in use,
and the constant `Overlap`: without it, any number of workers accept until the
first connection closes, and from then on one at a time, while any number
close. That is as much as the list bears, see `list_double`.

*Server.* `SharedServer` keeps `SlotEvents` and `SlotList` as they are and adds
what lies between them: `backlog` (clients waiting; the listener is registered
by level, so every poll may report it), `listening` and `accepting` (workers on
their way to and in the accept loop), and the part of `insert` that takes the
slot's lock and fills it (`LockSlot`, `PutConnection`). An event is *stale* when
the connection it was polled for has been closed, and a worker is `late` while
it is in a call for one; both are history variables. The environment is calm: a
client connects when no other waits or is being inserted. The accept loop ends when
nobody waits and when `accept` fails, so `AcceptDone` may leave a client in the
queue; the listener's level brings the next worker.

*Connection.* The byte streams are counted in pieces: a request is two pieces,
so that half of one can arrive; a response is one. `script` is what kind each
request is (keep-alive, close, a path that fails the assertion, not HTTP).
`events`, `keepalive`, `readClosed`, `closed` are the fields; `taken`, `parsed`
and `cap` give the length and the capacity of `input`, `answered` and `written`
that of `output`. A read has `Room`, what `slice_to_end` makes of a full buffer; into
no room it would be Ok(0), which `ReadNothing` takes for the end of the stream as
the code does. The client sends in parts, pipelines, ends its side or
resets. `filled` is a history variable: some read has filled the buffer.

*naive-mio.* One call of `ready` makes at most one system call and nothing else
runs, so it is one action. `armed` is the one-shot registration; `down` is the
panic of the only thread.

*Slab servers.* One loop, with its listener, slab and batch; the threads of
`mio-multithread-unix` are independent copies of it. `edge` are the edges not
reported yet; an event in `batch` has, beside its token, whether its kind
includes readable. A step is one turn of a loop of the code (poll, accept, read,
return), so clients act in between. The handler is reduced to its reads and its
outcomes: `readable` is that bit of `Connection::events`, `readClosed` the field,
`partial` says that `input` holds the start of a request. A read takes any part
of what is in the socket, since the buffer may be full; the loop over the reads
goes on until one would block, one finds the end, or the input breaks off within
a request. `left` is a history variable: the last read left something in the
socket, and nothing has come since. `AcceptFails` is the other end of the accept
loop, with clients waiting.

*Date cache.* Time is counted in ticks, `Second` of them in a second; a text is
the tick at which its second begins, because `rfc822` drops the fraction.
`clock` may jump either way: `time::get_time` reads the wall clock. `date` and
`sentAt` are those of the last response of any thread.

*Throughput.* Bytes are counted in pieces. `hand[p]` is the `n` between a read
or write and its `fetch_add`; `socket`, `stream` and `edge` are the connection
as its client sees it. A client that has gone answers with a reset sooner or
later, and what is written until then is lost (`dropped`). `Stop` is the death
of the server, also by the `unwrap` of `accept`.

*Nested machines.* `next_state` of a level in `State1` returns false whatever
is inside, so a call changes the innermost level that it gets to (`Called`,
`IsDone`), and the recursion needs no recursive operator.

## 3. Runs

| Run | Instance | What it shows |
|---|---|---|
| `gate_safety` | 3 workers, 1 slot, 2 kinds | removal is unique and final, no assertion fails over a live connection, the refinement of `SerialHandler`; the inductive invariant `IInv`, with the exclusive lock, the single owner and the types in it |
| `gate_stale_event` | 2 workers, 1 slot | violated: an event finds its slot in use |
| `list` | 3 workers, 4 slots, no overlap | pops among themselves, then pushes among themselves and with one pop at a time, are those of a stack; no slot lost; lock free; the inductive invariant `IInv` |
| `list_double` | 3 workers, 3 slots, overlap | violated: one connection per slot |
| `shared` | 3 workers, 2 slots, 1 kind, symmetric workers | over all lifetimes of a slot: one owner, protocol and list agree, the list is still a stack, and only late events kill a worker; the inductive invariant `IInv`, with the exclusive lock in it |
| `shared_live` | 2 workers, 3 slots, 1 kind, 4 pieces of news (connects and edges) | new connections and posted events get to a handler, closed connections to the list; polled events get to `try_connection`, also those of a worker that is kept busy at another connection |
| `connection` | 3 requests, a buffer that begins with 1 or 3 pieces | closing is right; what `ready` leaves undone has an edge to come; every request answered, unless a read filled the buffer; the inductive invariant `IInv` |
| `connection_pipelined` | 3 requests, buffer of 3 pieces | violated: every pipelined request is answered |
| `naive` | a client with requests, one with garbage, one that only connects; 2 slab entries | one-shot registrations are never lost or misdirected; requests answered; the inductive invariant `IInv` |
| `slab` | a client that sends, two that connect and end; 2 slab entries | tokens and connections match; no input without a wake-up, but what a call left that returned within a request; clients are accepted, input is read; the inductive invariant `IInv` |
| `date` | 2 threads, 3 ticks a second, a clock of 10 ticks | no date two seconds old; threads in order within a second |
| `throughput` | one client of each kind, 4 pieces, sockets of 2 | counts conserved, no edge missed, data read, dead clients noticed, `std` ends with its stream |

**Bounds and why they are enough.**

* `gate_*`: three workers are an owner, a worker that posts, and one that is late
  with an old event; slots do not interact in the event protocol except through a
  worker's batch, and the proofs hold for any number of workers, slots and kinds.
  Two kinds tell "an event" from "the event that was taken".
* `list*`: three workers are what an ABA needs (one asleep between load and
  exchange, two to pop and push); four slots leave a list of several links
  between slot 0 and the end.
* `shared`: three workers are an owner, one that inserts, and one that is late.
  They meet at slot 0, the only one that is handed out: the second slot is the
  bottom of the list, on which `insert` panics. Two workers and three slots were
  checked as well, with the same result. What several slots add is left to the
  proofs and to `shared_live`.
* `shared_live`: three slots are two connections. Four pieces of news are, for
  instance, two clients and two edges: both edges in one batch; or the event of
  one connection in a batch with the listener's, whose worker accepts the other
  connection and owns it, and an edge by which the second worker keeps it there
  while the first event waits. They suffice for a late event at a slot that is
  used again (connect, edge, connect), and for the exception of
  `PolledIsDispatched`, a head that looks in use (three clients and an edge). The
  other three properties do not need a bound on the news: with two slots they
  were also checked without.
* `connection*`: a buffer of three pieces ends within a request; one of a single
  piece is full before the request is whole, and has to grow; the code has 2048
  bytes. `SendCap = 1` makes every second response block.
* `naive`: two entries for three clients make the slab full, tokens be reused and
  batches hold several events; `MaxSent = 3` is a request and the beginning of a
  second one.
* `slab`: the talker sends twice, so that input can arrive before, during and
  after a call of its handler, and a read may take one piece and leave the other;
  the third client reuses a token or finds the slab full.
* `date`: three ticks make a second with a beginning, a middle and an end, and ten
  ticks are three seconds, more than the two that the bounds speak of.
* `throughput`: a socket of two pieces fills up and is read in parts, four pieces
  are more than that, and the second client waits in the queue while the first one
  is served.

**Fairness.** `FreeList` and `SharedServer` assume that the OS runs a worker that
is inside a call or has a batch to dispatch (weak fairness of its steps: no step
of it blocks), and nothing of clients, edges or the poll. `PolledIsDispatched`
is checked under bounded news, since an owner may be kept busy for ever by the
others. `QueuedIsAccepted` of `SlabServer` has the premise that `accept` does not
fail again and again, since a failure sends the loop back to its poll with the
client still queued. `Throughput` assumes that the threads which can go on do, and
that the reset of a client that has gone arrives; it assumes nothing of reporters,
of clients that connect, or that anything is killed. `Connection` assumes that the loop
serves an edge that was raised and that a client reads what it is sent and
completes a request it has begun. `NaiveMio` assumes that its one thread runs
and that clients read, `SlabServer` only that its thread runs; their polls
report every socket that is ready, which is what the event buffer has room
for. `CHECK_DEADLOCK FALSE` in every run: all workers
may have panicked, and clients need not come back.

`LockFree` is a disjunction over infinite behaviours (workers out of calls
again and again, or calls completing again and again) and not wait-freedom,
which the loops do not have; its third case is the code's own exception, a head
that links to slot 0. `ClosedIsGivenBack` ends at the push.

## 4. Theorems

All are checked by TLAPS. `EventGateProofs`, `FreeListProofs` and
`SharedServerProofs` hold for every number of workers, slots and event kinds,
from `SlotsAssumption` (there is a slot) and, where there are events,
`KindsAssumption` (bit 0 is no event bit).

The argument of the event protocol. `SingleOwner` and `RemovedOnce` are not
inductive. A step of `insert` must find nothing left over at the slot
(`Untouched`). A late event must be told from a removal: a connection is live
until its owner has *given up the slot*, not until it is closed, and a live
slot is still marked in use, nobody is removing it, and its `Option` is empty
exactly when the owner's `remove` says so (`LiveSlots`); otherwise a second
worker could take the slot between `*conn = None` and the exchange, and find it
empty. `LockExclusion` needs nothing else, it is inductive with the types. With
these, `IInv = TypeOK /\ Untouched /\ LockExclusion /\ SingleOwner /\ LiveSlots
/\ RemovedOnce` is inductive. The proof has one lemma per action.

`RemovedStaysRemoved` and `LiveAssertionsHold` are action properties from
`IInv`: a removed connection never comes back, and none of the assertions of
`try_connection` ("contention", "conn is none", `bits & 1 == 1`, the slot in
use) fails over a live one. `Refinement` maps `pending` to the posted bits of
an open connection, `serving` to the batch its owner has taken, and shows slot
by slot that every step is a step of `SerialHandler` or stutters. It says in
particular that deferring loses nothing: the exchange that gives the slot up
succeeds only when nothing was posted.

The argument of the free list. `NoSlotLost` speaks of the slots that a
recursive walk from the head visits, about which nothing can be proved step by
step. `IInv` says instead that there is a function `p` on `0 .. n` whose values
are the slots of the list in order (`IsList`), that the list, the slots in use
and those in a worker's hand divide the table among them (`Partition`), and
that what a worker has loaded is still true if its exchange may succeed
(`Loaded`): as long as nobody pushes, a head seen again has the link it had
(`Phases` tells that time from the later one, in which one worker pops at a
time and a slot it has seen cannot leave the list but by its own hand). `Apart`
keeps what one worker holds from the others. A pop leaves the tail of `p`, a
push puts a slot before it (`ListTail`, `ListCons`), and `WalkAlong` leads back
from `p` to the walk; it is an induction over the naturals with the property
given as a set. `NoSlotIsLost` and `Refinement` (the exchanges that succeed are
the pops and pushes of `SlotStack`, every other step stutters) have the
hypothesis `~Overlap`, which they need, and so has `SlotIsTakenOnce`, the comment
of `insert` that `list_double` refutes with overlap. `TypeCorrect` does without.

The argument of the server. `EventGateProofs` is about one lifetime of each
slot and does not carry over: a late event may take a slot that is free or
being filled, and a worker may die over any. `IInv` of `SharedServer` therefore
has, beside `LockExclusion` and the calm of the environment (`Calm`: one worker
inserts at a time), a list `p` with what the inserting worker knows of it
(`Locals`), and for each slot `Accounted`: it is in the list, or in the hands
of one worker on its way to or from it, or has a live connection, and in these
cases has one owner at most, late events' workers included (`Sound`); or it is
none of these, and then somebody died over it: the slot is lost, and nothing is
claimed of its event word. The proof goes slot by slot: what a worker does to
the slot it is at has a lemma for each thing it may be doing there, and a step
at another slot disturbs nothing (`Bystander`). `LateOnly` says which of the
workers in a call can be at a slot that is not theirs, the late ones; it is
what proves `OnlyLateEventsDoKill`, that a worker that fails one of the
assertions of `try_connection`, `insert` or `remove` shares its slot with a
late event. `Refinement` needs no more than the invariant: the steps of `insert`
and `remove` are the pops and pushes of `FreeList`, for which `SlotListProofs`
says what they are on the stack (`StackStays`, `StackTakes`, `StackGives`), and
`OthersKeepList` says that no step of the event protocol, late ones included,
writes the head or a link. What is pushed is not on the list because `Accounted`
has it in one worker's hands; a worker that pushed a slot for a late event too
would break that (the mutant of `IsStack` in `shared`). There is no hypothesis on
overlap here, since the environment of `SharedServer` is calm.

The argument of the slab servers. `TokensMatch` and `NoLostWakeup` are not
inductive. `Queue` adds that nobody is queued twice, or queued and open, else
an accept would give one connection two tokens; `Trying` adds that the token
whose handler runs is taken and has no second event in the batch (nor has any
token, `OneEventEach`), else the removal at the end of the handler would leave an
event to the next connection under that token. `NoLostWakeup` is about a read
that takes a part: as long as the call goes on, the bit of readable brings the
loop back to the socket; it is given up at a read that would block, which finds
nothing, or with the call. A call that ends at the end of `ready` has found
nothing, the end, or a request to close, for which `read_closed` is on. A call
that returns within a request ends with the bit on and whatever is in the
socket: `Parsing` says that this is what its last read left, or else came later
and has an edge of its own. The first of these is the exception, and the
property claims that there is no other. The invariant holds for any number of clients, any size of
the slab and any amount of input, from `SlabAssumption`.

The argument of `naive-mio`, from `NaiveAssumption`, for any number of clients,
any slab and any amount of input. `EveryConnectionIsWatched` says of every token
that its registration waits for what the state needs or that one event of its
own is to be handled, never both: so a second event of a poll cannot meet a
registration that was renewed, and a token is vacated only with its last event.
That an accepted connection is under *one* token needs `Queue` (nobody is queued
twice, and the listener's event finds somebody in the queue, since one event
accepts one client) and `Entries` (whoever is in the slab is open, so whoever is
queued is not in it). The proof takes the two halves apart, per client (`InSlab`)
and per token (`Watched`). `DroppedOnlyWhenAnswered` is an action property: a
step that drops a connection writes the rest of a response, and `Responding`
says why there was one.

The argument of `Connection`, from `ConnectionAssumption`, for any number and
kinds of requests and any buffer. Closing too early would be a response that is
dropped: the decision is made after a write or at the end of `ready`, from flags
set in the read loop. `InputIsParsed` says that what has been parsed are the
requests that were answered, and that outside the loop over the requests less
than one is in `input`; hence, when a read finds the end of the stream, every
whole request has been answered. `KeepaliveIsLast` ties the flag, which every
request overwrites, to the last request answered: a write that ends with
`keepalive` off has answered a request to close. `FlagsAreDue` says that
`read_closed` and `closed` are on only when nothing more is owed, and stays true
while the client goes on sending. `ClosedOnlyWhenDone` follows. The types in
`IInv` say that a read never has more than the buffer's room, and since
`slice_to_end` always makes some (`HasRoom`), no read is into an empty slice and
Ok(0) is the end of the stream.

`NoLostWakeup` of `Connection` is the safety in its liveness: when `ready` has
returned, input, an end of the stream, output that the socket has room for, or
an error has an edge to come. Its exceptions are the findings below. It is not
inductive, since each of these may come at any step of `ready`: `InputIsSeen`
says at which places in the code input without an edge is going to be looked at
(the read that does not fill the buffer takes all there is, and the loop comes
back to it while `readable` is on), `OutputIsSeen` that `writable` is off in
`events` and in the poll only over a full socket, `ErrorIsSeen` that a call that
takes the edge of an error gets to a read or a write.

The dates, in `ConnectionProofs` too, hold for any number of threads and any
division of the second, from `ClockAssumption`. A response is as good as its
cache: `Cached` says that a text was rendered at some time and when, `Ordered`
that no cache is ahead of a clock that was never set back. The bound between two
threads comes from the arithmetic of whole seconds: what lies at most a second
later has at most the next text (`BeginOfNextSecond`).

`NothingIsLost`, of `Throughput`, holds for any number of clients and any sizes,
from `ThroughputAssumption`. `Conservation` needs that what was in hand has been
added before the next read or write overwrites it (`HandIsEmpty`), and that the
server writes to a client (`PeerIsClient`). `NoWakeupIsLost` is about the poll of
`mio-raw`; besides the inner loop, which reads until there is nothing left, it
needs that neither the server nor its queue knows a client that has not
connected (`Started`, `Fresh`).

`NestedTransition` has no constants. The invariant of its loops says which levels
have moved on after so many calls; from it, the nested machine takes seventeen
calls, the flat one sixteen.

Proved are the type invariants, all safety invariants and action properties of
the runs, and all three refinements: of `SerialHandler`, and of `SlotStack` by
`FreeList`, for `~Overlap`, and by `SharedServer`, in its calm environment.
Only model-checked is the liveness: `LockFree`; `AnsweredIfBufferSuffices` and
`FinishedIsClosed` of `Connection`; `RequestIsAnswered` and `FinishedIsDropped`
of `NaiveMio`; `QueuedIsAccepted` and `InputIsRead` of `SlabServer`; the four of
`shared_live`; and `DataIsRead`, `GoneIsNoticed` and `EndOfStream` of
`Throughput`. They need fairness and ENABLED, which are out of this prover's
reach. That leaves one thing between proof and liveness to the instances: that a
wake-up is never lost is proved (`NoLostWakeup` in three modules,
`EveryConnectionIsWatched`), that it leads to a call and to an answer is checked.

## 5. What disagrees with the source's own words

* `gate_stale_event`: a worker that polled an event and is overtaken by the
  removal fails `assert_eq!(slot.state.load(SeqCst), 0)`; the thread is gone.
  The same late event, a moment earlier (between the exchange that gives the
  slot up and line 191), makes the remover fail its own assertion that no event
  is left, and the slot is lost; `AssertionsHold` and the theorem over it are
  therefore about live connections.
* `list_double`: with two workers that accept, a slot can be popped, used and
  pushed between another worker's load of its link and its exchange. The head
  is then a slot in use. The assertion of `insert` would often notice, but the
  store of `remove`, repeated after a failed exchange, overwrites the mark.
* `connection_pipelined`: on an incomplete request `ready` returns without
  writing what it has and without reading on, although readiness is
  edge-triggered. If the rest of the batch is in the socket already, no edge
  comes. The same return is taken when the client ends within a request and the
  end arrived with that edge: the connection stays open.

What the passing runs had to leave room for:

* `LockFree`: `remove` stores 0 as the link of a slot pushed over slot 0, and
  `insert` takes it for a slot in use and spins until something else is pushed.
* `IsStack`: `SlotStack` never hands out its bottom slot, because `insert` panics
  when it sees the link of the last slot: "vec is full" comes one slot early.
* `OnlyLateEventsKill`: a late event that holds the lock makes `insert` fail with
  "failed lock", and the worker that dies is the one that accepted. One that dies
  as an owner leaves bit 0 on for the slot's next connection, which then defers to
  a thread that is gone (`Abandoned` in the liveness properties). One that fails
  the assertion of line 191 loses the slot (`DiedOver`).
* `PolledIsDispatched`: a worker that dies takes the rest of its batch with it;
  and a worker that spins in `insert` on a head that looks in use keeps the rest
  of its batch waiting until another worker pushes a slot.
* `NoLostWakeup` and `InputIsRead` of `SlabServer`: the same return as in
  `connection_pipelined`. A call that returns within a request leaves behind what
  its last read left in the socket (`partial /\ left`), with the bit of readable
  on and nobody to call it. `AnsweredIfBufferSuffices`, `FinishedIsClosed` and
  `NoLostWakeup` of `Connection` except it by `filled`.
* `DatesInOrder` allows what happens: consecutive responses on one connection of
  `mio-multithread` come from different threads and may be dated a second back.
  When the clock is set back, the cached date is in the future until the clock
  has caught up, since only a clock ahead of `next_update` refreshes it.
* `EndOfStream` is about `std` only: `mio-raw` takes `Ok(0)` for data and reads
  for ever (`RawReadsEnd`). `std` returns, and what it counted since its last
  report is never printed.
* The nested machine of "sixteen states" has seventeen, so the two benchmarks
  compare loops of different length.

What the bounds of `SlabServer` leave out: a client that sends without end, or
clients that connect without end, would keep its loop from the other
connections. One handler's panic ends the thread with all of them, and the
liveness properties except connections that are gone.

A handler that panics leaves bit 0 on: later events are deferred to a thread
that is gone. `SerialHandler` has this as its "wedged" state, and the liveness
properties except it by name.

## 6. Not modelled

The text of requests, responses and headers; `hyper-master` and `iron`, whose
handlers have no protocol of their own; the build files and Lua scripts. Clients
that connect to `mio-multithread` while another is being inserted are in
`FreeList` but not in `SharedServer`: `list_double` shows that the list itself
does not survive them. `NestedTransition` has no run, since it has no constants
and its theorems, in `BenchmarkProofs`, cover all of its states.

## 7. Where to go on

The plan of modules and proofs is carried out. Three things would add to it:

1. Proofs of the liveness properties, with a prover that has ENABLED; the
   invariants they rest on are in place.
2. `SharedServer` under clients that connect while another one is inserted, once
   the free list bears it: a version count beside the head would do, and
   `Overlap = TRUE` in `FreeList` is the test of it.
3. `Connection` under `SharedServer`: the two meet in what a call of `ready`
   leaves behind, which each of them takes as a choice.
