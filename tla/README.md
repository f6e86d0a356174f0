# realm in TLA+

realm relays tcp connections and udp datagrams from listen addresses to remotes.
A control plane submits complete *generations* of endpoints over a unix socket;
realm brings the running listeners to each generation with as little disturbance
as possible and remembers what it applied across restarts. This directory holds
TLA+ modules of the parts where that can go wrong, TLC configurations that check
them on small instances, and TLAPS proofs for every instance.

    tlc -workers 2 -config MCReconciler_handoff.cfg MCReconciler
    tlapm CohortProofs.tla

## 1. The system

| component | state | operations | talks to |
|---|---|---|---|
| reconciler (`lifecycle/reconcile.rs`) | applied sources, active generation, last response, partial flag | `reconcile`, `restore`, `status` | one task; calls the manager, the snapshot store and the build and refresh hooks, and awaits in between |
| endpoint manager (`lifecycle/manager.rs`) | one slot per (id, protocol): state, generation, endpoint, digest, serving task, draining cohorts | `apply`, `remove`, `stop_accept`, `status`, `refresh` | binds sockets, spawns serving and drain tasks |
| connection cohort (`lifecycle/cohort.rs`) | counter, cancellation token, `done` channel | `register`, guard drop, `cancel`, `wait_drained`, `drain` | shared by an accept loop, its connections and a drain task, on several threads |
| tcp accept loop (`tcp/mod.rs`) | none of its own | `serve_tcp` | registers connections in the cohort |
| udp relay (`udp/`) | a batch of packets, the map from clients to association sockets | `serve_udp`, `associate_and_relay`, `send_back` | loop and tasks share the map, a lock per operation |
| bidirectional copy (`realm_io`) | two copy buffers, two transfer states | `BidiCopy::poll`, `poll_copy` | two streams whose peers act on their own |
| snapshot store (`lifecycle/snapshot.rs`) | a file, a name counter | `store`, `load` | the file system; crashes and power failures |
| endpoint description (`conf/endpoint.rs`, `realm_core/src/endpoint.rs`) | certificate digest | `refresh`, `build`, `Display` | certificate files that others rotate |
| startup (`src/bin.rs`) | – | `run` | restores a snapshot or applies the static configuration as generation 0 |
| control socket (`src/control/server.rs`) | the socket's path, a backoff | `bind`, `serve` | other realm processes configured with the same path, and the file system |
| control api (`src/control/api.rs`) | – | HTTP routes | sends messages to the reconciler's task |
| tcp relay (`tcp/middle.rs`, `hook.rs`, `socket.rs`, `proxy.rs`, `plain.rs`, `transport.rs`) | none that outlives a connection | `connect_and_relay` | a client that sends, closes and resets when it likes; the balancer; the addresses of a peer |
| load balancer (`realm_lb`) | weights, counters, a hash ring | `next` | called per connection, under a mutex |
| dns, configuration, system calls | set once | | |

What is hard about it:

* *concurrency*: registration, release and drain of connections interleave on
  threads; the udp loop and its tasks race for the map; tasks exit while the
  reconciler plans;
* *failure in the middle*: any bind, build, digest or write of a generation may
  fail after others succeeded; a failed move must keep the old listener; a
  failed handoff must put it back;
* *ordering*: endpoints exchange addresses, so one has to let go first; bytes of
  a half-closed connection have to arrive before the end of the stream;
* *time*: drains with and without deadlines, callers that retry, files that
  change between being digested and being read;
* *restarts*: a crash between any two steps, a snapshot that was half written, a
  socket file that a dead process left;
* *streams that come in pieces*: a hook and a PROXY header look at bytes the relay
  must still pass on, or must not.

What makes each component correct is stated by the properties of section 4.
`PROJECT.json` lists every component with its status, and every hazard with its
line and the properties that cover it.

## 2. Modules

| module | models | extends, refines |
|---|---|---|
| `DrainContract` | what a cohort promises: closed to newcomers, drained only when empty | – |
| `Cohort` | one tcp generation: accept loop, connections, cohort, owner | refines `DrainContract` |
| `SnapshotContract` | a cell that is replaced atomically | – |
| `SnapshotStore` | `store`, one system call per step | refines `SnapshotContract` |
| `Endpoints` | descriptions, sources, specs; `refresh`, `build`, `endpoint_unchanged` | – |
| `Manager` | the slots and what each manager operation can do to them | `Endpoints` |
| `Reconciler` | generations, restore, persist, crashes; the composition of everything in `lifecycle/` but the inside of a cohort and of the store | `Manager` |
| `UdpRelay` | one udp generation: receive loop, map, associations, owner | – |
| `RelayContract` | what a relay of two streams promises: bytes in order, ends behind them, when Ok is returned | – |
| `BidiCopy` | the two directions of a tcp connection | refines `RelayContract` |
| `ControlSocket` | the control socket's path and the processes that come and go on it | – |
| `Balancer` | round robin and ip hash: state and operations | – |
| `TcpRelay` | tcp connections from accept to end, one after another over one balancer | `Balancer` |
| `MC*` | the instances TLC checks | |
| `*Proofs` | the theorems | the module they are about; `ConvergenceProofs` extends `ReconcilerProofs` |

### How the modules correspond to the code

**Cohort.** Every effect that another thread can see is a step: `register` is
`Accept` (the counter) and `SpawnRelay` (the guard), dropping a guard is
`ReleaseGuard` (the counter) and `DropSender` (the `done` sender, dropped with the
fields), and an expired drain reads the counter, fires the token and waits in
three steps. The biased `select!` of `serve_tcp` is `PollShutdown` followed by a
poll of accept, so a shutdown that fires in between still admits one connection.
`SendersGone` is what `wait_drained` waits for. The owner is the manager
(`stop_active`, the rebuild of a udp slot, `refresh`) and then the drain task.
`RefreshExited` allows both kinds of deadline, where the code passes that of a
deletion.

**SnapshotStore.** `entry` is what the path holds for every process, `older` what
a power failure may put there while the directory is not synced. A file that is
opened holds `Torn` data until it is written. Names are (process id, counter)
pairs and process ids repeat, so a new process meets the leftovers of another.
The file system is assumed to do what POSIX says of `rename`, `fsync` and
`O_EXCL`; creating the state directory is assumed durable.

**Endpoints and Manager.** A description is an address, everything else `Display`
renders (`Peers`), the weights it does not render, the protocols and whether it
names certificate files. `refresh` digests the files, `build` reads them again,
later. Descriptions are taken as normalised (parsing is data). The manager is
owned by one task, so its operations are functions from slots to the set of
possible results (`Apply`, `Remove`), installed by `ApplyEffect` and
`RemoveEffect`, with the trailing `prune`. A failing bind is a choice of the
environment; a bind on an address another live tcp listener holds always fails.
Udp sockets carry `SO_REUSEADDR`, under which Linux lets them share an address.
Per-endpoint drain overrides are reduced to the defaults: none on update, one on
deletion. A superseded cohort is `held` while its slot lists it; its inside is
module `Cohort`.

**Reconciler.** `pc` is where the reconciler's task is: `Submit` (checks, refresh),
`PlanGeneration` (build and diff), `Release` (`release_contended_addresses`), one
`Apply...` step per id in the order of the `BTreeMap`, `RestoreReleased`, `Commit`
and `Persist`. Building all endpoints of a generation is one step: nothing they
read changes a slot, and only `torn` below distinguishes the moments. A stale or
replayed submission changes nothing and is no step. `Boot`, `RestoreOne` and
`RestoreDone` are the start of the process. `Env` names the kinds of fault that
an instance produces:

| kind | effect |
|---|---|
| `bind`, `build`, `refresh`, `store` | these calls may fail in a `hostile` generation, chosen when it is submitted |
| `exit` | an accept loop may end by itself |
| `crash`, `load` | the process may crash; an existing snapshot may not load |
| `rotate`, `torn` | certificate files change, between generations or at any moment |
| `conns` | a superseded cohort has connections |
| `dup`, `clash` | an id is declared twice; two endpoints declare one address |

**UdpRelay.** Each use of the map's lock is a step (`Find`, `Insert`,
`RemoveEntry`, the clear in `ExitLoop`), and so is each thing between two awaits.
`find_or_insert` is `Find`, `Create` (the closure: socket, guard, task) and
`Insert`. `Gather` and `GroupByAddr` are the two loops of `group_by_inner`, in place,
and `Probe` and `NextGroup` one round of each.
`ExitLoop` happens at the awaits of the relay future only. A socket can be used
again once neither a task nor the map refers to it. `Early` says whether a task
may end between its spawn and the insertion of its association; see section 6.

**BidiCopy.** Each poll of a stream is a step, and peers send, close and take
delivery in between. Bytes are numbered, so any loss, repetition or exchange
shows. Writers may hold bytes back until they are flushed, writes may be partial,
flush and shutdown may block. `brutal` is the build feature `brutal-shutdown`, and
`lockstep` says whether the peers are a client and a server that wait for each
other. Wakers are not modelled: the task may be polled at any time. Reads, writes
and flushes of a stream whose relay has returned are out of scope. `RelayContract`
keeps what the two sides of a relay can observe: a byte is delivered when it is
flushed (`Delivered`), the end of a direction when its writer is shut down, and the
relay returns an error, or Ok once both directions have ended or, with `brutal`, one.
What the other direction had not delivered by then never is.

**ControlSocket.** The file system has no lock, so each system call of `bind` is a
step: `Metadata`, the probe (`ProbeAnswered`, `ProbeUnanswered`), `RemoveStale`,
`Bind`. The path names nothing, a leftover (`Dead`) or the process whose socket it
is; a process whose path was taken away still listens and is out of reach. A probe
is a connection in the owner's queue like any other, and fails when the queue is
full. `serve` is `Accept`, `AcceptAborted`, `AcceptFails` and `Wake` with the
doubling delay, and `Shutdown`, `Unlink` at its end. (`bin.rs` hands `serve` a token
that nothing cancels; `Shutdown` is there for callers of the library.) Any error of
`bind` ends the process. `raced` records that two starts overlapped or that a probe
met a full queue, the two cases in which a live owner can lose its path.

**Balancer.** `cw` are the round robin's counters, at a width of `2 * Half` values
that wraps as a release build does (`Half` is 2^15 in the code); the loop of `next`
is `Raised`, `Best` (the first of the largest) and `RoundRobinNext`. Effective
weights start equal to the weights and are never lowered, so they are not state. `Lag`
is no code: it is how far a counter gets, and `WeightsFit` needs it. The
ring of `IpHash` is what can be observed of the sorted nodes: which peers have a node
at a hash (`NodesAt`), and, since nodes are named by their index alone and so share
hashes, which of them the unstable sort and the binary search give (`Rings`, chosen
once per balancer). `chash` and `chash_for_ip` are functions of their input: they
overflow in unchecked arithmetic and skip bytes that are not aligned, so their values
depend on the build and not on the run. No property is stated of the ip hash: `next`
reads a ring that nobody changes, so that a client keeps its peer within one balancer
follows from its shape, and between two balancers nothing promises it.

**TcpRelay.** One action per stage of `connect_and_relay`, and the client as a process
beside it. Its stream is a sequence of numbered units, the first `HeaderSize` of them a
PROXY header if it sends one; `arrived` units are in the socket and `taken` have been
read, so a peek leaves `taken` alone. `HookDecides` waits for its first packet and may
get any index. `Connected`, `TryNext`, `KernelGivesUp` and `ConnectFails` are the loop
of `socket::connect` over what the lookup gave, an address being known by how it meets
a connect. `PeekHeader` sees what has arrived, up to `PeekSize`, and refuses all but a
whole header. `SendHeader` panics for a version it does not know, as the code does.
`Forward` is the direction from the client; of the other direction only its end is
modelled (`PeerCloses`). `EndOfStream` is the Ok of `RelayContract`: on the end of both
directions, or of either in a build with `brutal-shutdown` (`conf.brutal`), which the
default features include; there the close of the peer drops what the client has sent
and the peer has not been given. Any other end is `RelayFails`. How bytes move is
`BidiCopy`, and how a connection is ended from outside is `Cohort`. The model has the
default features (`brutal-shutdown` both on and off), `hook` and linux: with `balance` a
hook decides only whether, and the balancer where to.

## 3. Plan

Most important first; 1 to 8 are done.

1. `Cohort` with `DrainContract`, its invariants and refinement proved.
2. `Endpoints`, `Manager`: slots, digests, handoff.
3. `Reconciler`: generations, restore, persist; everything its runs check is proved,
   what generations converge to under the hypotheses of section 5.
4. `SnapshotStore` with `SnapshotContract`, proved.
5. `UdpRelay`, proved but for liveness.
6. `BidiCopy` with `RelayContract`, proved but for liveness.
7. `ControlSocket`, proved but for liveness.
8. `Balancer` and `TcpRelay`, proved but for liveness.
9. `Manager` composed with `UdpRelay` (sockets that outlive a moved listener), and
   with `Cohort` in place of the held cohorts.
10. Two processes over one snapshot: a start that is refused at the control socket has
    restored by then.

Theorems to come: `Persist` as a step of `SnapshotContract`.

## 4. What is checked

| run | instance | states | shows |
|---|---|---|---|
| `cohort` | 3 connections | 2.8 k | the counter is exact, only a deadline disconnects, a forced drain does not under-report, the contract is kept (drained means empty, nobody enters a closed cohort); a drain with a deadline, a join and a rebuild end |
| `store` | 2 snapshots, 1 process id, 2 names | 18 k | no error, crash or power failure tears the snapshot, leaves a file after an error or touches a leftover; the contract is kept; `store` returns |
| `handoff` | 3 ids, 3 addresses, 3 generations; `bind crash` | 485 k | every permutation of addresses converges without a fault, whatever faults and crashes left; what is answered `applied` is served; the snapshot does not go back |
| `faults` | 2 ids, 2 addresses, 2 generations, a static endpoint; `bind build refresh store crash load` | 1.4 M | the applied set matches what serves, a restart resumes the snapshot, nothing undeclared survives, a move never loses its listener |
| `listeners` | 2 ids, 1 address, 2 file contents, tcp with and without udp, 3 generations; `conns exit rotate build dup clash` | 1.4 M | slots describe their tasks, rotated files take effect, endpoints left alone keep their listeners, deletions bound the drain they start |
| `udp_relay` | 2 clients, 3 sockets, batches of 4 | 300 k | no stale map entry, one reader per client, every packet of a batch once and for its client, drained leaves nothing; a rebuild gets its socket back |
| `bidi_copy` | 1 byte out, 3 back, buffer and window of 2 | 126 k | bytes in order, half-close after everything, exact counts, the contract is kept (Ok on the end of both directions or, in a brutal build, of one); peers in lockstep complete |
| `control_socket` | 2 processes, a queue of 1, a delay of 1, 2, 3 | 16 k | a serving process keeps its path outside the named windows, a leftover is replaced, the accept loop comes back when descriptors do |
| `tcp_relay` | 53 sets of options, every round robin of up to 3 peers and weights up to 4, 4 hash rings; streams of up to 4 units | 477 k | the peer gets the right header and the client's stream, all of it unless a brutal build ends on the peer's close; an address that accepts is reached; set-up ends; no peer is a whole pick ahead of its share or further behind than `Lag`, and cycles are exact |
| `retry`, `delete`, `restored` | the smallest that show it | | section 6 |

*Bounds.* Three connections let one register, one relay and one end at the same
moment. One process id and two names make a restarted process meet its own
leftovers. Three ids and addresses are the smallest cycle that is not a swap.
Three generations are an initial state, a change, and a change of what the change
left behind; a restart adds another. A third udp socket lets a client have a new
association while both old ones are still ending, and a batch of four packets of
two clients makes grouping exchange packets more than once. Three bytes through a
buffer of two need a refill, and partial writes leave its middle. Two processes are
a predecessor and a successor, or two that start together, and the proof has any
number. A header of two units arrives in pieces, and a peek of three sees more than
the header. `Half` is 11 where the weights of three peers add up to at most 12: most
round robins fit, some have a sum that does not, and some, such as weights of 1, 4 and
4, have a sum that fits and a counter that does not (the property excuses both).
Addresses, peers
and file contents occur only under equality, so their symmetry is sound for the
safety properties checked with it; ids are ordered and have none.

*Fairness.* A runtime task that can go on is polled: weak fairness of the steps of
the loops, of cancelled tasks, of the drain and of the store. Nothing has to
connect, arrive, end by itself or fail. In `UdpRelay` a batch that cannot go on
fails, as creating a socket does when there is none. In `BidiCopy` a flush or a
shutdown that is possible again and again gets done (strong fairness, since they
may block in between), and only peers in lockstep promise anything: they send what
they have, take what arrives and close in the end. In `ControlSocket` a
process that is alive goes on and a sleep ends; clients, crashes and descriptors are
free, and `ServesAgain` assumes that descriptors are free for good some day. In
`TcpRelay` the task of a connection goes on and its timers fire, which includes that
a lookup ends; clients and peers owe nothing. `Reconciler` is checked for safety; each of its generations is a finite sequence of steps, and TLC finds no
deadlock in it.

## 5. What is proved

TLAPS checks these for every value of the constants, under the named assumptions
of the modules (sets are finite where they are counted, `None` is no value, sizes
are positive).

* `CohortProofs`: type correctness, `CountExact`, `DrainedIsEmpty`,
  `UpdateKeepsConnections`, `ForcedCoversKilled`, `NoAdmissionWhileDraining` and the
  refinement of `DrainContract`. The inductive invariant adds that one connection at
  most is registering, that the loop is gone before the cohort's own sender is, and,
  for `ForcedCoversKilled`, that the live and the terminated connections together
  are no more than were counted: connections that end by themselves between the
  reading of the counter and the token leave the bound, none enters it.
* `SnapshotProofs`: type correctness, `NeverTorn`, `NoLeftovers`,
  `LeftoversUntouched` and the refinement of `SnapshotContract`. The invariant says
  what is known of the temporary file at each step (written and synced before the
  rename) and that every other one was abandoned.
* `ReconcilerProofs`, for any number of endpoints, any descriptions and, but for the last
  one, any environment:
  * the active generation never goes back, and neither does the snapshot, provided an
    existing snapshot loads (`"load" \notin Env`). The invariant carries the generation
    through the steps: a job's is at least the active one, and the active one at least
    the snapshot's.
  * `SlotDescribesTask`, `NothingUndeclared`, `UndisturbedListeners`, `MovesKeepAListener`
    and `DeletesAreBounded`. First, each operation of the manager turns sound slots into
    sound slots and touches only its id; the refresh before it drops no slot and leaves
    live listeners alone. On top of that the invariant says what holds while a generation
    runs: what is planned to be bound was built, an undeclared id is planned as a deletion
    or has no slot and has none after its turn, and a restore under way is that of a
    planned id which serves nothing. The last one rules out that `restore_released` brings
    back or disturbs anything else.
  * `TypeOK`: type correctness, of the cohorts, the job and the answers too.
  * `AppliedMeansServed`, for endpoints of one protocol each, weights that do not vary and
    no `exit`. `AInv` says that whatever serves an id is the source applied for it, or the
    one desired once it has had its turn, and `UInv` that what is reported as applied does
    serve.
* `ConvergenceProofs`: what generations converge to, again for any number of endpoints,
  addresses and generations, each theorem in a layer of its own on top of `AInv`.

  | theorem | hypotheses | inductive invariant |
  |---|---|---|
  | `AppliedMatchesServing` | one protocol per endpoint, one weight, no `exit`, `dup` or `clash`, a static configuration without conflicts | `BInv`: what is applied serves, unless its id is being replaced or deleted and has yet to have its turn |
  | `FaultFreeConverges` | one protocol per endpoint, no `exit` | `FInv`: tcp listeners are on different addresses, and in a generation that nothing hinders nobody else is on an address about to be bound |
  | `ResumesAfterCrash` | those of `AppliedMatchesServing` | `RInv`: a snapshot has no address twice, and what is yet to be restored finds its address free |
  | `RotationTakesEffect` | one protocol per endpoint, no `torn`, and no listener put back (`job.restoring`) | `MInv`: a transport that runs was built from the files its digest is of |

  Most hypotheses are there because the property fails without them; section 6 has the
  counterexamples: two protocols, two weights, exits, duplicates and clashes after a failed
  start, torn rotations, and listeners put back by `restore_released`. Two are the
  argument's own, for they come with the layers below: no `exit` for
  `FaultFreeConverges` and one weight for `ResumesAfterCrash`; TLC finds no violation
  without them on two endpoints (`FaultFreeConverges` over three generations,
  `ResumesAfterCrash` over two). `listeners` checks `RotationTakesEffect` with two protocols too, where no
  bind fails. All faults of binds, builds, refreshes, writes and loads and all crashes are
  allowed.

  The argument of `FaultFreeConverges` is that of `release_contended_addresses`: a wanted
  address is held by an id that is itself bound elsewhere or deleted (then its listener
  was released before any bind), or by one left unchanged (then two ids declare one
  address, and the generation has a conflict).
* `UdpProofs`, two arguments that do not need each other:
  * `MapEntriesLive`, `OneReaderPerClient`, `DrainedLeavesNothing`, with
    `Early = FALSE`. The key is that a task which has yet to remove its entry is in
    the map, or is the one about to be inserted, or the loop is gone; so a client for
    which `find` returned nothing still has no owner when its entry is inserted. The
    argument allows any client for the next group, so it does not depend on grouping.
  * `GroupingIsByClient`, what `group_by_inner` computes for a batch of any size, and on
    top of it type correctness and `BatchSentOnce`, for either value of `Early`. The
    inner loop keeps `Collected`: the group's client fills what is before `end`, is not
    between `end` and the probe, and nothing crossed the group's start. The outer loop
    keeps `Grouped`: the groups tile what is before `beg`, each has all datagrams of its
    client, and the batch is a rearrangement of the one received. The relay keeps
    `BatchInv`: what was sent is the regrouped batch from its start, and the groups left
    tile the rest.
* `BidiProofs`: type correctness, `RelaysInOrder`, `ShutAfterEverything`,
  `ReportsWhatItDelivered`, for any buffer size and amount of data. The invariant is
  one predicate per direction: the buffer between `pos` and `cap` holds the bytes
  that follow the `amt` already written, and past the end of the stream everything
  sent was written, then flushed, then shut. It also gives the refinement of
  `RelayContract`: the flushed part of `out` is the first bytes of the stream
  (`DeliveredAre`), so a write, a flush or the last flush is a `Deliver` or a stutter,
  a shutdown is a `PassEnd`, an error a `ReturnError`, and the Ok of a poll a `ReturnOk`.
* `ControlSocketProofs`: type correctness (with the bounds of the delay) and
  `OwnerKeepsPath`, for any number of processes. The invariant says, while nothing
  `raced`, that at most one process is inside `bind`, that whoever listens is what the
  path names, and that a process past its probe (about to remove or to bind) has nobody
  listening beside it.
* `TcpRelayProofs`:
  * type correctness and `PeerGetsStream`, for streams, headers and peeks of any size. The
    invariant says at each stage how much of the stream has been taken and whose addresses
    are to be sent, and that a relay is done only behind the client's close with everything
    taken, or in a brutal build once the peer closed.
  * `PicksFollowWeights`, for any number of peers, any weights that fit and any width of
    the counters. The invariant `Rotation` has two parts. `Accounted`: a counter is what
    its peer was due in this cycle less what it got, times the sum `W` of the weights.
    `Even`: the counters add up to zero, none is `W` below it, and any `n - j` of the `n`
    together are at most `Together(w)[j]`. A pick keeps the last part, which is what bounds
    a single counter: a set that contains the counter picked gains `W` at most and loses
    `W`; a set that does not has only counters below the one picked, so it is at most
    `(n - j) / (n - j + 1)` of the set with that counter added, whose bound is the one
    before. With the bound nothing wraps, and at the end of a cycle no peer is ahead, so
    none is behind.

Two of these are inductions over data: the loops of grouping, and sums over peers. They
rest on `SetInduction`, which takes the least counterexample from the well-foundedness of
`<`, and on `RecursionExists`, by which a function defined by recursion on an interval
satisfies its own equation. Both are stated where they are used, in `UdpProofs` and in
`TcpRelayProofs`.

Only model-checked: liveness, which is out of the prover's reach. Every invariant and
every action property that a run checks is proved, some under hypotheses that the run
shares or that the table above gives.

## 6. Where the code and its comments disagree

Three runs are expected to be violated; `PROJECT.json` quotes both sides.

* `retry`: a byte-identical retry of a partially applied rotation is refused as a
  conflict (`material_drifted`).
* `delete`: a cohort that an update left draining without a deadline outlives the
  deletion of its endpoint.
* `restored`: a listener put back after a failed move is built from rotated files
  under the old digest, so rotating back goes unnoticed.

### What the bounds leave out

Other constants show more; the passing runs stay clear of them on purpose.

* Two weights: a generation that changes nothing but a balancer's weights is planned as a
  replace, takes the no-op fast path, is answered `applied` and changes nothing, for
  `Display` renders only the strategy (`manager.rs:507`, `endpoint.rs:209`; the comment
  at `manager.rs:502` says it "renders every field that distinguishes one endpoint from
  another"). `AppliedMeansServed` fails with `Weights = {w1, w2}`.
* Two protocols and `bind`: when one protocol of a replace fails and the other
  succeeds, the previous description goes back into the applied set
  (`reconcile.rs:608`; the comment at 603 says it "keeps the new spec"), so
  `AppliedMeansServed` and `AppliedMatchesServing` are checked on tcp. Submitting the
  previous description again is then planned as unchanged and leaves the protocol that
  succeeded on the new files, so `RotationTakesEffect` fails as well once `rotate` is
  added.
* `exit` with `AppliedMeansServed`: `all_running` asks for a task object, not for a
  live task (`reconcile.rs:515`), so an endpoint whose listener ended is planned as
  unchanged once (the comment at 672 says it "must be retried").
* `bind`: after a failed move the slot's state stays `failed` although its listener
  is fine, and a later generation that declares what it runs leaves it so
  (`manager.rs:504`; `docs/control-api.md:29`: "healed by submitting a *later*
  generation"). No property is about the state's name.
* `clash` or `dup` after a failed start, with `AppliedMatchesServing`: an invalid
  endpoint with a failed slot keeps the refused description in the applied set
  (`reconcile.rs:570`), from where it reaches the snapshot.
* udp descriptions and `bind`: `restore_released` binds an address that its new
  owner serves already, since udp sockets may share it (`reconcile.rs:734`; the
  comment at 716 says the address is free only if the other bind failed).
* `rotate` with `torn`: files that change between digest and build and change back
  afterwards leave a listener on the wrong content under the right digest
  (`docs/control-api.md:212` says it "costs at most one spurious rebuild").
  `RotationTakesEffect` is checked for rotations between generations.
* Two protocols, `crash` and `bind`: an endpoint restored in part is not in the
  applied set, so its listener is not released to an endpoint that takes its address
  over, and `FaultFreeConverges` fails (`reconcile.rs:802`).
* `Early = TRUE`: a udp task that ends before its association is inserted leaves an
  entry nobody removes (`middle.rs:143`), and `MapEntriesLive` fails. The window has
  no await and nothing was sent through the socket yet, so neither the idle timeout
  nor an error it could report is likely in it; the runs assume it away.
* Starts that overlap, and probes that meet a full queue: `bind` probes, removes and
  binds in three calls and takes every error of the probe for a dead socket, so a start
  can displace a live owner (`server.rs:75`; the comment at 64 says "if something
  answers, another realm owns this path"). `OwnerKeepsPath` fails without `raced`. A
  start whose predecessor unlinks the path between the probe and the removal fails with
  a missing file (`server.rs:84`).
* Weights whose sum fits and whose counters do not: a peer that has waited is raised by
  its weight once more, and with more than three peers one that has waited may be behind
  by more than a pick (weights 7, 2, 2, 36, 2, 2, 36 do it). 128 weights of 255 and one of 2 add up to 32642, and a counter
  reaches 32893, past an `i16` (`round_robin.rs:67`). `PicksFollowWeights` fails if
  `WeightsFit` asks for the sum alone; the test `rr_all_weights` stays just below.
* A hook whose first packet does not come: `pre_connect_hook` has no timeout, and keeps
  peeking after the client's close (`hook.rs:22`). `SetupEnds` fails without
  `HookStarves`.
* `unusable` before `accepts`: an error before the connect itself is returned although
  other addresses are left (`socket.rs:74`). `AcceptingAddressReached` excludes it.

## 7. What is not modelled

* HTTP, JSON, parsing and merging of configuration, logging, allocators and system
  calls: they keep no state that the properties are about.
* Panics caught by the reconciler's task, its channel's capacity, and the pair of
  messages behind `/v1/status` as one answer.
* Two processes over one snapshot file: a start that the control socket refuses has
  restored its listeners and may have written the snapshot (`bin.rs:232`).
* The pipe of `zero_copy`, which replaces the buffer under the same `poll_copy`; that
  `InvalidInput` comes before any byte is in it is an assumption of `StartCopy`.
* `peek.rs` and `statistic.rs` of `realm_io`, which nothing in the repository uses, and
  the batched calls of `mmsg.rs`, which have no state of their own.
* The handshake of a transport (a library), the lookup of a name (a library, modelled by
  its result), and builds without the features `balance`, `proxy` or `transport`.
* Whether a udp listener that moved still holds its old socket through its
  associations.
