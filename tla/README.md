# Locket in TLA+

Locket is a lock and presence service: a gRPC server in front of one SQL table.
A client acquires a lock for a time to live (ttl), refreshes it before the ttl
elapses, and releases it; a lock that is not refreshed is expired by the server.
The repository also holds the client-side runners, for locket and for consul.

This directory models the system in TLA+, checks the models with TLC on small
instances, and proves the main safety properties with TLAPS for every instance.

## The system

| Part | Source | State | Operations | Module |
|------|--------|-------|------------|--------|
| Locks table | `db/` | rows of the table `locks` | Lock, Release, Fetch, FetchAll, Count | `LockService`, `LockTable`, `LockDB`, `MetricsNotifier` |
| Lock pick | `expiration/lock_pick.go` | `lockTTLs`, one goroutine per registered version | RegisterTTL, checkExpiration | `Expiration` |
| Burglar | `expiration/burglar.go` | the list last fetched | Run: fetch all, register each | `Expiration` |
| Handlers | `handlers/handler.go` | requests in progress | Lock, Release, Fetch, FetchAll, validate, exitIfUnrecoverable | `LocketAPI`, `Expiration`, `LocketProcess` |
| Messages | `models/locket.pb.go` | none | Size, Marshal, Unmarshal, stubs | `LocketWire`, `LocketAPI` |
| API helpers | `models/helpers.go` | none | GetType, GetTypeCode, GetResource | `LocketAPI` |
| Metrics notifier | `metrics/metrics.go` | the numbers of a round | Run: two Counts, two metrics | `MetricsNotifier` |
| Server process | `cmd/locket/main.go` | members, exitCh | ordered start and stop, exit | `LocketProcess`, `OrderedGroup`; crash and restart in `Expiration` |
| gRPC server | `grpcserver/server.go` | listening, calls under way | Run, graceful stop | `LocketProcess` |
| Registration runner | `registration_runner.go` | timer, attempts to register, errChan | Run, pollUntilSignaled, waitForSignal | `RegistrationRunner`, run by `LocketProcess` |
| Joint lock | `jointlock/` | an inner process and a timer per lock | NewJointLock, Run | `TimeoutRunner`, `OrderedGroup` |
| Locket runners | `lock/lock.go` | acquired, retry timer, the call in progress | Run as lock or as presence runner | `LockRunner` |
| Consul session | `session.go` | Session fields, errCh, s.lock, three goroutines each | AcquireLock, SetPresence, Recreate, Destroy | `ConsulSession` |
| Consul lock | `lock.go` | current session, ready, retry timer, the metric LockHeld | Run, emitMetrics | `ConsulLock` |
| Consul presence | `presence.go` | the same, and presenceCh, presenceLost | Run | `ConsulPresence` |
| Disappearance watcher | `disappearance_watcher.go` | keys listed last, two channels | Run, the list loop | `DisappearanceWatcher` |
| gRPC client, key schema, configuration | `locket_client.go`, `schema.go`, `cmd/locket/config` | none of their own | | no |

The handlers, the lock pick and the burglar of one process share `lockTTLs`
under a mutex.  All processes share the table.  The handlers write rows and
hand the lock to the lock pick; the burglar hands it every row of the table at
start and at each tick, which is how a lock survives the death of the process
that took it; the lock pick deletes rows whose ttl has elapsed.  The metrics
notifier counts rows.  `main` runs the gRPC server, the burglar, the notifier
and the registration as an ordered group, and stops it when a handler meets an
unrecoverable database error.

The locket runners are clients of the handlers.  The consul lock and presence
are an older implementation of the same idea on top of consul sessions; the
watcher sees presences go away.  A joint lock takes several locks, of either
kind, one after the other.  These share nothing with the table.

## What is hard here

Server:

- Fetch and Release of an expiry are two transactions; clients run in between.
- Copies of a lock (in a handler, in the burglar's list, in a goroutine) are
  registered late and out of order, by several processes.
- A goroutine removes its own entry of `lockTTLs` when it ends, after newer
  entries may have taken its place.
- A Lock can commit and still be reported as an error; a process can die
  between commit and RegisterTTL; FetchAll can end early, or pass over a row,
  without an error.
- Rows from before `modified_id` existed have no id and may have index 0.
- Clients give the type of a lock as a string, as a code, or both, and may be
  built from a later version of the messages; sizes and bytes are computed by
  separate code.
- The group stops its members one by one, whatever each of them is doing; calls
  are under way, and the send to `exitCh` does not wait.
- The two numbers of a round of metrics come from two transactions.

Clients:

- A runner acts on its last answer; a call may be answered late, or be
  committed after its caller has given it up.
- Each consul session has three goroutines and reports through two channels
  that `Run` reads in either order; results of older sessions are outstanding.
- A lock is held across a blocking send (`session.go:188`).
- The call that destroys a session can fail, so that it is alive when the next
  one is made; and a session can outlive its process, whose successor has
  another session name and waits for the key.
- Goroutines go on after `Run` has returned: acquirers, attempts to register,
  the list loop, a lock that its joint lock gave up.

## Modules

The table and the processes that share it:

- `LockService` (abstract): what clients are promised.  A lock has one holder
  at a time and passes from one to another only by way of nobody; every grant,
  a refresh included, has a token never issued before for that lock.
- `LockTable`: the table, and each database operation as one atomic step.  A
  row is owner, type, index, id and ttl.  `version` is a history variable: the
  highest index committed for each path and id.  It also says which guids are
  fresh.  `Service` maps it to `LockService`: the holder of a path is the owner
  of its row, the token is id and index.
- `LockDB`: the transactions of `db/lock_db.go` statement by statement, several
  at a time, with the row lock of `SELECT ... FOR UPDATE`, the duplicate key of
  two inserts, and a failure at any statement.  It implements `LockTable`.
- `Expiration`: processes, handlers, lock pick, burglar, crashes, time.  Each
  database operation is one step of `LockTable`, which is what `LockDB`
  justifies.

The service as clients see it:

- `LocketWire`: the nine messages and their encoding.  The generated code
  repeats one template per field and message; here each kind of field is one
  operator and a message is the list of its fields.  Strings are sequences of
  bytes, and the widths of the integers are parameters.  The loops of the code
  are recursive functions: `Groups` the loop over the bytes of a varint,
  `ResourceLoop` and `MessageLoop` those of Unmarshal over the fields.
  skipLocket calls itself for the fields of a group; `SkipLoop` counts the
  groups that are open instead.  Indexes into the buffer are mathematical
  integers (see "Not modelled").
- `LocketAPI`: the four calls from the client's stub through encoding,
  decoding, `validate` and the handler to the table and back; the column
  `value`, and the type given as a string or as a code.  `granted` is a history
  variable: the resource as the client sent it that locked the row last.  A
  Lock or Release that committed may be answered with an error (`Committed`),
  a FetchAll may leave out rows that it could not read (`lost` in the reply,
  for history), and the process may end in the middle of a call and start again
  (`Restarts`), as it does when a Release has no resource: nothing validates
  it, and `SQLDB.Release` dereferences nil.
- `MetricsNotifier`: the rounds of the notifier.  `seen` is a history variable:
  what a FetchAll would have listed at each moment since the tick.

Processes made of members:

- `OrderedGroup` (external): ifrit's ordered group, as `main` and the joint
  lock use it.
- `TimeoutRunner`: the members of a joint lock.  The inner process of each is a
  process of its own, which nobody stops when the timeout runner returns.
- `RegistrationRunner`: the loops of `Run` and `pollUntilSignaled`, with every
  attempt to register as a goroutine.
- `LocketProcess`: composes these into a locket server, a joint lock, or a lone
  registration, and adds the gRPC server, the calls under way and `exitCh`.

Clients:

- `LockRunner`: several runners and one lock.  The server is abstracted to what
  `Expiration` shows: a lock is found expired no earlier than its ttl after the
  last commit, and is released by owner in a later step.  `stale` counts the
  ticks for which a runner acts as owner without the lock.
- `ConsulSession`: the Session objects that one `Run` makes one after the
  other, with their renew and acquire goroutines, and consul itself (external).
  `busy` says that a monitor goroutine waits in its send with `s.lock` held;
  every other critical section is one step.  Only the sessions of one `Run`
  share a name, a uuid that the runner draws; the session of another process,
  or of one that died, is `Other`.
- `ConsulLock`, `ConsulPresence`: extend `ConsulSession` with the monitor
  goroutine of AcquireLock or SetPresence and with the select loop of `Run`.
  `lockHeld` is the value of the metric last sent.
- `DisappearanceWatcher`: the list loop and the shutdown.  `seen` is a history
  variable: keys listed and not reported since.

## Runs

| Run | Instance | What it shows |
|-----|----------|---------------|
| `MCLockDB` | 1 path, 2 owners, 3 transactions | Transactions are atomic (`ImplementsTable`) and keep the promises of a lock service (`ImplementsService`), a fetched row stays as fetched (`FetchedRowStable`), every call is answered (`EveryCallAnswered`) |
| `MCExpirationOwners` | 1 process, 2 owners, 2 ids, 1 fault | The goroutine of the newest version stays registered (`NewestRegistered`), no lock is found expired early (`NoEarlyExpiry`), only an owner that let its ttl elapse loses its lock to an expiry (`OnlyLapsedOwnersExpire`) |
| `MCExpirationLegacy` | empty table or a legacy row with index 0 | Every entry of `lockTTLs` has its goroutine (`EntryHasGoroutine`), and no version of a lock stays for ever (`EveryVersionEnds`) |
| `MCLocketAPI` | 2 paths, 45 requests, empty table or a legacy row | Sizes are exact (`SizeExact`), what is sent is decoded (`RoundTrip`), locks are fetched, and listed unless their row could not be read, by the type their client meant (`FetchReturnsLocked`, `FetchAllByType`), metrics are of a moment since the tick (`SentCountsListed`) |
| `MCProcess` | server with 4 members and 1 call, joint lock of 3, all registrations, 2 faults | The service is registered only while it is served (`ServedWhileRegistered`), calls are answered before the process ends (`CallsDrained`), a joint lock that is ready waits for none of its locks (`JointReady`), `LeftBehindOnlyOnTimeout`, a valid service is registered in the end (`EventuallyRegisters`, `Reregistered`), `QuietExitDeregisters`, an unrecoverable error ends the process (`UnrecoverableExits`), a group that stops ends (`StopExits`) |
| `MCExpirationRace` | no faults | Violated: a refresh between Fetch and Release is deleted (`OnlyExpiredVersionDeleted`) |
| `MCLockRunner` | a lock and a presence runner, ttl 4, retry 1, delay 1, 2 faults | While calls are prompt, who acts as owner has the lock (`PromptRunnerHolds`); otherwise for at most 2 * TTL + Retry without it (`StaleBounded`); a free lock is acquired again (`Acquires`) |
| `MCConsulLock` | 3 sessions, 2 faults | Consul has one session of a `Run` at a time, also when the call that destroys one has failed (`OneSession`); `OneAcquirer`, `KeyGivenUp`, `HeldMetricFollows`, `EventuallyReady`, `LaterLossExits` |
| `MCConsulLockSignal` | the same | Violated: a signalled `Run` does not return (`SignalExits`) |
| `MCConsulPresence` | 2 sessions, 2 faults | `KeyGivenUp`, `EventuallyReady`, `LossNoticed` |
| `MCWatcher` | 2 keys, 2 faults | A key that was listed and stays away is reported (`DisappearanceReported`) |
| `MCWatcherStop` | the same | Violated: a send to the closed channel (`NoSendOnClosed`) |

Bounds.  In `Expiration`, `MaxIndex` and `Guids` bound how often a lock is
refreshed and created anew, `MaxTTL` the ttl, `Chans` the goroutines alive at a
time, `MaxFaults` the errors and crashes, `MaxInFlight` the handlers between
commit and RegisterTTL.  Two versions and two ids are what the comparisons of
the code tell apart; three goroutines are an old one that is cancelled, one
that is being replaced and a new one.  In `ConsulLock` every retry follows a
fault, so that three sessions are enough for two faults.  `ConsulPresence` can
retry more often than that; its properties except the retry that finds no
session left (`AtBound`).  In `MCLockRunner`, Retry + 2 * MaxDelay < TTL, which
`PromptRunnerHolds` needs (locket's defaults are 5 s and 15 s).  With its two
faults a runner acts without the lock for up to 7 ticks; a third fault reaches
the bound of `StaleBounded`, 9, exactly.  In all of them a fault is any error, loss or slow call.  In `LockDB` a third transaction can
wait for a row lock while two others race.

In `MCLocketAPI` a word has 15 bits and an enum 11: as in the code, the longest
varint of a word ends in a byte with one bit and that of an enum in one with
four (`WidthAssumption`).  The requests have a type (empty, both known ones, an
unknown one) and a code (negative, 0 to 2, an unknown one), one without the
other, both, and both that disagree; empty and long values (a length of two
bytes), ttls of -1, 0, 1 and 300, an absent resource, and unknown fields of
every wire type, a group included.  One call is in progress at a time, because `LockDB` shows that a
call is atomic.

In `MCProcess` the three kinds of process are initial states of one model.  One
call is enough for the graceful stop to wait; two attempts to register are one
that hangs and one that overtakes it; two faults are a service that is forgotten
and an attempt that fails.  It does not check for deadlock: a process that has
exited takes no step.  `OrderedGroup` signals a member once; the debug server,
which `main` may put before the other members, is left out.

Fairness.  Goroutines that can run do run, calls are answered in the end,
timers fire and time passes; a case of a select that stays ready is taken,
which Go's random choice gives.  A process that died is started again, and the
ticker of the burglar ticks.  Nothing is assumed of clients, signals or faults.
The database grants a row lock to every transaction that waits for it, a
waiting `lock.Lock` gets a key that is free again and again, and a sender gets
its turn at a channel (strong fairness); consul drops sessions that nobody
renews, and another holder of the key does not keep it for ever.  The reader of
the watcher's channel reads.  A runner of a joint lock, of which nothing else is
known, returns after it was signalled.

## Findings

- `expiration/lock_pick.go:94-111`: a refresh that commits between the Fetch
  and the Release of an expiry is deleted (`MCExpirationRace`).  Only an owner
  that was late can be hit (`OnlyLapsedOwnersExpire`).
- `session.go:184-190`: the monitor goroutine sends to `errCh` with `s.lock`
  held.  If the error of the renew goroutine fills `errCh` and `Run` has taken
  a signal, `Destroy` never returns (`MCConsulLockSignal`).
- `disappearance_watcher.go:53-54, 109-113`: the goroutine can come to its
  select when both channels are closed, and panic (`MCWatcherStop`).

More are stated as preconditions of properties that hold, and TLC violates the
property without its precondition:

- `lock.go:101-124`: if `Run` reads the error of the session before the result
  of AcquireLock, the error is only logged; `Run` becomes ready with a dead
  session and may never notice.  `LaterLossExits` is about every other loss.
- `handlers/handler.go:36`: an unrecoverable error that is met before `main`
  receives from `exitCh` is dropped (`fatal` in `UnrecoverableExits`).
- `timeout_runner.go:59`: an inner runner is left running when its time is up
  (`LeftBehindOnlyOnTimeout`).
- `presence.go:109`: a success that is read after the error of its session
  stops the retry timer, and the presence is not set again (`LossNoticed`).
- `registration_runner.go:173`: an attempt to register can take effect after
  the service was deregistered (`racing` in `QuietExitDeregisters`).
- `registration_runner.go:127`: `waitForSignal` deregisters an empty ID where
  `pollUntilSignaled` uses the name (`QuietExitDeregisters`).

## Proofs

All theorems hold for every value of the constants that satisfies the named
assumptions of the modules (`TableAssumption`, `ExpirationAssumption`,
`TxnAssumption`, `RunnerAssumption`, `SessionAssumption` and the like): any
number of paths, owners, processes, transactions, runners, sessions, locks of a
joint lock or calls, any ttl, any number of faults, and messages of any length.

| Module | Theorems | About |
|--------|----------|-------|
| `LockDBProofs` | `TableIsService`; `DBInvariance`, `DBTypeCorrect`, `FetchedRowsStay`, `TransactionsAreAtomic`, `TransactionsAreService` | the table implements `LockService`; transactions implement `LockTable`, and so `LockService` |
| `ExpirationPickProofs`, `ExpirationProofs` | `Invariance`, `TypeCorrect`, `EntriesAreServed`, `NewestStaysRegistered`, `ExpiryIsNeverEarly`, `PunctualOwnersKeepLocks`, `ProcessesUseTable`, `ProcessesAreService` | the processes keep the promises of the lock pick, and implement `LockService` |
| `LocketWireProofs`, `LocketMessageProofs` | `SizesExact`, `RequestsTravel`, `RepliesTravel` | every message has the size computed for it and is decoded as it was sent, a Lock request of a later version without the field that is new |
| `LocketAPIProofs` | `ServiceInvariance`, `BuffersFit`, `MessagesArrive`, `LockedIsFetched`, `TypeIsListed`, `SentIsListed`, `ServiceUsesTable`, `ServiceLocks` | what clients of the four calls and readers of the metrics see; the service implements `LockService` |
| `ProcessProofs` | `ProcessInvariance`, `RegisteredIsServed`, `EndsWithoutCalls`, `JointLockIsReady`, `OnlyTimedOutLeftBehind`, `ExitDeregisters` | the ordered groups of `main` and of joint locks |
| `ProcessProofs` | `LockInvariance`, `LockTypeCorrect`, `OneSessionAtATime`, `OneAcquirerAtATime`, `MetricFollowsLock`, `NoSessionAfterReturn` | consul lock |
| `LockRunnerProofs` | `TypeCorrect`, `StaleOwnersStop`, `PromptRunnersHold` | what a client may rely on |

*Table and transactions.*  `TableInv` adds `RowsNewest` to the types: a row
carries the newest index committed under its id, so that an index is never
reused, which is what makes tokens fresh.  `DBIndInv` adds that a transaction
past its fetch has decided on the row as it is now (`Decided`,
`FetchedRowStable`) and holds its row lock (`RowLocked`).  A commit is then one
step of `LockTable`, and every other step stutters.

*Processes that share the table.*  None of the properties of `Expiration` is
inductive by itself.  Its `IndInv` adds:

- `RowsNewest`, so that a copy of a lock can be compared with the row;
- `KnownSound`: every copy of a lock was committed once, and if the row still
  has its index and id the row is that very lock;
- `ClosedLive`: a closed channel still has its goroutine;
- `OverdueLapsed`, `TimersCover`: timers cover what is left of the ttl of the
  row they stand for, and a goroutine that found a lock expired did so after
  its owner had let the ttl elapse.

`ExpirationPickProofs` shows that RegisterTTL, the burglar, the goroutines,
crash and restart preserve it, `ExpirationProofs` that writes, deletes and time
do.  Since every step of a process is a step of `LockTable` or leaves the table
alone, `TableIsService` carries over.

*Messages.*  `LocketWireProofs` is about buffers in general.  A varint is
written in the bytes that sovLocket counts, and is read as the number that was
written.  Each turn of a decoding loop moves the index on or fails, so that the
loops, which are recursive functions of the state of the loop, are defined for
every buffer.  What a turn reads depends only on the bytes it passes, so that a
field or a nested message decodes inside a buffer as it decodes alone.  These
are inductions on the length of a buffer or a list.  Each is stated for a set,
the lengths for which the claim holds (`Induction`, `StrongInduction`).
`LocketMessageProofs` follows Unmarshal field by field, absent fields, absent
resources and fields of a later `locket.proto` included.  What such a field is
(`LaterField`) is said by the encoding and not by the code that skips it: a tag
of a higher number, and a varint, eight bytes, four bytes, a length and as many
bytes, or a group of at most one such field (proto3 writes no groups).
`LaterFieldSkipped` shows that skipLocket passes over exactly its bytes.  The
theorems are about messages short enough for their lengths to be an `int` (`Strings`), and
of numbers within their widths (`IntsOf`), as Go's types make them.

*The service.*  `APIInv` says that the call in progress is one of the requests
or an answer to one (`CallInv`), that a row has the owner, the meaning of type
and the value that its last Lock asked for (`GrantedInv`), that an answer was
right when the handler gave it, but for the rows it had lost (`AnswerInv`), and that the numbers still to be
sent were counted at a moment since the tick (`NotifierInv`).

*Groups.*  `IndInv` of `ProcessProofs` says what an ordered group knows of its
members (`GroupInv`: those before `pos` are ready, those after it do not run,
only those from `pos` on are told to stop), that handlers run only while the
server has not returned (`ServerInv`), that a timed member is ready or gone only
after its inner process (`TimedInv`), and what the registration has left behind
in the agent (`RegistrationInv`).  `ServedWhileRegistered` and `CallsDrained`
need the first two together: the registration is the last member to start and
the first to stop.

*Runners.*  `StaleSoFar` bounds the time a runner has acted without the lock by
what it is waiting for: at most TTL when its Lock is answered, plus what has run
off its retry timer, plus what it has waited for the next Lock, which ends at
TTL.  `PromptSoFar` bounds, before the first fault, the age of the last commit
of a lock in use by the same clocks: it stays below TTL if Retry + 2 * MaxDelay
does (`Prompt`), so that no lock in use is found expired.

*Consul lock.*  `Inv` adds to the properties that the retry timer is not armed
when `Run` is ready.  `NoSessionAfterReturn` is the part of `KeyGivenUp` that
needs no fairness: once `Run` has returned its session is destroyed
(`Abandoned`), and the one acquire goroutine that may be left makes no other.

Every invariant and every step property that a passing run checks is proved.
Only model-checked is what needs fairness, which is out of the prover's reach:
`EveryCallAnswered`, `EveryVersionEnds`, `Acquires`, `KeyGivenUp`,
`EventuallyReady`, `LaterLossExits`, `LossNoticed`, `DisappearanceReported`,
`EventuallyRegisters`, `Reregistered`, `UnrecoverableExits` and `StopExits`.
These are all the properties of the consul presence and of the watcher.  The
proofs of `Expiration` cover several processes and several paths, which its
runs do not.

## Not modelled

- Logging, the wording of errors, the counter of expired locks, the metric of
  the time a consul lock was held: nothing depends on them.
- The ttl in nanoseconds: `time.Duration(ttl) * time.Second` (`lock_pick.go:77`,
  `lock/lock.go:97`) overflows for huge values.  Time is counted in ticks, and
  the product has no small instance that keeps its shape.
- Lengths near the limit of an `int`: where the sum of an index and a length
  read from a message overflows, `postIndex` is negative and the slice panics
  (`locket.pb.go:1381-1385`, `1565-1572`).  Here such a length is refused like
  any that is too long.  Marshal writes no such length, and all that is shown is
  about messages that Marshal wrote.
- A connection that hangs for ever: the first Lock and the Release of
  `lock/lock.go` have no deadline, and calls are answered in the end here.
- `Equal`, `String` and `GoString` of the generated code: used by tests and
  logs.
- The gRPC client and library, TLS, flags, connection strings, the key schema,
  the debug server: configuration and libraries.
- The watcher together with the presences it watches.  Between them is only the
  key in consul, which `DisappearanceWatcher` lets come and go at any time, and
  that includes all that `ConsulPresence` does with it.
