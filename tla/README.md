# A TLA+ model of kvl

kvl (`src/`, Go) is one interface, `store.KVStore`, over two key-value stores:
etcd (`src/etcd`) and consul (`src/consul`).  It adds three things of its own
to what the two servers offer: directories in etcd, a service registry with
heartbeats on both, and locks, TTL keys and watches on consul.  This directory
models the parts where several goroutines, several processes, a clock and a
server that may fail work on the same state.

    cd tla
    tlc -workers 2 -config EtcdStoreTwo.cfg MCEtcdStore
    tlapm EtcdRegistryProofs.tla

PROJECT.json lists the runs with their modules, and says for every definition
which lines of `src/` it models.

## The system

| component | state | operations | interacts through |
|---|---|---|---|
| etcd store, `etcd/core.go` | entries on the cluster; `s.Client`, `s.e.Root`, `chGlobalExit` of each `KVStoreEtcd` | Put, PutLite, PutTTL, PutTTLLite, PutYaml, PutYamlLite, Delete, DeletePrefix, SetRoot, Close; Get, GetYaml, GetPrefix, Exists | requests to etcd; the fields of the store are shared by all its goroutines with no lock |
| etcd registry, `etcd/core.go` 401-554 | three entries per instance, one under a lease; one goroutine per Register | Register, Deregister, DeregisterAll, NameResolver, NameResolverAll | the goroutine and Deregister write the same keys; IsOpen ends the goroutine |
| consul registry, `consul/core.go` 582-976 | services and TTL checks at the agents; `chHeartbeat`, `chHeartbeatEnd`, `hearbeatPresent`, `s.Client` | Register, heartbeatRoutine, Deregister, DeregisterAll, Close; NameResolver(All), QueryService | the two channels, the boolean, requests to the agent |
| consul locks and TTL keys, `consul/core.go` 171-316 | sessions and locks; `locksForTTLKey` | LockObject, Acquire, Unlock, PutTTL, DeleteTTL | callbacks, the global map, Close |
| etcd watches, `etcd/core.go` 345-399 | the channel of the etcd client, `stopCh` | Watch, WatchPrefix, blockFunc | callbacks, the unbuffered `stopCh`, Close of the client |
| consul watches, `consul/core.go` 400-566 | the last listing, `stopCh` | Watch, WatchPrefix, blockFunc | callbacks, the unbuffered `stopCh` |
| consul store | keys at consul | Put, PutLite, PutYaml, Get, GetYaml, GetPrefix, Delete, DeletePrefix, Exists | one request each; the watches see what they do |
| helpers | none | WaitForResult, QueryServiceByID, hostInfo, isLAN, ExternalIP, UnescapeUnicode | called by the above |
| set-up, logging | none after New | New, client and CA construction, log lines | called once |

What is hard about it, and hard to test:

* a Put on etcd is a *sequence of requests* (the key, then from the bottom up a
  Get and maybe a Put for each directory), and every other caller's writes and
  deletes come in between; so do a crash, a refused request and `SetRoot`, also
  between the read of `s.e.Root` and the request that is made with it;
* the heartbeat of an etcd instance and the lease it renews run on clocks one
  second apart, and the retry after a failure is added to the sleep before it;
* a consul heartbeat goroutine may itself register (and so start another
  heartbeat) or deregister, while Close talks to it over two channels and
  reads, without synchronisation, a boolean it writes;
* nothing is rolled back: whatever a call has done when its second request
  fails stays.

What each component has to get right:

* etcd store: an entry is reachable in a tree browser, that is, each of its
  directories has a marker, unless the call that owes the marker is still
  running or gave up on it; an entry that can be seen does not vanish while it
  is stored, unless one of its directories is deleted alone or given a value; a
  call makes a bounded number of requests, whoever interferes.
* etcd registry: who is alive is listed; who is not, is not for longer than a
  lease; who is listed is listed completely.
* consul registry: an instance has one heartbeat; a closed store has no
  registration and no goroutine; the channels are never misused; Close returns.
* consul locks: work under a lock excludes other work; it is cancelled only if its
  lock was taken away or its monitor could not find out; nobody keeps the key for
  ever.
* etcd watches: each subscriber is told of every event he asked for, once and in
  order, whatever the other subscribers of the client do; Close ends them.
* consul watches: whatever comes between two results, the function is called with
  the last version of each key that was modified; the stop value ends the blocking
  it is meant for.

## Modules

**EtcdPaths** - keys as sequences of names.  A prefix of etcd is a prefix of
*bytes*, and a directory is a prefix of *names*; `HasPrefix` keeps the two apart
with the relation `NamePrefix` ("a" begins "ab").

**EtcdStore** - several stores, several goroutines, one cluster.  `kv` is the
cluster, `root` and `status` are the fields of each store, `call` is what each
goroutine executes.  Each action is one request with the local code up to the
next request: `Put` writes the key; `Check` and `Mark` are the Get and the Put
of one round of `buildForDirectory`; `Grant` and `PutLeased` are the two
requests of `PutTTLLite`.  `s.e.Root` is read some time before the request, with no
lock: `seen[g]` are the roots the store has had since g's last step, and a request
is made below any of them, so that `SetRoot` and, say, a `DeletePrefix` of another
goroutine fit between the read and the request.  (`Requested` starts it anew with
the request.)  `bare` is a history variable: the directories some call left
without their marker, because it deleted the directory alone or put a value over
it, its write or its process failed, the root moved between what it had put and
what it was still to mark, or it was a Lite call, which marks nothing.  Reads outside
the walk change nothing and are not actions.

**DirTree** - the abstract specification of what a browser shows: a set of paths
that grows at one place at a time and shrinks only by one of the prefixes that
are deleted (`Prune`), by one of the entries that are deleted, with what is below it
if it is a directory (`Drop`), by a value over a directory (`Cover`), or by an entry
that expires, which has nothing below it (`Fade`).  EtcdStore implements it under the
refinement mapping `tree <- Visible`.

**EtcdRegistry** - one service name.  `tags`, `meta` and `addr` are the entries
of the instances, `addr` holding the seconds its lease still runs.  `beat` are
the goroutines of Register: `Grant` and `PutAddr` are the requests of PutTTL,
`CheckOpen` is the loop's condition, `WakeUp` the end of its sleep; `Tick` is a
second.  `disturbed`, `struck` and `quiet` are history: deregistered, or with a
heartbeat that was refused or late, since a whole lease was last granted and put;
deregistered since last complete; seconds without a goroutine.  The
directory markers its puts leave are EtcdStore's subject.

**Membership** - the abstract specification of what a registry on leases promises
its readers.  A server serves one instance and gives its word (`Promise`), good for
a term from then on; with it, once, it lists its own instance for what is left of
the term (`Renew`).  A listing ends by time (`Pass`) or is struck, which is on record
until somebody joins for the instance again; no server's end, failure or word for
another instance takes it away.  EtcdRegistry implements it with a term of TTL + 1:
who serves an instance are the running goroutines (`Serving`), their words the leases
they were granted and have not put, what is left of a listing is `addr`, and the
record is `struck`.

**ConsulRegistry** - the processes, their stores and agents.  `task` is what
the application's goroutine of each process and each heartbeat goroutine
execute; both run the same Register and Deregister, so that `Query`,
`ServiceRegister`, `Begin`, `DeregisterFast`, `Look` and `Remove` take either.
`Heartbeat`, `Receive` and `ReceiveClosed` are the cases of the select; `Close`,
`Receive`, `ReleaseLocks`, `Await`, `CloseChannels` and `ClearClient` are the
steps of Close between two accesses to shared state.  An application registers
the ids of its process (`IdsOf`), which the runs make all of them or its own.  The
ids in `Vague` are registered with an unspecified ip or with port 0; the heartbeat's
own Deregister then is one of all instances, which skips the fast way (`NewBeat`,
`Begin`) and depends on a consulapi service being found (`Look`).  consul itself is
`Lapse` (a TTL check runs out) and `Reap` (DeregisterCriticalServiceAfter).

**Handshake** - the abstract specification of how a process takes leave of its
heartbeats: it asks one, waits for the answer, shuts the channels and is gone.
ConsulRegistry implements it under `Phase`, which reads off the goroutines, the
buffered answers and `shut` where a process stands; the number of heartbeats, the
calls they are in and hearbeatPresent are gone.

**ConsulLock** - callers of Acquire, each with a lock object of the consul library,
for one key.  `holder` is the key in consul; `session`, `ch` and the action
`Notice` are the library's lock object: what it is held for, the channel its Lock
returned, and the monitor that closes it.  `main` is the caller, from `Acquire` and
lock.Lock (`Locked`, `NotLocked`) to the block function (`Block`, `Wake`); `work` is
his goroutine (`Doing`, `Select`, `Done`).  Unlock by somebody else, Delete of the
key, sessions that end and processes that crash interleave with all of it.  `lost`
is history: something else than the goroutine ended the caller's hold; so is
`blind`: the caller's monitor gave up, and closed the channel, while he still held
the key.  A caller makes one Acquire at a time and has his object for himself
(OwnObject).

**Lease** - the abstract specification of work under a lock that can be revoked:
one is in, others are out or astray (set out without the lock, or lost it), and
who is asked to stop is astray or in doubt.  ConsulLock implements it under `Stage`,
which reads where a caller stands off his work, his channel and `lost`, with
`blind` for doubt; the sessions and monitors between them are gone.

**EtcdWatch** - the watches of one store.  `log` is etcd, one key for each revision.
The goroutine of a watch takes a response with one event or several (`Respond`),
calls the function once for each (`Call`), and goes back to its channel (`Handled`)
until that is closed (`End`): by `Close`, which drops what is buffered, or because
etcd gave the watch up.  The channel and the client's reconnections are the etcd
client's (external).  After `Limit` calls each call of the function ends in a send
over `stopCh` (`send`), which only the block function takes (`Block`, `Handover`); a
watch in `NoStop` has a nil `stopCh`, as etcd allows.  `told` is history.

**Feed** - the abstract specification of a subscription: events happen, and the
next of those that are wanted is told.  Every watch of EtcdWatch implements one.

**ConsulWatch** - the consul store and one watch on it.  `kv` and `index` are
consul, where a version of a key is the index of its last write; `Put`, `Delete`
and `DeletePrefix` are the store's calls, of which the last takes all the keys of a
prefix at one index.  `Query` is a round of the library's plan, which
goes from one index to the newest; `Reports` decides, with the comparison of
WatchPrefix place by place, which keys the handler calls the function with, and
`Report` is one call.  `Block`, `Handover` and `Stop` are the block function and
the rendezvous over `stopCh`.  `told` is history: the version in the last call
about each key, nothing the function was not called with; so is `base`: the index
at which the plan last got a listing after none or an empty one, which is saved
without a call.

**MCEtcdStore, MCEtcdRegistry, MCEtcdWatch, MCConsulRegistry, MCConsulLock** give
the constants values; ConsulWatch has numbers only and needs none.
**EtcdStoreProofs, EtcdTreeProofs, EtcdRegistryProofs, EtcdWatchProofs,
ConsulRegistryProofs, ConsulCalmProofs, ConsulLockProofs, ConsulWatchProofs** hold
the theorems.

Definitions named "mutant" in a comment are wrong on purpose; no specification
uses them.  Each is a plausible error in the definition after it, and the check
that it breaks a property shows that the property depends on the code.

## Runs

| run | checks | shows |
|---|---|---|
| EtcdStoreTwo | TypeOK, TreeClosed, NeverHidden, BrowsesAsATree | two processes put, put with a lease, mark and delete overlapping keys, directories among them, with refused requests, lost answers, crashes and expiry |
| EtcdStoreShared | TreeClosed, NeverHidden, CallsShorten | two goroutines of one store, with SetRoot between roots of which one begins the other ("r", "rs"), also between the read of a root and its request, directories deleted alone, and Close, panics on the nil client and on the channel closed twice included |
| EtcdRegistryFaulty | TypeOK, StaleBound, ListedIsComplete, AliveIsListed, ListsItsMembers, CloseEndsBeats | every fault at once, and machines so slow that a lease runs out between its Grant and its Put; who is neither refused nor late stays listed all the same |
| EtcdWatch | TypeOK, FeedsInOrder, EventuallyTold, CloseEndsWatches | two watches of one client, with and without a `stopCh`, of which one wants what the other does and more |
| ConsulRegistryWild | TypeOK, ChannelsSafe, ClosesByHandshake, CloseGetsOut | two processes at one agent with every fault, late heartbeats, and with or without a consulapi service |
| ConsulRegistryCalm | OneHeartbeat, AliveIsRegistered, EndLeavesNothing | two processes at one agent, one with one service and one with two, of which one has an unspecified address; with or without a consulapi service; requests that are not refused though their answers may be lost, crashes, Close: what the protocol gives when its server works |
| ConsulLock | TypeOK, Exclusive, CancelledHasCause, OnlyCancelledKeeps, WorksUnderLease, BlockReturns, Freed | two callers with failed requests, lost sessions, monitors that lose consul, crashes, and others that unlock the object and delete the key |
| ConsulWatch | TypeOK, UpdatesTold, KeyIsExact, EventuallyTold, SendEndsBlocking | Watch or WatchPrefix on keys that are created, changed and removed while results are handled |
| EtcdRegistryMissed | RenewedInTime *violated* | see disagreements |
| EtcdWatchStuck | CloseCleansUp *violated* | |
| ConsulRegistryAgain | RegisteredBeats *violated* | |
| ConsulRegistryHang | CloseReturns *violated* | |

**Bounds.**  Every bound is a constant or a guard that says so.  Two goroutines
are enough for each hazard of the store: one walks up, the other deletes, marks
or moves the root; the depth is three names, so that a walk has two rounds and
can be overtaken between them, and a directory can be missing below one that
exists.  `Beat` bounds the heartbeats that run at a time; Register waits for a
free one (`Room`), so that bounding them only delays calls.  Two heartbeats make
every race between an old and a new lease; the consul registry has two as well
in ConsulRegistryWild (a failed heartbeat starts the second) and three in
ConsulRegistryCalm.  TTL is 2, so that a lease outlives several steps, and 8
(Register's default, with its retry of 3 s) in EtcdRegistryMissed.  The etcd
registry has one id: with two, of which one begins the other, TLC does not end in
time, and that case is left to the theorems.  `quiet` stops counting beyond the lease.  Two callers
of Acquire are what exclusion is about; each repeats for ever.  A watch has three
keys, so that one goes or comes before, between and behind others, and five writes
(MaxIndex 6): enough to create three, remove the first and change one that has
moved to its place; a prefix takes two of them or all.  After two calls the
function ends the watch (Limit).  An etcd watch has four events on two keys, so that
a response can skip, group and be followed by another, and its function sends from
the second call on, so that it can send to nobody.
Symmetry is used in runs of safety properties only.

**Fairness.** EtcdStore: none.  Put, Grant and Delete have a context without a
deadline (etcd/core.go:227, 253, 311), so that a request may never be answered and
its call never return; what is checked instead of a return is CallsShorten.
EtcdRegistry: time passes, goroutines are scheduled. With
"slow" among the faults a second may pass at any moment; without it, `Tick`
waits for the runnable goroutines, and a program that calls without end within
one second could hold the clock, which is why CloseEndsBeats is checked where
machines may be slow. Close, once begun, is scheduled, and closing the client ends
its requests in flight. ConsulRegistry: goroutines are scheduled, requests to the
local agent are answered or refused, and the rendezvous `Receive` is
strongly fair: Go's select picks at random among the ready cases, so a Close
that waits for it is served although heartbeat and other calls disable it from
time to time. ConsulLock: doingSth returns, which is the caller's part of the
bargain; monitors see what has happened in consul; consul ends a session that is
not renewed; no request of a monitor *has* to fail, and no one has to unlock for
another. EtcdWatch: the goroutines are scheduled and the client gets its responses;
nobody has to call the block function, to close or to write. ConsulWatch: the
goroutine is scheduled, and the caller calls the block function, as store/store.go:72 demands. Crashes, refusals and application calls
have no fairness.

**Deadlock** is checked in every run but those of ConsulWatch and EtcdWatch: an
idle application can always make a call.  In the watches the writes are bounded,
and a callback that sends when nobody receives is blocked for good.

## Theorems

For every value of the constants allowed by the assumptions of the modules
(which TLC evaluates in the runs):

* `EtcdStoreProofs!TypeCorrect`: TypeOK.  It is not inductive alone: `Mark` writes
  the key cut at `n`, which is a path only as long as the walk has not left its
  key (Fits: 1 <= n <= Len(key) in a walk).
* `EtcdStoreProofs!CallsComeToTheirEnd`: CallsShorten, for any keys and whoever
  interferes.  `StepsLeft` counts the requests a call has still to make; by Fits a
  walk is at a place of its key, so that what is left is a number, and each of its
  steps takes one or two off it or ends the call.
* `EtcdTreeProofs!TreeStaysClosed`: TreeClosed, *assuming* `RootsApart`: no root is
  below another, for a walk never marks its root or what is above it, and one root's
  directories would then be another's.  (MCEtcdStore assumes it of the runs' roots.)
  Which keys are put, marked or deleted is free: a directory may be deleted alone or
  given a value.  The invariant adds two things.  MarkersStay: no marker has a lease,
  so that none expires.  CallsHonest: only a walk owes markers, and a write under a
  lease is of a value, at the key given at the call, below a root of then.  With them
  each step accounts for a directory that loses its place among the owed (Kept): by
  its marker, or by `bare`.  A walk is good for its directories only while its store
  has had one root since its last step (`Owed`); when that ends, by SetRoot or by the
  process, all that it still owed and that has no marker goes to `bare` (GivenUp).  A
  request that lands below a root that is not the store's any more is made by nobody
  who will mark its directories, so that those without a marker go there too
  (WriteKeyClosed, MarkClosed).  Else a new marker needs its own directories, which
  are what the walk still owes (DirsAreOwed), for it goes from the bottom up; and a
  deleted byte prefix takes with a directory all that is below it (PrefixOfDir).
* `EtcdTreeProofs!NothingElseHides`: NeverHidden, with no assumption: what a step does
  to the cluster is a marker, a value, the delete of an entry or of a prefix, or an
  expiry (StepEffect), and of these only a value over a directory and the delete of
  one take a marker and leave what is below it (MarkerGoes).
* `EtcdTreeProofs!StoreImplementsDirTree`: BrowsesAsATree, with no assumption either.
  Beside MarkersStay it takes that a value is at a key somebody gives values to
  (Plain).  A marker brings into sight its own entry and what waited for just that
  marker, all of it below (MarkShows).  A value, like the delete of one entry, leaves
  what is below it without a directory, and so out of sight (Uncovered), if there is
  any.  A prefix takes the directories of an entry only with the entry (PrunePrunes),
  so that it takes from what can be seen what it takes from the cluster.
* `EtcdRegistryProofs!TypeCorrect`, `ListingIsBounded`: TypeOK and StaleBound
  are invariants.  StaleBound (`addr[i] + quiet[i] <= Lease`) is not inductive
  alone: a put by a running goroutine sets `addr` to a whole lease, which is only
  sound if `quiet` is 0 then.  `IInv` therefore adds that a goroutine has an id
  exactly while it runs (Assigned) and that an id that is served is not quiet
  (ServedIsNotQuiet).  A lease in the hands of a goroutine is at most TTL + 1 by
  type, and `Tick` takes one from it and gives one to `quiet` at most.
* `EtcdRegistryProofs!ListingIsComplete`: ListedIsComplete, from IInv and that
  every id with a goroutine is complete or struck, for a Register starts the
  goroutine after both puts were answered, and only Deregister takes them away.
* `EtcdRegistryProofs!AliveStaysListed`: AliveIsListed, for every TTL.  No sleep is
  longer than the TTL (SleepInv), so that the whole lease an undisturbed heartbeat
  puts outlasts it; `addr[i] > sleep` for each loop of an undisturbed id (HeardInv)
  says so at every second.  When the sleep is over, the second that is left has the
  next Grant and Put, or is counted as a disturbance (Overdue).
* `EtcdRegistryProofs!RegistryImplementsMembership`: ListsItsMembers, for any
  processes, ids and faults.  A put of the address is a Renew: a goroutine between
  Grant and Put has its id (Assigned), so that it lists what it serves, and its lease
  is its word, more than zero and no more than TTL + 1 by type, although seconds have
  passed since its Grant; the goroutine may end in the same step, after an answer that
  was lost.  Only `Deregister` maps to a Strike, and its ids are in `struck` after it;
  a Close, a crash, a heartbeat that fails or a Register that is abandoned leaves every
  listing as it is.
* `EtcdWatchProofs!TypeCorrect`, `WatchImplementsFeed`: TypeOK and FeedsInOrder, for
  any number of watches, keys and events.  The loops stand where the last
  call was made, or at the start if there was none (InStep), and a response never ends
  beyond etcd; so the event a call takes is the next one wanted.
* `ConsulRegistryProofs!TypeCorrect`, `ChannelsAreSafe`: TypeOK and ChannelsSafe,
  for any number of heartbeats.  The capacity of 3 plays no part: `Protocol`
  says that at most one goroutine of a process has been told to end, that Close
  is then between its send and its wait, that no answer is in the buffer yet, and
  that hearbeatPresent is TRUE, so that Close does not pass by the answer.  The
  last conjunct is what makes the second read of hearbeatPresent harmless in this
  direction; in the other it makes Close hang (ConsulRegistryHang).
* `ConsulRegistryProofs!CloseImplementsHandshake`: ClosesByHandshake, with every
  fault and any number of heartbeats, from the same invariant: a goroutine that ends
  is the one that was asked, no answer is in the buffer then, and Close closes the
  channels when nobody is asked.  Each step moves one process in one step of
  Handshake or in none (Moves).
* `ConsulCalmProofs!InstancesBeatOnce`, `BeatsAreRegistered`, `EndsDeregistered`:
  OneHeartbeat, AliveIsRegistered and EndLeavesNothing, *assuming* `Calm`: no request
  is refused (answers may be lost and processes crash), nobody deregisters but Close,
  each service has one instance, and processes at one agent register different ids,
  as ids made of ip and port are.  That is what ConsulRegistryCalm checks; with
  refused heartbeats they are false (see disagreements).  Until a store's channels are closed its heartbeat either beats
  for what the agent has or, told to end, takes it off (InOrder), so that no heartbeat
  registers again and Register finds no second goroutine to start.  When the answer
  to the removal is lost, the slow way that follows finds nothing of any other
  instance to take: those it looks for are of the one service, and it is gone.  The
  heartbeat of an id in `Vague` goes the slow way at once, with all the instances of
  the service to take, of which its own is the only one; but where no consulapi
  service need be found it may end with its registration still there (Remains), as
  EndLeavesNothing says.  That
  the processes at an agent leave each other alone is an invariant of its own
  (OwnInv): each goroutine, also one that runs on behind a Close, is busy with an id of
  its process and takes off no other, so that a step changes what the agent has of
  those ids only (Touches).
* `ConsulLockProofs!TypeCorrect`, `WorkIsExclusive`, `OnlyWithCauseCancelled`: TypeOK,
  Exclusive and CancelledHasCause, for any callers with objects of their own.  That
  two callers exclude each other says nothing of one; what is inductive is that
  who works and has not lost his lock *holds* it, in consul and in his object
  (RightfulHolds), which takes that an object is held for its own caller only
  (OwnSession, the place where OwnObject is needed).  ClosedHasCause gives
  CancelledHasCause: a channel closed while the work goes on was closed for a hold
  that was gone, which was not the goroutine's doing, or by a monitor that gave up.
* `ConsulLockProofs!AcquireImplementsLease`: WorksUnderLease, from the same
  invariants: every step moves one caller, and who enters finds nobody in, for the
  key is his; who is in and is cancelled is in doubt, by CancelledHasCause.
* `ConsulLockProofs!HeldIsWorkedOrCancelled`: OnlyCancelledKeeps, inductive with the
  same invariants: `Select` passes the unlocking by only when the work is cancelled,
  and then its lock was lost or out of sight (CancelledHasCause); lock.Lock makes an object held only
  as the work begins, and of its own caller (OwnObject).
* `ConsulWatchProofs!TypeCorrect`, `ModificationsAreTold`: TypeOK and UpdatesTold,
  for any number of keys and writes.  The comparison takes the k of the new listing
  for unchanged if the pair at its *place* in the old one has its version.  A
  version belongs to one write of one key, so that whatever pair that is, the plan
  had seen k's version by then, and k was in the old listing as it is
  (UnreportedIsOld, from InTime); then the function was called with it since, if it
  was due then (ToldOrComing), and what is due stays so until the listing is empty.  A
  listing that there is nothing to compare with makes nothing due: all in it is as old
  as the listing (`base`).
* `ConsulWatchProofs!KeyIsTold`: KeyIsExact.  For one key (OfOneKey) what is saved,
  told and still to be told are all about it, so that the comparison by places is
  that of the key, and the one call there can be tells what the result has.

Only model-checked: liveness (fairness and ENABLED are beyond the prover).  Every
invariant, action property and refinement of a passing run is proved.

## Disagreements between the code and what is said of it

With a run (PROJECT.json, findings):

* one failed heartbeat delists a live etcd instance: ttl + retry exceeds ttl + 1
  (RenewedInTime);
* closing an etcd store does not end the goroutine of a watch whose function sends
  over `stopCh` when nobody is in the block function any more, as that of
  TestEtcdWatch does (CloseCleansUp); store/store.go:73 says all are cleaned up;
* consul Register of an id the agent still has starts no heartbeat, so that a
  process restarted quickly is reaped while it runs;
* a consul Close that finds hearbeatPresent set at its second read and not at its
  first waits for ever.

Met in reading and followed by the models, without a run of their own: most are one
step, and a statement of it would repeat the line; the races among them (consul 699 and
710, etcd 441) take several steps, and are what the properties name as an exception.

* `Delete("config/gwapi")` of the README deletes one key and not what is below,
  which no browser shows any more (DeletedAlone in NeverHidden);
* `buildForDirectory` puts its marker over a value that is stored at a directory
  (203), and a Put of a value at a directory hides what is below it;
* a Put whose root is changed by another goroutine leaves its key below the old root
  and its markers below the new one (223);
* `Put` returns nil although the put of a marker has failed (etcd/core.go:204);
* `DeletePrefix("")` under the root "r" deletes the keys of the root "rs" (322);
* etcd Deregister of an id takes the ids it begins (496), and all ids when it is
  not given ip and port; tags and meta have no lease and outlive a crash (424);
* `NameResolverAll` on etcd reads the key as an ip and "ip:port" as a port, and
  returns none of what Register lists (545);
* consul Deregister takes the first instance of the service *name* (895), and the
  callback of opThatClient uses the store's own agent, whichever was found (820);
* a TTL update that fails on a check already reaped registers again and starts a
  second heartbeat, of which Close ends only one (699);
* a deregistered etcd instance is put back by its heartbeat goroutine, which only
  ends with its store (etcd/core.go:441; 488 says deregister revokes it);
* a consul Close right after Register deregisters nothing, for hearbeatPresent is
  set by the goroutine itself (710);
* Acquire whose lock.Lock failed does its work all the same, without a lock, and its
  block function never returns (211, 238); it also unlocks the object in the end:
  without OwnObject, TLC breaks Exclusive in ten steps, as one caller's Lock fails,
  another locks the same object, and the first one's goroutine unlocks it;
* a monitor whose request fails closes lockCh with the lock still held: the work is
  cancelled, does not unlock, and its session is renewed for ever (222-225); this is
  the exception (Abandoned) in Freed;
* WatchPrefix calls nothing for what it finds first, never reports a removal, reports
  a new key only behind the end of the old listing, and starts over after an empty
  listing: a key that is written again before the first listing after it is not
  reported (503-535);
* Deregister with an id and with an unspecified ip or port 0 is one of all the
  instances, skips the agent's own, and deregisters nothing when no consulapi service
  is found (consul/core.go:796-806, 783), although reg.go:19 allows such an address;
* "stopCh <- true" does not always end the goroutine of the Watch, as the comment at
  consul/core_test.go:112 has it: if the callback sends once more, for an event
  handled before the plan is stopped, it is blocked for good (463).

## Not modelled

Requests to etcd that are never answered: a call may stand still for ever, which
takes nothing from the properties of EtcdStore, for they assume no fairness, but no
heartbeat goes on after one.  The read of `s.e.Root` while SetRoot writes it takes one
of the two strings: that a torn one may come of it is left out.  Reads (Get,
GetYaml, GetPrefix, Exists, NameResolver and the catalog queries) change nothing and return what one request gave.  SetRoot
of consul moves later calls only: a watch keeps the root of its start, and no call
makes a second request below it.  Connections, TLS and CA files, configuration and logging
are straight-line I/O executed once.  YAML marshalling belongs to its library.
`locksForTTLKey` holds lock objects that nothing locks: DeleteTTL and Close get an
error for each, and the map is written without a lock.  An etcd watch on a client
that is nil panics at once.  The pure helpers (hostInfo, isLAN, ExternalIP,
WaitForResult, UnescapeUnicode) keep no state and interact with nothing: what they
compute is for unit tests more than for these models, and they are planned last.

## Plan

Written, in this order: EtcdPaths and EtcdStore (the core of the store), DirTree
above it, EtcdRegistry, ConsulRegistry, ConsulWatch and ConsulLock, EtcdWatch with
Feed, Lease above ConsulLock, Membership above EtcdRegistry and Handshake above
ConsulRegistry, each with its proofs.  What would come next:

1. **Pure algorithms**: which address hostInfo, isLAN and ExternalIP choose, the
   waits of WaitForResult, UnescapeUnicode and its surrogates, against reference
   definitions over small inputs.
2. **Membership for consul**: its listing has a TTL check in the place of a lease,
   and a reap behind it; whether one abstract registry can hold both, with the time
   that consul leaves open.
3. **Proofs**: measures like StepsLeft for Close and for a watch's hand-over, the
   part of CloseGetsOut and SendEndsBlocking that needs no fairness.
