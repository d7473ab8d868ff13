# confort in TLA+

confort starts Docker containers for Go tests and shares them: between the
tests of a process, and, with `confort test` and its beacon server, between
test processes. Which test may use which container, who initialises it, who
builds an image and who gets which unique value is decided by a handful of small
concurrent components. These modules model them, TLC checks them on small
instances, and TLAPS proves all of their safety properties for every
number of callers, containers, values and commands. What the locks add up to for
their callers is an abstract specification, which the detailed ones are shown to
implement. Other modules follow networks, images and containers from creation to clean-up, a
container from its start to a command executed in it, and the commands with the
lock file.

## The system

| component | source | state | operations | talks to |
|---|---|---|---|---|
| semaphore per name | `internal/exclusion/keyedlock.go` | a `semaphore.Weighted` of `max` tokens per name | Lock, Unlock, Downgrade, RLock, RUnlock | x/sync |
| acquirer | `internal/exclusion/acquire.go` | a queue of entries, each the set of names a call still wants; a `proceed` channel per entry | Acquire (accept, removeLockedKey, remove, proceed), Release | runs the `Lock`/`Unlock` of its caller, one goroutine per name |
| locker, control | `internal/exclusion/locker.go`, `control.go` | a mutex for the namespace, KeyedLocks for build, setup and use, a `Once` per container | LockForNamespace/Build/ContainerSetup, AcquireContainerLock, SetInitResult, Release; LockForContainerUse with init functions | acquirer, KeyedLock, oncewait |
| beacon server, client | `internal/beacon/server/beacon.go`, `control.go` (beaconControl) | a Locker in the server; a stream and a handler per call | the four lock RPCs, each a conversation on a bidirectional stream | gRPC, Locker |
| unique values | `unique/unique.go`, `internal/beacon/server/unique.go` | a map of given values; stores in the server | New, Must; StoreUniqueValue | gRPC |
| docker backend | `backend.go` | networks and containers, some of them other processes' | Namespace, BuildImage, StartContainer, Release | Docker |
| confort | `confort.go` | the namespace, the clean-up functions | New, Build, Run, Use, Acquire, Close | control, backend |
| commands | `internal/cmd`, `cmd/confort` | the lock file, the server, labelled Docker resources | start, stop, test | beacon server, Docker |
| connection | `internal/beacon/*.go` | the address in the environment or the lock file | Connect, Address, StoreAddressToLockFile | file system, gRPC |
| waiter | `wait/wait.go` | interval, timeout | Wait, with LogContains, Healthy, CommandSucceeds | Docker |
| exec | `exec.go` | the ID of an exec, writers | CreateExec, Start, Wait, Run, Output, CombinedOutput | Docker |
| config consistency | `config_consistency.go` | none | checkConfigConsistency | |

What is hard: calls that take several containers in any order, with contexts
that end at any moment; init functions that fail, or whose process dies, between
the lock for them and its downgrade; a server that holds locks for clients that
are gone; messages and answers lost on the way; the clean-up of what only some
of several steps created; containers that exit while somebody waits for them;
a lock file that several commands look at, write and remove. `PROJECT.json` lists these places as hazards, each
with the properties that watch it.

What makes each component correct:

* semaphore: a writer is alone; the tokens taken are those the holders have; a
  free token never lies beside a sleeping waiter; first come, first served.
* acquirer: calls that share a name get it in order of arrival, others do not
  wait for each other, no deadlock, nothing left behind by a call that failed.
* locker: exclusive use is exclusive; an init runs alone and succeeds at most
  once; an init that failed can be tried again; all of a call's locks or none.
* beacon server: what a client thinks it holds, the server holds for it; what a
  client leaves behind, the server cleans up; everybody is answered.
* unique: no value twice, no value lost without an error, every call returns.
* backend and confort: a resource is removed if and only if the policy says so,
  and by whom it says so; test processes of one server do not create the same
  thing twice; Close leaves nothing behind.
* commands and connection: what the tests created is gone when they are over,
  whatever became of them, and what belongs to others is not touched; a server
  that runs can be found; a test does not run without the server it was to use.
* start, waiter, ports: who is told that a container runs has found it ready,
  with all its ports; everybody is told something.
* config consistency: a container is reused if and only if it has what is asked
  for.
* exec: a command is executed once, and an error that is nil means that it
  succeeded.

## Modules

| module | models | state |
|---|---|---|
| `KeyedLock` | `keyedlock.go` over `semaphore.Weighted` | `st` what each caller holds or waits for, `cur` tokens taken, `waiters` |
| `Acquirer` | `acquire.go` | `queue`, `set`, `proceed`: the controller; `phase`, `job`: the call and its goroutines; `done`: ended contexts |
| `Locker` | `locker.go`, `control.go` (control) | `Acquirer` and `KeyedLock` by INSTANCE, `once`, and what a call remembers of its locks |
| `Beacon` | AcquireContainerLock over gRPC, both ends | `Locker` by INSTANCE, the client, the stream in both directions, the handler |
| `LockStream` | the other three lock RPCs, both ends | the owner of each lock, client, stream, handler |
| `Unique` | `unique.go` in both places | maps, mutexes, stores, the state of each call |
| `Backend` | New, Build, Run, Close of `confort.go`, `backend.go`, the end of `confort test` | Docker's network, containers and image; of each instance the request it is at, and its dockerNamespace |
| `ContainerUse` | what LockForContainerUse promises, for `Locker` and `Beacon` to implement | who uses which containers, which ones are initialised |
| `Startup` | Run of `confort.go` down to CreateContainer and StartContainer of `backend.go`, `wait.go` | the container and its lives; of each instance the step of Run it is at, and its containerInfo; `Exec` by INSTANCE |
| `Exec` | `exec.go` | the fields of a ContainerExec, the method under way, the exec at Docker |
| `ConfigConsistency` | `config_consistency.go` | none: operators, and a reference definition |
| `Commands` | `internal/cmd`, `internal/beacon` (Address, Connect, lock file) | the lock file, the servers, the step each command and test is at, labelled resources |
| `KeyedLockProofs`, `AcquirerProofs`, `LockerProofs`, `BeaconProofs`, `UniqueProofs`, `BackendProofs`, `StartupProofs`, `CommandsProofs` | | theorems, inductive invariants and lemmas; `BeaconProofs` is about `LockStream` too, `StartupProofs` about `Exec` and `ConfigConsistency` |
| `MC...` | | the constants of the runs |

`Locker` composes `Acquirer` and `KeyedLock`, `Beacon` composes `Locker` with the
streams, and `Startup` composes the start of a container with `Exec` and
`ConfigConsistency`.

### How the state corresponds to the code

A *process* of `KeyedLock` is a goroutine that calls the lock for a name. It has
one call for a name under way at most, because the code uses these locks only
from `Acquirer` (one goroutine per call and name) and from handlers (one lock
per stream). `semaphore.Weighted` is external; its version in `go.mod` (v0.3.0)
does not look at the context when there are tokens, puts a newcomer behind the
waiters, and lets a cancelled waiter at the front wake those behind it. `Notify`
says this declaratively: the longest prefix of the waiters that fits is woken.

In `Acquirer` every method of `acquireController` is part of one step, as its
mutex makes it. A goroutine that runs a `Lock` is `job[p][k] = "run"`; when the
lock is there it calls `notifyLock`, which takes the name out of the entry and
lets others proceed. An entry whose name is taken out last leaves the queue. The
code looks at `len(e.set) > 1` and leaves the last name in a set it will not
look at again; here the set becomes empty. If a `Lock` fails, the context of the
errgroup ends and the others fail or succeed, as they happen to be. `GiveUp` is
the `ctx.Done()` case of the select: it returns, and that is all it does.

`Locker` follows the goroutine of a container through `once.Do`, the lock and
`notifyLock` (`at`), then the init functions of `control.LockForContainerUse`
and `SetInitResult`, and the release. `runs` is a history variable: how often
the init of a container succeeded. `oncewait.Once` is external: `Do` runs its
function for one caller and makes the others wait for its return; `Refresh`
makes it new.

`Beacon` puts a stream between the init functions (at the client) and
`SetInitResult` (in the handler). A client that dies is one whose context ends:
the handler's `Recv` and `Send` fail from then on, at the latest. Of a message
that has arrived and an ended context, `Recv` may return either. The handler's
`initTargets` is `initPending` of `Locker`, and `i` is the counter of its loop,
whose bound is the length of the map it deletes from.

`LockStream` uses that a KeyedLock used with `Lock` and `Unlock` only, or a
mutex, has one owner at a time (theorem `Safety` of `KeyedLockProofs`). The
three handlers are the same but for one thing: LockForNamespace waits for a
`sync.Mutex` and does not see the context end (`Mutex`, `LockError`).

`Unique` keeps the two generators apart by what they are unique in (`Scope`):
a local one in itself, a global one in its store at the server, by the text
`fmt.Sprint` makes of a value (`Sprint`). The uint of WithRetry wraps
(`width` bits).

`Backend` has one step per request to Docker, so that whatever other instances do
may happen between two requests of one; only what is in memory is part of the
step that uses it. `pc` is the request that comes next, `existing` what
ContainerList returned (backend.go:376 looks at that copy), `term` the list of
clean-up functions. IDs matter: a function removes the container it was made
for, not one with the same name. As an instance creates at most one network, and
one container of each name (it goes on knowing the first one, even if others
have removed it), the creator serves as the ID. Whether two configurations agree is a free choice, and
any request may fail. The locks are those of `LockStream`, as atomic steps: free
or owned, and given back when the owner's process dies. Docker's rules are few:
a name exists once, a network with running containers cannot be removed, and a
container can only start if its networks exist.

`ContainerUse` has three variables and no idea of queues, semaphores, Onces,
streams or failures: a call gets all of its containers in one step if nobody else
uses one of them in a way that excludes it, gives them back in one step, and an
init succeeds once per container, while nobody uses it. In `Locker` a call uses
its containers from the return of LockForContainerUse to its release. In
`Beacon` it does so as the client sees it, which is not what the server sees. Two
kinds of client are `outside` of the promise: one whose context has ended, as the
server then gives its locks to others whatever it still does, and one whose call
has two inits, for the reason the run `Beacon_twoinits` shows; the containers
such a call initialises may be initialised again (`Split`). What they do does
not take anything from the promise to the others; that they may initialise while
others use the container is what `Initialise` allows them.

`Startup` has all Runs of one container, under LockForContainerSetup. Every start
of a container is a life, and the number of its first life is its ID: after an
exit, AutoRemove makes the container vanish a while later and the name free, and
an instance that knows the old ID must not take a new container for it. The
waiter is the one of the first call of an instance, as containerInfo keeps it.
`expired` is the deadline that counts where a Run is: 30 seconds for the ports, the
waiter's timeout, or the caller's. A Waiter's check and the select after it are
two steps, so the deadline and the container's end may come between them. What is
compared (`conf`) is chosen when the comparison happens, and only in the setting
that the module's comment names, as it does not depend on the rest;
elsewhere either verdict is possible.

`ConfigConsistency` has one field for every way of comparing, and not the sixty
fields of the code, as fields do not influence each other. `Created` says what
Docker makes of a configuration: an instance that finds a container compares with
that, one that knows it compares with what it asked for itself (`Seen`).

`Exec` starts the command where Docker does: Start only creates the exec, Wait
attaches to it, and that is the start. An attach may take effect and its answer
be lost. ContainerExecInspect reports 0 for a command that has not ended.

`Commands` names a server after the command that started it, which also serves
as its address, and has the resources of a test process as one thing. os.WriteFile
is two steps: the lock file exists, and is empty, before it has the address, and
what is written to a file that was removed meanwhile is lost (`gone`). `raced`,
`served` and `late` are history: a start was begun while another was not done; a
test began when there was an address to read; who listed the resources before
which test was over.

Mutants, operators named `...Something` before the definition they vary, are the
plausible bugs that each property has been seen to catch.

## Runs

| run | shows | bounds |
|---|---|---|
| `KeyedLock` | Exclusion, TokensAccounted, NoLostWakeup, NoOvertaking, WaiterServed | 5 goroutines, 1 name: names do not influence each other, and a writer, a downgrade, a cancelled waiter and two more behind it fit |
| `Acquirer` | OneLockerPerKey, ArrivalOrder, NoLostProceed under cancellations | 3 callers, 3 names: one call can wait for two others, and a third pass |
| `Acquirer_leak` | **violated**: EventuallyAcquired when a context ends in the queue | 2 callers, 1 name |
| `Locker` | InitAlone, NothingLeft, InitNotLost, EventuallyAcquired, and that `ContainerUse` is implemented, with a context that ends and inits that fail | 3 callers, 2 containers, params `Crossing`: two calls for both containers with inits in different modes, and a user of one or both |
| `Locker_initfail` | **violated**: InitBeforeUse when an init fails | 2 callers |
| `Beacon` | HandlerCleans, CallEnds, and that `ContainerUse` is implemented, with a client that may die and fail its inits | 2 clients, 3 containers, params `Mixed`: one client calls with two inits or with one, the other one shares a container with each of these calls |
| `Beacon_twoinits` | **violated**: ClientProtected with two inits in a call | 2 clients |
| `LockStream` | ClientOwns, LockHandlerCleans, LockAcquired | 3 clients, 2 of which may die; one lock of each kind |
| `Unique` | GivenOnce, StoreAccounted, CallReturns with lost answers | 2 callers, a local and two global Uniques, 3 values with 2 texts, a uint of 2 bits and WithRetry(0) |
| `Backend` | NoConflict, OwnRemoval, CloseCleans, TestCleans under any policies, with requests that fail and processes that die | 2 instances with a beacon server (which build the image), 1 without; 1 container name; an old network or none, an old container of four kinds or none |
| `Commands` | ServerFindable, StaleFileExplained, CleanedUp, Undisturbed, NotAlone, ServedThroughout, with requests that fail and processes that are killed | 2 starts, which may be killed, and 2 stops: one server follows another, starts and stops overlap; 1 `confort test`, 1 test that belongs to it, to the lock file or to nobody; a stop that finds its server in the lock file or, run inside of `confort test`, in the environment; 2 attempts to read the lock file instead of 10: the last one and one before it |
| `Startup` | ReadyWhenRun, PortsBound, ReuseConsistent, NilMeansDone, RunReturns | 2 instances, of which one may Run twice: creates, finds, knows; 2 ports or none; 1 exit, so 2 lives; any waiter; 252 pairs of configurations that differ in one field at most, with an image; 3 calls of a ContainerExec, so that a method can be tried again after an error, and again |

Every module has a `TypeOK` (`LockTypeOK` in `LockStream`). The runs of `KeyedLock`,
`Acquirer` and `LockStream` list it. For `Locker`, `Unique`, `Backend`, `Startup` and
`Commands` it is proved; their runs are about the other properties.

Bounds that are part of a module are named at its top: a caller whose context
has ended makes no further call, and a client makes its next call after the
handler of the last one has returned. `max` is one more than the number of
processes, so that readers never run out of tokens, as with 2^63 - 1.
Histories: `runs` stays small because inits happen at most once or twice, which
is what the runs show.

Symmetry is used in `Acquirer`, `Backend` and `Commands` only, which have no
liveness property. Deadlock is not checked where contexts end or processes run
once: a system whose clients are all dead or done may stop.

### Fairness

Weak fairness of what a call does once it is made: goroutines are scheduled,
messages arrive or the stream breaks, init functions and the functions of a
Unique return, and who has a lock gives it back (tests end; `Use` registers the
release with `t.Cleanup`). Nobody has to make a call, no context has to end, and
no message has to be lost. `LockStream` abstracts the queue of a lock, and so
needs strong fairness of `Grant`: a semaphore serves its waiters in order
(`WaiterServed` in `KeyedLock`, where it is not assumed) and a `sync.Mutex` has
a starvation mode.

In `Startup` a Run goes on while it can, and deadlines pass (every loop of the
code has one: 30 seconds for the ports, the waiter's timeout, which has a default).
The container owes nothing: it need not bind its ports, get ready or exit, and
requests need not fail. A check of a Waiter ends; `PROJECT.json` has the command
check that hangs as a hazard without a property.

### What the violated runs show

* `Acquirer_leak`: `Acquire` returns at `ctx.Done()` without `remove(e)`
  (acquire.go:37). Its entry stays in the queue for good, and every later call
  for one of its names waits for ever, though nobody holds a lock. `CallEnds`
  of `Beacon` is stated with this exception; a client that dies in the queue
  blocks its containers for all others.
* `Locker_initfail`: `once.Do` returns to the second caller when the first has
  its lock, not when its init has succeeded (locker.go:105). If that init fails,
  the second caller, waiting for the plain lock by then, uses the container
  uninitialised, though it brought an init function.
* `Beacon_twoinits`: the loop that reads init results shrinks its own bound
  (beacon.go:253), so that of two results one is read. The other init counts as
  failed, and the locks are released while the client uses the containers.

A divergence between a comment and the code without a run: exec.go:88 says "Start
executes the command but does not wait for it to complete". Start creates the exec
(exec.go:106), and nothing runs before Run, Output, CombinedOutput or Wait attaches
to it; a caller that only calls Start has executed nothing, as `Start` and `Attach` of
`Exec` show. NilMeansDone is about the methods that wait.

Not a run of its own: InitNotLost in `Locker` says that no step loses an init but
one, and that one is what the code does. A call that fails after one of its locks
for init was taken, because its context has ended, unlocks it and leaves the Once
spent (acquire.go:65), and nobody will initialise that container. A client of the server that dies during its init has
the same effect (beacon.go:255, where SetInitResult is not called).

Other properties name their exceptions too, and each is something the code does.
ServerFindable: of two starts that overlap one server may be lost
(commands.go:80), and so it may be if a second stop of one server removes the lock
file of the next (commands.go:176), or if a stop has the environment of a `confort
test`: it stops the server of that, and removes the lock file all the same. NotAlone: a
test that reads the lock file while the first address is being written runs without
exclusion (addr.go:44); so does one that begins with an address in the file, if the
file is removed before it has read it, which is what a stop is for, or if starts
overlap. ServedThroughout: a server ends under its tests if a stop is sent to it, or
if its `confort start` fails or is killed. OwnRemoval: with takeover an instance removes what
it holds, the network it uses and the container it knows under that name, whoever
created it. ReuseConsistent: an
image that sets WorkingDir makes a container inconsistent with the request that
created it, for everybody but its creator (config_consistency.go:49). PortsBound:
a container that exits after it was started or found, and before it is asked for its
ports, is reported to run with none, unless a waiter looks that needs it to be
running: one that reads the log does not (backend.go:478). That a container which
runs has all of its ports once none of those listed is unbound rests on Docker
listing every exposed port (backend.go:475).

`Backend` has the takeover of resources by tests of `confort test`, but no run
says what README.md:183 of the repository says, that reused resources will be
removed: with a beacon server the tests leave removal to the command, which
removes what has its label (operations.go:131), and that is what the tests
created. TestCleans is about the latter.

## Proofs

`KeyedLockProofs`, from `IsFiniteSet(Proc)` and `max \in Nat \ {0}`: type
correctness, Exclusion, TokensAccounted and NoLostWakeup. None is inductive
alone: that no token is lost needs that waking n waiters makes n holders, so that
the queue holds each waiter once and only those who want the lock; that the
first waiter cannot run has to be known before a step to be known after it. The
invariant `IInv` says for each name that either nobody holds it exclusively
and the tokens taken are the readers, or one process has all the tokens; that
waiters are distinct and want the lock; and that the first one does not fit. All
releases, wake-ups and cancellations go through one lemma about `Notify`.

`AcquirerProofs`, from `Cancelable \subseteq Proc`: type correctness,
OneLockerPerKey, ArrivalOrder and NoLostProceed. OneLockerPerKey needs that a
call told to proceed shares no name with the entries before it (`Separate`) and
that a goroutine that runs belongs to an entry that still has its name
(`JobEntered`); entries belong to calls that wait, lock or have left
(`EntryOwned`). The leak is in the invariant: an entry may belong to a call that
has left.

`KeyedLockProofs` also has NoOvertaking, an action property. Each operation has a
lemma that says what it does to the queue: it appends the caller, removes a prefix
that is woken, or removes one that gave up. So who gets tokens was first, or there
was no queue.

`LockerProofs`, from `LockAssumption` (what `KeyedLock` and `Acquirer` assume),
`RequestsAssumption` and `FailingAssumption`: InitAlone, NothingLeft, InitNotLost,
and that `Locker` implements `ContainerUse`. `KeyedLockProofs` is used by INSTANCE:
its invariant is a part of this one, and its lemmas say what a lock, a downgrade or
an unlock does to the caller and to the others. Of the acquirer the argument needs
the phase of a call and its goroutines, not the queue: who may lock is decided by
the semaphores, in which order by the queue. `LockOf` reads from the place of a
goroutine what lock it has; `OnceInv` follows the Once of a container, which is with
one caller at most between once.Do and SetInitResult, so that `runs` gets to 1 once,
and while that caller has the lock exclusively. InitNotLost is an action property:
each step keeps the task of initialising a container (`OnceStep`), fulfils it, makes
the Once new, or is the error path of Acquire (`UndoLoses`). The refinement maps every action to
one of `ContainerUse` or to no change. A call that returns from LockForContainerUse
(with its last init, or without one) is the `Grant`: who uses a container has its
lock in the mode of its params, and by Exclusion the modes of two users are
compatible. The invariant has two parts. `SInv` holds whoever runs the init
functions, and each of its lemmas is about one step of the calls; `RunsInv` counts
the inits that succeeded, which is the part that `control.LockForContainerUse` adds.

`Components` says that `Locker` implements `Acquirer` and `KeyedLock`: their models
assume nothing of their users that a Locker does not do. So the theorems of
`AcquirerProofs`, also used by INSTANCE, hold with the real locks under the queue
(`Order`), and those of `KeyedLockProofs` with the real callers (`Locks`).
`TypeCorrect` has its types from both.

`BeaconProofs`, from `BeaconAssumption` (what `Locker` assumes, and that the params
of a call are finitely many, as a Go map is): HandlerCleans, that `Beacon` implements
`ContainerUse`, and, for calls with one init at most, ClientProtected
(`OneInitProtected`). `SInv` of `LockerProofs` is used as it is for the server's
Locker; lemma `SameLocker` says that the steps of its handlers are steps that
`LockerProofs` is about. An init succeeds at the client before the server hears of it,
so the rest of the invariant is about the distance between the two:

* `HandlerInv`: where a handler is and how far its call of the Locker is. With the
  Locker's part of the invariant this is HandlerCleans.
* `StreamInv`: what is under way. Every result of an init is about a container that
  the handler waits for, no two are about the same one, and a failure is the last
  thing that a client says in a call.
* `SingleInv`, `AliveInv`: with one init at most, the handler of a living client has
  the locks from the answer to the release, and is behind the client by one result at
  most. This is not true of calls with two inits (run `Beacon_twoinits`): there
  `SingleInv` is where the loop of beacon.go:253 breaks the argument.
* `ClaimInv`: of a container that only calls with one init initialise, at most one
  client may run the init (as the Locker's Once says), or has run it and failed
  without the handler knowing; and nobody may once it is initialised. The Once alone
  does not say this, as the server drops the task of a client that dies while the
  client still runs the init: the claim stays with the client, the Once stays spent.

The refinement maps the client's return from LockForContainerUse to `Acquire`, a
successful init function to `Initialise`, the unlock function to `Release`, and a new
call or the end of a context to `Move`; nothing that a handler does is seen.
`ServerOrder` and `ServerLocks` carry the theorems about the queue and the semaphores
over to the server, whichever clients die.

For the streams of `LockStream`, from its `LockAssumption`, the module has type
correctness, ClientOwns and LockHandlerCleans. ClientOwns is not inductive: the client
learns of the lock later than the handler has it, so the invariant says what each
stream holds meanwhile (`LockStreamInv`: nothing between the answer and the unlock),
that owners and the handlers past their Lock are the same (`LockOwnerInv`), and that
the handler of a living client has not returned (`LockAliveInv`).

`UniqueProofs`, from `UniqueAssumption`, that a power of two is a positive number
(`PowerAssumption`: the provers know nothing of powers) and that a Unique is not a
store (`ScopeAssumption`: the model counts what was given by Unique or by store, and
these are different things in the code): type correctness, GivenOnce and
StoreAccounted, and that a local Unique is used under its mutex. A value is given
later than it is stored. `SourceInv` says that in between its text is on its way to
one call, and neither given nor on its way to another; `StoreInv` that each text of
a store is given, on its way or lost.

`BackendProofs`, from `BackendAssumption` (Docker's resources of earlier times are
nobody's, and None is no instance, container or verdict): type correctness,
NoConflict, and the action properties OwnRemoval, CloseCleans and TestCleans. The
invariant has, for each instance, the lock of the call it is in (`LockInv`: that is
what makes NoConflict stable while other instances of the server act), that its
clean-up functions are about what it may remove (`TermInv`, for OwnRemoval), that it
has one for each container it created (`OwnTerm`) and one for its network which is
the first in the list (`NetFirst`), so that Release, which goes backwards, gets to it
when its own containers are gone. `HeldInv`, an invariant of its own (theorem
`Holding`), says that these functions are about the very network and containers that
the instance holds, which OwnRemoval asks of a takeover. Instances that died are exempt, as their processes
clean up nothing. `CleanupInv` orders the steps of the command. Every action is
proved by what its calls have in common: `Return`, `End`, `Register`, the next
request; lemma `OtherInstances` deals with the instances that a step is not about.

`StartupProofs`, from `StartupAssumption` and that what is compared are
configurations (`ConfAssumption`): type correctness, ReadyWhenRun, PortsBound,
NilMeansDone of `Exec` in `Startup`, ReuseConsistent, and ConsistentIsContained: for
any two configurations the field-by-field comparison says what the reference says.
The invariant says which lives a Run can have seen where it is (`LifeInv`,
`KnownInv`), that nobody but the Run that holds the lock starts the container again
(`LockInv`, `PortsInv`), and what is attached, executed and ended where a method of
ContainerExec is (`ExecInv`).

`CommandsProofs`, from the assumptions that processes are of one kind and their
addresses no words of the lock file (`ProcAssumption`), that identifiers are
different and no addresses (`IdentAssumption`: they begin with a directory),
`EnvAssumption` and `ReadsAssumption`: type correctness, ServerFindable,
StaleFileExplained, CleanedUp, NotAlone, ServedThroughout and the action property
Undisturbed.
ServerFindable depends on what a stop read long ago: `FindInv` says that this address
is still in the lock file, or was removed by a stop of that very server. `StartInv`
says that starts that do not overlap have the file for themselves. CleanedUp needs
what is listed and not yet removed, and that tests of a `confort test` are over when
it lists (`TodoInv`, `CleanInv`). ServedThroughout needs that a server which is down
was stopped by a stop or ended with its command (`EndInv`), and that a `confort test`
past its tests has none left (`ChildInv`).

Each inductive invariant was checked by TLC on the instance of the run before it was
proved. What the proofs showed about the models and properties: a stop that runs in
the environment of a `confort test` was missing in `Commands`, and ServerFindable
needs the exception for it; the labels of resources are different only if identifiers
are no addresses; and what an image adds leaves a request consistent only if it sets
no field that must be equal in the host's configuration either (ReuseConsistent).

Only model-checked are WaiterServed, EventuallyAcquired, LockAcquired, CallEnds,
CallReturns and RunReturns: liveness under fairness is out of the prover's reach.

Beacon's TypeOK is not a theorem: the types that the proofs about it need are in
`Types` of BeaconProofs, which says that the counter of InitLoop is a number where
TypeOK gives its bound.

## Not modelled

* The handlers' answers to messages that beaconControl never sends (the server's
  own tests send them), and clients other than beaconControl.
* Flags and defaults of the commands, the choice of the go command, the host
  address, the output of pulls and builds, logging.
* The protocol code, which is generated.
* Bindings of ports that are lost when a container is connected to another
  network, which confort.go:613 warns of: that is Docker's doing.
* How grpc.Server ends: Interrupt calls Stop in a goroutine (operations.go:48), and
  whether that waits for connections or handlers is gRPC's doing. Here the server is
  gone in one step.
* SIGKILL of `confort test` and of the `go test` it runs, and signals before the trap
  is set (commands.go:269): `go test` ends when its tests have.
* A command check that hangs beyond the waiter's timeout (backend.go:616).
* Two `confort test` with one identifier (`IdentAssumption`), and users that share
  the ContainerExec or the writers of one among goroutines.
* Use of a container by a client whose context ends during the use, beyond what
  its end does to others.

What Docker and gRPC do is modelled from how the code uses it, and so are
semaphore.Weighted and oncewait.

## State of the project

Modelled are the locks, from the semaphore to the server's streams, and what they
promise together; unique values; the life of Docker resources; the start of a
container and commands in it; the commands and the lock file. Proved is every safety
property of the runs, and both refinements. What could follow:

1. A repair of the queue (acquire.go:37), of `once.Do` (locker.go:105) or of the loop
   over init results (beacon.go:253) would be made in `Acquirer`, `Locker` or `Beacon`
   first: the run that is violated should pass, and in the case of `Beacon` the
   exception for calls with two inits can be dropped from the refinement.
2. The handlers' answers to clients other than beaconControl.
