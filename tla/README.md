# A verification development for tinybind-go

tinybind-go generates Go code for HTML templates, request binding, SQL and
document-store access, and carries the runtime that code runs on. This directory
holds TLA+ models of the parts of that runtime in which goroutines, callers,
deadlines and caches meet, the TLC runs that check them on small instances, and
proofs that TLAPS checks for every instance. Paths below are relative to `src/`.

## The system

| Component | State it keeps | Operations | What makes it correct |
|---|---|---|---|
| Pending values and forks (`htmlbind/pending.go`, `Concurrent` in `async.go`) | a handle's done channel and fields, one scope and one error slot per binding | `Go`, `Wait`, fork, join | every await of a handle answers the same; a clause renders a scope nobody writes any more |
| Streaming coordinator (`htmlbind/async.go`, `ops.go`, `render.go`) | result channel, wait group, semaphore, contexts | `start`, `wait`, `stop`, `awaitOp.Exec`, `streamChain` | every placeholder is completed once, after it is on the page; the channel is closed after the last send; a cancelled render ends and says nothing |
| Live boundaries (`liveOp`, `pump`, `liveState`, `deliveryScope` in `htmlbind/ops.go`) | scope of the bindings, readiness, the context of the delivery on screen | subscribe, `deliver`, signal, fail, end | the region shows complete and ever newer renders; work of a replaced delivery never reaches the next one, and ends |
| Settled cache (`htmlbind/cachegroup.go`, `execCached` in `plan.go`) | per miss: pending boundaries, shell, settled content; identifier counters | `open`, `settle`, `capture`, publish, splice | what is stored is the settled form of a success |
| `MemoryCache` (`htmlbind/cache.go`) | map, age queue, generation | `Get`, `Set`, `compact` | bounded, evicts the oldest write, answers the last write of a key while it lasts |
| Typed WebSocket (`internal/bindcore/socket.go`, the two transports' `websocket.go`) | write lock, closed flag, pinger | `Read`, `Write`, `Close`, ping, `ServeSocket` | frames do not interleave, a close frame is sent and is last, every goroutine lets go |
| Update streams (`internal/updatecore/stream.go`) | writer, its first error, closed flag | `OpenStream`, `RunStream`, `Replace`, `Settled`, `Signal`, `Fail`, `Retry`, `Close` | one terminator, last, with the right reason; a stream nobody reads ends |
| Delta (`htmlbind/delta`) | manifest: two digests and a parent per boundary | collect, compare, order operations | applying the operations to the old page gives the new one, and keeps the nodes whose own markup did not change |
| Browser runtime (`internal/updatecore/runtime.js`) | validators, request in flight, attempts | apply, settle, supersede, reconnect, reload | what it claims to hold is on screen; only faults use up attempts |
| Update transports (`htmlupdate`, `fasthttpupdate`) | none of their own | plan, open, flush | both behave as `updatecore` says |
| Response streams (`internal/bindcore/stream.go`) | format, started, closed | `Write`, `Close` | what a reader gets is well formed in its format |
| Generator (`generator`) | stamps, record of files read, conversion memo and cache | fingerprint, skip, convert, compile, write, stamp | a skipped run leaves what running would write; a conversion runs once; the cache tells the truth after a kill |
| Template compilers (`templates`, `parser`), route tree (`routetree`) | none that lasts | parse, check, emit | a function of the sources alone |
| Configuration (`configbind`, `configpath`, `cliparser`, `minitoml`, `tomlbind`) | layers, provenance | merge, decode | the strongest layer wins, and is named |
| Document stores (`dynamobind`, `firestorebind`) | none; a remote service keeps it | batched store, load, delete | the caller can tell what was done from what was not |
| SQL, codecs (`sqlbind`, `jsonbind`, `cborbind`, `cachekeybind`) | none | scan, encode, decode | round trips |
| Examples and tools (`examples`, `cmd`, `scripts`) | chat hub: members | join, broadcast, leave | members agree on what was said |

How they interact. A handler plans a page into a chain of `htmlbind` plans, may
start values of the page as `Pending` handles, and ranges over the sequence
`RenderChainAsync` or `RenderChainLive` returns. The sequence function owns the
coordinator; the goroutines it starts send their results over an unbuffered channel
and only the ranging caller writes to the response. A boundary's bindings are
joined by `Concurrent`, whose tasks wait on handles that other boundaries may share. A
cached component found on the way either writes stored bytes or
renders with a `cacheGroup`, which the boundaries inside it report to and which
calls a `CacheStore` from whichever goroutine settles last. `updatecore.RunStream`
ranges over the same items, compares the boundaries the render collected with the
manifest the browser sent, and writes records, which the browser runtime
applies; the manifest it then keeps is what the next comparison trusts. A live route
keeps such a stream open, and the runtime asks again when the server rolls it
over. A WebSocket route runs its handler inside `ServeSocket`, beside a
pinger and whatever goroutines broadcast to the socket. The generator runs at build
time and shares nothing with these but the code it writes.

The hard behaviours are therefore: cancellation racing completion; nested work
outliving or overtaking what it is nested in; one deadline used for several
purposes; a replaced delivery's leftovers; publication by the last of several
goroutines; a flag moved outside the lock it belongs to; a bounded structure
whose bookkeeping lags behind; a client and a server that each trust what the
other last said, over a stream that can stop anywhere; and state on disk that outlives
runs killed between two writes. `PROJECT.json` lists each at its line, with the
properties that would catch it.

## The modules

| Module | Models | Kind |
|---|---|---|
| `AsyncRender` | a streaming render: the initial pass, the ranging loop, the closer, and one goroutine for each await boundary, nested to any depth | detailed |
| `Completions` | what the caller of that render is promised | abstract; `AsyncRender` implements it (`KeepsPromise`, proved) |
| `Bindings` | handles and their work, and the clauses that join them: callers, joiners and tasks | detailed |
| `LiveRender` | one live clause: its bindings' goroutines, the lock, the deliveries and what is nested in them, in the live, the document and the synchronous entries | detailed |
| `CacheGroup` | cached components that hold boundaries, in the streaming and the synchronous entry, rendered once or again against what the store kept | detailed |
| `MemoryCache` | the bundled `CacheStore` | detailed |
| `EvictingStore` | a bounded store that evicts the oldest write | abstract; `MemoryCache` implements it (`IsEvictingStore`, proved) |
| `Socket` | a typed WebSocket under `ServeSocket` | detailed |
| `Delta` | the manifest of a page, its comparison with a known one, and the records of the result | pure operators |
| `Updates` | a browser moving between pages by streamed deltas: `Delta`, the stream, and one of two clients | detailed; composes `Delta` |
| `Overtaken` | the bundled client when a navigation overtakes one whose records are still to be applied | detailed; extends `Updates` |
| `LiveSession` | the live channel of one screen: responses that may overlap, and the reconnecting client | detailed |
| `RecordLog` | a record stream as its reader sees it | abstract; `LiveSession` implements it (`WritesLog`, proved) |
| `Generation` | a package generated again and again: skip, conversions, writes, stamps, kills | detailed |
| `MCShared` | `MemoryCache`, `Socket` and `Bindings`, the values the goroutines of one process share, each explored in turn | instance; composes the three |
| other `MC…` | constants for TLC | instances |
| `…_proofs` | theorems of `AsyncRender`, `Bindings`, `LiveRender`, `CacheGroup`, `Updates`, `LiveSession`, `Generation`; those of `MemoryCache` and `Socket` are in `Shared_proofs` | proofs |

State and actions, against the code:

* **AsyncRender.** `pass` is the program counter of `streamChain`, `closer` that
  of the goroutine `wait` starts, `phase[b]` that of boundary `b`'s goroutine:
  `queued` at the semaphore, `resolving` its bindings, `rendering`, `sending`.
  `OpenInDocument` and `OpenNested` are `awaitOp.Exec`; `Receive` is the rendezvous on the
  unbuffered channel with the start of the caller's `yield`, so a boundary that
  is `sending` and a loop that is `ranging` step together. Contexts are not
  variables: `Cancelled`, `RunContextEnded` and `BoundaryDone` derive them from
  the state, since a Go context is done exactly when an ancestor is. `fences` is
  the set of placeholders on the page, which is what `settle` in
  `runtime.js` looks up.
* **Bindings.** `handle[h]` and `result[h]` are the done channel and the fields it
  publishes, a step apart, because `Go` writes them before the deferred close.
  A task is a clause and one of its bindings; `got`, `scope` and `errs` are what its
  source returned, the scope field it assigns and its slot of `Concurrent`'s errors, three
  memories because the joiner reads the last while the task may still write the
  second. `EnterWait` is the first select of `Wait`, `HandleAnswers` and `WaitEnds` the second.
* **LiveRender.** `at[i]` is binding `i`'s goroutine, `scope`, `ready`,
  `pending`, `halted`, `failed` the fields of `liveState`, `current` the render
  whose context `deliveryScope` holds, `nested[r]` the goroutine of the boundary
  nested in render `r`. The lock is held exactly while a binding is
  `emitting` or `signalling`, as `deliver` holds it across the render and the
  send. A source is `live` (ranged for ever), `once` (settles, and is given the
  context) or `deaf` (a call that takes no context). A synchronous entry has no ranging
  loop: `RenderInPlace` and `ReturnInPlace` are the `emit` and the end of
  `execBlocking`, where what is nested settles in place, with the lock held.
* **CacheGroup.** A template is the list of instructions each goroutine runs; a
  cached component is the stretch between `enter` and `leave`. `IsTree` says what the
  nesting of calls and closures makes of the lists: components are left in the order opposite
  to that they are entered in, and no boundary stands in its own subtree. Each
  boundary and each component stands in one place: a component is its render, so one that
  is rendered twice under one key is two here, and only its second render in another
  render of the chain can be a hit. `counter` and
  `count` are the identifier counters (`Renderer.idCount` is a pointer, so who
  shares whose is state), `pending`, `captured`, `failed`, `settled`, `stored`
  the fields of each group, `todo` the ancestors a registration or a report has
  yet to reach, one lock at a time. Markup is the set of placeholders it holds.
* **MemoryCache.** `Get` and `Set` hold the mutex throughout, so each is one
  action; `compact` is an operator both apply. `order` is the whole slice behind the age
  queue and `head` the index eviction has come to, so the slots before it are state too. A
  value is named by the write that set it. Two variables serve the properties only:
  `answer`, what a `Get` answers, and `last`, the log of writes, of which the last of each
  key is kept.
* **Socket.** `lock` is `Socket.mu`, `closed` the atomic flag, `pc` where each
  goroutine is, `calls` the frames the driver was asked for. `Write` is two
  steps, because the frame stays open while the encoder runs; `Close` is two,
  because the flag moves before the lock is taken.
* **Delta.** A page is its tree of boundaries, the text of each, which of them have
  an await boundary in their markup, and what it settles to. A digest is what it
  digests, so the comparison is the code's with equal digests for equal content.
  `Records` is what `RunStream` writes for them: operations in document order, then the
  boundaries that have none.
* **Updates.** The server renders any page, in one step up to the end of its initial pass,
  and then settles its await boundaries in any order, fails, or is
  abandoned. `wire` is what was written and not read. The setting picks the client:
  `bundled` is `runtime.js`; `contract` is a client written for an application, not
  part of the repository, that does what the comment of `delta.Operation` and the wire
  contract say of each kind of operation. Where they leave a choice, `Updates.tla` says
  which one it takes. What it does with a response it abandons (`Abandon`) is such a choice,
  so no property is about that.
* **Overtaken.** The bundled client, with the promise chain that `consumeStream` applies
  records through. `unstyled` says that the chain of the present response waits for a stylesheet
  of the head (`syncHead`), `late` is what is in the chain of a response that a newer
  navigation overtook. `Supersede` is the abort in `go`: the rest of the body is not read,
  and what was read stays in the chain, which asks nobody whether it is still wanted.
  Records read while the sheet loads are left on `wire`, and how many had been read
  is chosen when the response is overtaken. One overtaken response waits at a time.
* **LiveSession.** `running`, `active`, `ended`, `broken` describe each `RunStream`,
  `gone` and `wire` its connection, `phase`, `attempts`, `stopped`, `verdict` the
  loop of `live()`. `unapplied` says that a delivery of the response found no target: those
  after it are skipped, and the end of the response is a fault whatever its terminator
  says. The page may go away while it reads, and connections may be cut. A response the client gave up on may still run when the next
  one starts, so there is a set of them. The setting says whether the entry serves live
  delivery and whether the transport cancels the context of a client that left.
* **Generation.** A file has a version and a digest is the version it was taken of.
  Three outputs stand for all: the Go file conversions end up in, a Go file made from the
  package alone, and the static files, extracted from templates or produced by
  conversions. The Go files carry stamps (`goPaths`); the static ones do not, so a run that
  is skipped has not looked at them. `touched` notes that somebody edited or deleted one by hand
  since a run wrote it. `pc` is where `GeneratePackage` is, `conv[g]` the conversion
  goroutine `g` is in (the compile itself is `"main"`), `memo` the entries of
  `conversionMemo`, `cache` the directory of conversions kept across runs. `Interrupt` kills a
  run between any two steps, and may tear the file being written.

A definition whose name carries a suffix (`StartWrite_Unchecked`) is a
deliberately broken variant of the definition it precedes. `PROJECT.json` pairs
each with the property that notices it, so no property holds merely by the shape
of its model.

## What the runs check

Every run is a `.cfg` beside the `MC` module it names. Deadlock is checked in all
of them: the models end in a state that stutters explicitly when the code is done,
and only then.

What is rendered, and how, is a member of the constant `Setting`
that `Init` picks into the variable `setting`, which no action changes; a run
gives the set, and a counterexample shows which member it is about.

| Run | Question | Bounds |
|---|---|---|
| `async_render` | Is the sequence sound, is `Completions` implemented, does a cancelled or abandoned render end although its sources hang, does the semaphore deadlock with nesting? | two boundaries of the document, one nested; with and without `WithAsyncTimeout`, no limit and limit 1 |
| `live_render` | Is the region one sound view, in order; does nested work end for a newer render and only for one; does everything end that must? | two bindings, two items of each source, seven settings |
| `cache_group` | Is the settled form of every success stored, and of no failure? Do identifiers name one boundary, and the same one the second time, whatever the store answers by then? | up to four boundaries and two components, four settings, two renders where the second can differ |
| `shared`, the cache | Does `Get` answer the last write, does the age queue follow the map, is it `EvictingStore`? | three keys, two entries, five writes, three instants, `Slack` 1 |
| `shared`, the socket | Frames apart, close frame last, somebody tells the peer, everything lets go | callback, pinger, two more goroutines of which one closes, three frames |
| `shared`, the clauses | Do clauses that share handles agree, does a deadline stay with its clause, is a rendered scope final, does an ended clause let go? | two clauses over two handles, or one handle and a call; made unset, working, resolved or failed |
| `updates` | After a response that ended well, is the screen what was rendered; do live nodes stay; can every operation be applied; is a navigation over in the end? | 48 pages over four boundaries, any page after any other; the `contract` client |
| `live_session` | One terminator, last; do only faults reload; is done only said when done; does the server let go of a client that left? | two responses at once, two sources, two attempts, two faults between rollovers, two records in flight |
| `generation` | Does a skipped run leave the Go files that running would write, and the static files unless somebody touched them; is a conversion run once and cached truly, is the first failure the one reported, does a run end? | two versions of the package, one naming a source twice; a source that is deleted and comes back as another, a source whose second version is refused; two workers, runs killed anywhere |

Several properties are conjunctions with named parts, each documented where it is
defined: `SequenceIsSound`, `RegionIsSound`, `RendersInOrder`, `WorkEnds`, `StoreIsSound`,
`IdsNameBoundaries`, `QueueIsSound`, `AnswersAreOwn`, `EndedClausesLetGo`,
`ConversionsAreSound`, `ClientKeepsUp`. A counterexample to one is read by evaluating the
parts in its last state.

The settings of `live_render` (`MCLiveRender!All`) are two sources that go on with
an await boundary in their subtree; a source beside a binding that settles once,
with an await and with a live boundary in it; a document with a first-delivery
deadline over the same; a document whose second binding is a call given no
context; and a synchronous entry over a source and a binding that settles, with an await
and with a live boundary in it. Those of `cache_group` (`MCCacheGroup!Sound`) are a cached
card in the subtree of a boundary, awaiting its body, in which another boundary is nested,
and holding a cached badge; a badge in the subtree a card awaits; a card that awaits a
boundary, ahead of another boundary of the same subtree, rendered twice, so that the card may
be a hit in either render; and the first of these in the synchronous entry, where no clause has
a recover subtree. The pages of `updates`
put two rows in a list in either order, nested in each other, beside the list, or
nowhere, with two texts of the outer boundary or of the list, and one row awaiting either
of two values. The settings of `generation` are `quiet`, where the package is edited
between runs only, to any version, and `forward`, where it is edited at any time but never
back; files that conversions read, and outputs, change between runs only, and nobody
deletes the record of what was read. In `shared` the three values do not call each other, so
each is explored while the others stay as they were made.

The bounds are small but not too small for what they are for. One level of nesting
beside a sibling gives every race of a parent, a child and a stranger; a limit of one
is the worst case for a deadlock, and the only one in which a child must wait for
its parent's slot. Two bindings with two items reach a delivery that is
superseded, one after a failure, and a signal between them. Five writes with `Slack`
1 and two entries reach a compaction and a stale slot at the head of the queue;
the code's slack of 16 only delays them. Three frames let a message, a ping and a
close meet in every order. Four boundaries let a region move between two parents, swap
with its sibling, and disappear with or without the one around it. Two responses are
one the client reads and one it gave up on; two faults use up two attempts, with and
without a rollover between. Two versions of everything distinguish stale from fresh, and a
value named twice asks the memo for what the workers and the compile have put there.

## Where the code and its documentation disagree

These runs check one property each, stated from a comment or a requirement, and
TLC finds it violated. The traces are short and worth reading.

| Run | Property | What happens |
|---|---|---|
| `cache_queue` | `QueueIsBounded` | a full cache pops one slot for each it appends; `compact` compares what is ahead of `head` with the map, so it never rebuilds, and the slice keeps every slot that was popped |
| `live_stale` | `NoStaleInner` | a nested boundary passes its context check, then a delivery replaces it, then it is sent |
| `updates_bundled` | `ScreenIsFresh` | the bundled client replaces a region and leaves its holes empty; an unchanged region nested in it, for which the server sends nothing, is gone while its validator stays |
| `updates_superseded` | `ClaimsAreShown` | a navigation overtakes one whose records were read and wait for a stylesheet; the newer response replaces a region and ends; then the sheet arrives, the older records replace it again, and the next request claims the newer markup |
| `live_deploy` | `DeployReloads` | after a deploy, which may come before the first stream or end one with retry, the live request is answered with a document; the client takes it for a route without live delivery and leaves the stale page |

`updates_superseded` blames the chain alone. Were it dropped when its response is overtaken,
`ClaimsAreShown` would hold on the same instance: that the bundled client keeps its validators then
is no fault, since a region loses its own with the operation that replaces it.

The models and the reading behind them show more disagreements.

Rendering (`htmlbind`):

* Without a limit, a nested completion can be yielded before the content that
  holds its placeholder (`ops.go:604` against `render.go:340`), and the browser ignores
  it. `ItemsHavePlaceholders` states where this cannot happen.
* Under `WithAsyncTimeout`, `start` cancels its context as it returns, which is the one its
  subtree's boundaries run under: they are dropped silently. `Promised`, in `AsyncRender`, leaves
  them out of the promise.
* The first-delivery deadline reaches a settle-once binding as an ordinary failure,
  because `deliver` asks the render's context and not the timed one
  (`ops.go:1084-1088` says the fallback stays).
* An await boundary settled in place by a synchronous entry is given no deadline, although
  `WithAsyncTimeout` (`render.go:243-245`) bounds how long one boundary's
  bindings may run; `Answers` in `LiveRender` is the consequence.
* A live boundary nested in a live boundary is subscribed under the render's
  context, so a newer delivery leaves it subscribed (`async.go:360` against
  `.knowledge/requirement/live-boundary-rendering.md:100`).
* A call that is given no context holds a document open past its first-delivery
  deadline (`ops.go:1189` against
  `.knowledge/requirement/live-boundary-rendering.md:23`); hence `Heeds`.
* Identifiers are issued twice when the first await of a document stands in a cached
  component: it counts in a copy of the renderer (`plan.go:199` against
  `cachegroup.go:55-57`). The two boundaries are then spliced into each
  other's place, so a stored entry can show one's content as the other's. The settings of
  `cache_group` open a boundary before the first component.
* A hit opens no boundary, so it renumbers those that are counted after it (`plan.go:187`).
  `RenderChainLive` counts on "the same ids as the document render did" (`render.go:650`), and
  they are not the same when a component with a boundary in it and one after it was a miss in
  the document and is a hit in the live render, or the other way round. `SameIdsAgain` states
  the promise with this exception (`Shifts`); without it TLC finds it broken on the template of
  `cache_group` that is rendered twice.
* The synchronous entry stores a rendered recover subtree (`ops.go:645`).
* `Concurrent`'s own select gives a finished join no priority over the end of the
  context, unlike `Wait`.

Sockets (`internal/bindcore/socket.go`):

* When a `Close` elsewhere has moved the flag, `ServeSocket`'s own `Close` returns at once, and
  the connection goes away before the close frame; `SomebodyTells` is what is left.
* An encoder that fails half way has its output sent as a whole frame (line 434),
  and a `Close` between the driver's own close frame and the flag sends a second one (line 383).

Updates (`internal/updatecore`, `htmlbind/delta`):

* Where a hole stands in its parent's own markup is in neither digest, so a region that moves
  within it is not told to move. `Delta` leaves the position out.
* With the thin manifest `runtime.js` sends, which names frames only, a removed region
  that was not at the root stays: the root is replaced, and its replacement keeps live nodes.
  A region that moves between two lists contradicts `delta.go:58-60` for a client that
  removes at once.
* The bundled client ignores `children` operations (wire contract, lines 126-128);
  settling takes the markers away (`runtime.js:412`), so an await in an
  unchanged region, or a second live delivery, finds none.
* A navigation that is cancelled closes as `final` though fallbacks remain (`stream.go:441`);
  `ScreenIsFresh` excepts it by `abandoned`. A validator is of a region's own markup with the
  fallback in it, so it does not tell that one is still there.
* A live response with a delivery that could not be applied costs an attempt, and may reload the
  page, also when the server ended it with `retry` or `done` (`runtime.js:833` against
  `runtime.js:873-874` and the wire contract, lines 142-146). `OnlyFaultsReload` counts such a
  response as a fault, as the code does.
* `Fail` does not ask whether the stream is closed (`stream.go:294`); `RunStream` never calls
  it then, which `WritesLog` shows.
* Under fasthttp, a live stream whose sources are silent never notices a client that
  left; `ServerLetsGo` rests on a source that yields again or a transport that tells.
* A redraw is answered as JSON while `redraw` of `runtime.js` reads HTML.

Generation (`generator`):

* A static file that was deleted or edited by hand is skipped over: `cachedGeneration` asks the
  stamps, which Go files alone carry, although its comment speaks of "every file" the run wrote
  (`stamp.go:154-155`). `stamp.go:131-134` says so of extracted assets;
  `templates.go:236-240` says of files that conversions produce that they are written by the generator
  because otherwise "the skip path cannot verify it", and it does not. `SkipIsFresh` promises
  these files only while nobody has touched them.
* Deleting `tinybind_deps_gen.json` makes `depsUnchanged` true, so runs are skipped for ever
  over stale conversions (`deps.go:75-83` against its comment).
* An unreadable file makes `writeDeps` write nothing and report nothing (`deps.go:52-57`), and the
  digests are taken after the run (`deps.go:33`): an edit during a run goes unnoticed, as does one
  taken back before it ends, for the fingerprint and the conversion cache's key. The settings
  `quiet` and `forward` are where `SkipIsFresh` holds.

## Fairness

The Go scheduler runs a goroutine that can go on, and a select with a ready case is
taken. Nothing is assumed of a source unless said here.

* `AsyncRender!FairSpec`: the caller goes on ranging or stops, and the closer and every
  goroutine that can proceed does. A source may hang; `RenderTerminates` assumes
  in its own statement that each answers (`Answering`).
* `Bindings!BindingsFairness`: tasks, callers and the deferred close of a handle whose work returned. Work and
  calls may hang.
* `LiveRender!FairSpec`: the same for the loop, the pump and the goroutines; a
  source ends only when its context does, and a call given no context not even
  then, which is why the draining properties assume `Heeds`. The deadline's timer fires, and
  bounds an await boundary nested in a streamed delivery. One that settles in place is
  given the request's context only, so it is sure to answer only when that ends (`Answers`).
* `CacheGroup!FairSpec`: some goroutine goes on while one can. Each of them takes
  finitely many steps, so all get their turn. Sources answer.
* `Socket!SocketFairness`: `SetWriteDeadline` ends every write, so `FinishWrite` is
  weakly fair. `SendClose` is strongly fair, because `sync.Mutex` hands the lock to a
  waiter that has starved for a millisecond. The callback need never return.
* `Updates!Spec`: the render goes on and its boundaries settle or fail, and the
  client reads what arrives. Nobody need navigate.
* `LiveSession!Spec`: `RunStream` goes on; a source that has not finished yields again; the page
  reads, waits its back-off and asks again; a transport that tells the server that its client
  left does so.
* `Generation!Spec`: a run that was started goes on, some goroutine of it at a time; a
  conversion returns.

## What is proved

TLAPS checks these for every value of the constants. Each run's property that is named
below is therefore shown twice: on an instance, with a mutant that breaks it, and in general.

* `AsyncRender_proofs`, for any finite tree of boundaries, any limit, with or without
  a deadline (`TreeAssumption`, `NameAssumption`, `OptionAssumption`):
  * `TypeCorrect`: `Spec => []TypeOK`, inductive as it stands.
  * `ChannelClosesLast`: `ClosedIsFinal`. It needs one fact more, `ClosedInv`: the closer
    does not run during the initial pass. Then a boundary is opened either by the
    document, when the channel is not closed, or by a goroutine, which is counted
    itself (`GoroutineIsCounted`), so the closer has not got past the wait group.
  * `EachBoundaryOnce` and `NothingAfterAnError`, from `YieldedInv`: what was yielded
    belongs to a goroutine that is done, which is for good (`DoneIsFinal`), and
    an error leaves the loop only the way out.
  * `NothingIsLost` and `CancellationStaysSilent`, both inductive with `TypeOK`: outside
    every deadline a boundary's context ends only when the render's does
    (`DoneOnlyWhenCancelled`). `SequenceStaysSound` puts these together.
  * `RenderKeepsPromise`: every step of a render is a step of `Completions` or a stutter. The
    invariants above say that a completion is of a boundary that was placed and is new;
    `EndInv` and `NothingLost`, that a sequence run to its end has completed all
    (`EndIsComplete`).
  * `SlotsAreBounded`: the boundaries that resolve, render or wait to be received are no more
    than the limit; and from it `EveryItemHasAPlace`, with `PlaceInv`: a boundary that is not
    done has its placeholder in the client's document, or, under a limit of one, in the buffer of
    the boundary it is nested in, which holds the only slot and is
    received first (`Sheltered`). That is false where the boundary around it failed or was
    cancelled, unless it has nothing to send any more: hence `Barren`.
* `Bindings_proofs`, for any handles, calls, clauses and settings: `BindInv` says of each handle that its
  result is there when its channel is closed and final then (`HandleOK`), of each task that what it
  got is what its source answered and stays (`TaskOK`), and of each clause that it returned
  only what its tasks say (`ClauseOK`). From it `AnswersStayOwn`, `ClausesComeToOneEnd` (the
  blamed binding is the first, in the order of declaration, whose handle failed),
  `RenderedScopeStays` and `SettledHandleWins`.
* `LiveRender_proofs`, for any number of bindings and of items, and any clause and entry.
  `LiveInv` carries `PrimaryIsComplete`, `ScreenNeverGoesBack` and `NothingAfterFailure`:
  `ScopeInv` says that `pending` is the number of bindings not ready yet; `LockInv` that
  one binding at most holds the lock, and that the render it is sending is the
  newest, of the scope as it is; `ScreenInv` that what is on screen was made of a
  scope that has only grown; `FailInv` that nobody is emitting once a failure is set.
  The lock is what carries all of it: without it the mutant
  `LockFree_ReleasedForEmit` puts an older render after a newer one. `NestInv` adds
  that the delivery on screen is the newest and that a document's only render is being
  sent or has stopped the boundary (`DocumentsRenderOnce`, `InnerSettles`); `InPlaceInv`, what a
  synchronous render has written (`InPlaceIsOneView`); `Rest`, the shape of the
  remaining state (`TypeCorrect`). `RegionStaysSound` and `RendersStayInOrder` put them together.
* `Shared_proofs`, of the two values that any goroutine may call and that stand behind one mutex
  each. Of `MemoryCache`, for any keys, bound, slack and lifetimes (`SizeAssumption`):
  * `EntriesAreAMap`, that a generation names one entry and a key one entry.
  * `QueueStaysSound`: ahead of `head`, one slot for each entry, in the order of the writes, and
    few others. It says nothing of the slots before `head`; those are what `cache_queue` is
    about. From `QueueInv`. What makes it inductive is `Follows`: the generations
    in the queue increase from the head on, none is newer than the last one issued, and every
    entry has its slot. A compaction keeps that, because it keeps the order
    and drops only slots that name nothing (`CompactFollows`, over `Picked`).
  * `EvictsTheOldest`: every step is a step of `EvictingStore` or a stutter. Popping
    the queue finds the oldest entry since no live slot stands before it.
  * `AnswersTheLastWrite`: a `Get` answers the last value set for its key or, rightly, nothing.
    `LastInv` says that an entry is its key's last write, and that a last write which is neither
    held nor expired has as many other keys written after it as the cache holds.
* `CacheGroup_proofs`, for any templates (`TemplateAssumption`), in the streaming entry
  and the synchronous one. The theorems name what else they need of a template:
  * `ShapeInv` says where each goroutine is: the misses around it are the components
    its next instruction stands in, innermost first (`Framed`), each boundary under way was
    started by the instruction it stands at (`Parented`), and it reports to the misses its
    opener was in (`Telling`).
  * `IdentifiersAreUnique`, from `Numbered`: who shares a counter with whom
    (`OwnCounters`), and that an identifier is its opener's, followed by a number that
    opener's counter has passed (`Names`). It needs `CountsItself`: in a streaming setting the
    document opens a boundary before it enters a cached component. Without it, the
    code issues identifiers twice (see "Where the code and its documentation disagree"), and the theorem is false.
  * `StoreStaysSound`, from `CountInv`, `Captured`, `Reported`, `Opening`, `InPlace` and
    `Stored`. `CountInv`: a group's pending count is the number of boundaries that have
    registered with it and not reported, those included whose registration is half way up the
    chain (`Debtors`). Hence a count of zero after the capture means that every boundary of the
    group has reported (`AllReported`), and, with identifiers unique, that each
    placeholder is replaced by its own boundary's content. In the synchronous entry, where
    nothing counts, `InPlace` says that a boundary has settled before the instruction
    after it runs. `Accepted` leaves out two kinds of template, for which it is false: a streamed
    one without `CountsItself`, and a synchronous one with a recover subtree, which the code
    stores.
  * `IdentifiersNameBoundaries`, under `CountsItself` alone, from `Tallied`, `Missing` and
    `SameInv`: a goroutine's counter is the number of boundaries that stand before its instruction
    outside the components it found in the store (`OpenedBefore`). Two renders that hit the same
    shifting components count the same boundaries (`NumbersAgree`), so a number is a place in the
    template. What is a hit is settled as a render begins (`HitsStay`): a component is one
    render in one place, so nothing that is stored meanwhile is found by it.
* `Shared_proofs`, of `Socket`, for any number of writing and closing goroutines
  (`SocketAssumption`):
  * `SocketTypeCorrect`: the shape of the state, and that the lock is held exactly by
    the goroutine with a message open (`SocketTypeOK`). Inductive as it stands.
  * `FramesStayApart`: `Spec => FramesDoNotInterleave`. A frame of the socket is
    appended by `FinishWrite`, whose goroutine has the lock, or while it
    is free; `SocketTypeOK` then leaves nobody else with a message open.
  * `CloseFrameStaysLast`: `Spec => []CloseFrameIsLast`. Not inductive:
    nothing in it stops a second goroutine from sending another close frame, or
    a message opened before the flag moved from ending after the frame. The
    invariant `CloseInv` adds that only one goroutine at a time waits
    to send a close frame, that the flag is set while it does, and that once it
    was sent nobody waits and no message is open; with the flag set no message
    can be opened, and none is open when the frame goes out, since that needs the lock.
  * `PeersAreTold`: `SomebodyTells`, from `TellInv`: whenever the flag is set the frame is out
    or somebody is about to send it, and only the callback's goroutine ends.
* `LiveSession_proofs`, for any number of responses, sources, attempts and faults
  (`BoundAssumption`): `TypeCorrect`; `StreamsAreLogs`, that every step writes the log of
  `RecordLog` or leaves it, because a response that returned is not running and one that
  runs has not written its terminator; `ReloadsAreForFaults`, since `attempts` never exceeds the faults
  since a rollover, a response that could not be applied among them; and `DoneIsDone`, since a terminator that says so was written with no source
  left and none starts again.
* `Generation_proofs`, for any versions, references, refusals and workers (`InputAssumption`), from
  `GenInv`, whose parts say how far behind its inputs a run may be (`PhaseInv`), what the memo and a
  conversion in flight know (`MemoInv`, `ConvInv`), how far the compile has come
  (`ProgressInv`) and what the files were made from (`FilesInv`): `ConversionsStaySound`,
  `FailuresInOrder` and `SkipsAreFresh`. `FilesInv` is the delicate one: a stamp tells what
  its file was made from, or names a fingerprint nobody will ask for again, which is what
  the order of the writes is for. The static files have no stamp: they are of the version and the
  sources that the templates file was stamped for, unless somebody touched them (`TemplatesOf`).

* `Updates_proofs`, for any pages, texts and navigations, with failures, cuts and abandoned responses,
  and the client of an application that does what the documentation asks: each theorem has
  the hypothesis `Setting \subseteq {"contract"}`, since for the bundled client `ScreenIsRendered`
  is false (`updates_bundled`) and so is what the invariant says of the manifest (`updates_superseded`). `PageAssumption` asks of a page that a boundary's id names it
  alone and that boundaries are nested (`IsNested`): that is what the walk of a tree gives and what
  `entries[instance.ID]` of the collector takes for granted, stated of `Preorder` because nothing can be
  proved by induction over it. Each of the three is of one invariant, `Inv`, which TLC checked on
  the run's instance first:
  * While a response streams, `HasRead` says how far the client is: it holds the entries of the first
    boundaries of the order, the records of the others are on the wire, then what
    settled, then the terminator. `Applied`: a region that was not told to be replaced, and one whose
    record was read or says nothing, has its own markup on screen, and what was read has its children too.
    `Settling`: an await boundary is still awaited, or on the wire, or on the screen.
  * `EveryTargetExists` (`ClientKeepsUp`). Operations come in document order, so when one is read
    the region around it was told already, or had nothing to be told, and its list on the screen is the
    rendered one, which has the hole
    (`HoleOfEach`); that list is in the document itself, by the least boundary that is not. A
    region that stays still stands on the page, since the manifest it was compared with was true
    of the screen (`Claims`), and nothing that leaves a list is dropped before the response is over.
  * `ScreenIsRendered` (`ScreenIsFresh`). When only the terminator is left, every
    boundary's record was read (`AllRead`), what hangs below the root is what was
    rendered (`AttachedAll`), and nothing is awaited.
  * `NodesSurvive` (`LiveNodesStay`). Only the outermost region is replaced for a reason that is not
    its own (`Kind`), so a region whose own markup is the same is not told to be, and
    `Applied` says that its node is there.

Where a proof needs induction, over a chain of components, a queue or the depth of a tree, it
takes the least counterexample (`WFMin`, `NatLessThanWellFounded`), since the library's
induction theorems cannot be instantiated. `spliceSettled` is written as the least closed
set, and `compact`'s loop as the elements it keeps in their order (`Picked`), so that no recursive definition
stands between the model and a proof.

Only model-checked: every liveness property (the prover has no `ENABLED` and no
fairness), among them `SuccessIsStored` of `CacheGroup` and `NavigationEnds` of `Updates`; and that
`Preorder` visits the pages of the run as `IsNested` says, a recursion over the page, which TLC evaluates
as the assumption it is.

## What is not modelled

`PROJECT.json` says for each component why. In short: the compilers, the
generator's emitters, codecs and route discovery are sequential functions from
text to text, whose correctness is about the text, and they are nine tenths of the lines;
SQL access has no state of its own. In the modelled parts, left out are: the bytes of
markup and frames, head contributions, metrics and logging, panics (recovered into errors,
which the models have), the WebSocket handshake, input validators, buffered updates,
actions and redraws (each writes one body and ends), and focus and form state in the
browser. A cached component inside `AsyncRender`'s chain is `CacheGroup`'s subject and not
repeated there. Two hazards have no property: the framing of a JSON array whose
encoder fails in an element (`internal/bindcore/stream.go:224`), and what a caller knows after a
chunk of a batch fails (`firestorebind/batch.go:236`, which drops the keys of the chunks that
were committed, and `dynamobind/batch.go:62`).

## Plan

1. **Batches** of the document stores: what the caller knows after a failure.
2. **ResponseStream** (`internal/bindcore/stream.go`): framing of the three formats when an
   element fails.
3. **ChatHub** above `Socket` (`examples/websocket/hub.go`): members that leave
   while a broadcast runs, the close frame of the driver beside the socket's.
4. **Actions and redraws** of `updatecore`, over the client of `Updates`.
5. **Configuration**: precedence and provenance as an operator against a
   reference definition.

Theorems to come: those of the modules above, and what can be said of the bundled client of
`Updates`, of which a run shows that `ScreenIsFresh` is not true.
