# A TLA+ model of Icecast and of Liquidsoap's slides

The repository holds two programs that stream audio over the network:

* **Icecast** (C, `src/Icecast-Server-master`): a server. Source clients and
  relays send it streams, each on a *mount*; listeners read them.
* **Liquidsoap** (OCaml, `src/liquidsoap-master`): a language and a run-time
  for producing such streams. Its documentation has slides, shown by
  **remark** (`doc/orig/fosdem2020/remark.js`), a JavaScript slideshow with a
  syntax highlighter inside.

This directory models the parts of Icecast where threads meet, in six
specifications, and the highlighter and the slideshow of `remark.js`, in two
more. All are model-checked; some of what they say is also proved for every
value of the constants. The OCaml code of Liquidsoap is surveyed, and planned
below.

`PROJECT.json` lists the components, the runs, the source lines of every
definition, the hazards, a disagreement between the code and its comments, and
the theorems.

## The system

### Threads of Icecast

| thread | started by | what it does |
|---|---|---|
| main | `main.c` | accepts connections, reads requests, dispatches them (`connection.c`) |
| source, one per stream | `source_client_callback`, `start_relay_stream`, `source_fallback_file` | `source_main`: reads buffers, sends them to its listeners |
| slave | `slave_initialize` | starts and stops relays, rereads the configuration, rechecks the mounts |
| relay, one per relay | slave | connects upstream, then runs the source in the same thread |
| auth, one per authenticator that is not immediate | `auth_get_authenticator` | takes clients from its queue |
| stats, and one per STATS client | `stats_initialize`, `stats_callback` | apply events; send them |
| YP | first reload with directories | lists the public streams at directory servers |
| file server, events | `fserve.c`, `event.c` | serve files; run hooks (planned) |

### How the parts interact

* A request passes the **authentication** stacks and then becomes a source, a
  listener, a STATS client, an admin command or a file.
* A **source** is reserved in `global.source_tree`, admitted within a limit,
  and run by a thread. When it stops, its listeners move to the fallback.
* The **stream queue** of a source is a list of reference counted buffers that
  the listeners walk, each at its own speed.
* **Relays** keep a source reserved and start and end its thread.
* Every part sends events to the **statistics**; sources call the **YP** code.
* A reload of the configuration replaces authenticators, relays, directories.

### The slides

* The **parser** makes slides of tokens: classes, templates, layouts, names,
  slides that continue the one before.
* **Navigation** goes from slide to slide on events that come from keys, the
  wheel, the location (`#4`, `#p4`, `#name`) and messages. The **view** shows
  one slide and lets the one before fade for a second. A second window, the
  **clone**, is opened at the location of the first; each posts its moves to
  the other.
* The **highlighter** compiles the modes of a grammar once, scans a text with
  a stack of modes, writes spans, chooses the language that fits best, and
  merges the spans with the elements that the block had before.

### What is hard

In Icecast the hard behaviours are interleavings: callbacks that run in another
thread, flags such as `source->running` written without a lock, counts that
are read after the lock is released, and two mutexes taken in different orders.
In the slides they are sequences: a mode compiled in one place and used in
another, a call that continues where an earlier one stopped, messages that meet
a page that is still loading, timeouts of moves long past.
`PROJECT.json` lists them as hazards, each at its line.

## Modules

| module | code | state | actions |
|---|---|---|---|
| `StreamQueue` | `source.c`, `format.c`, `refbuf.c` | the queue, the burst point, the counts, both client trees, where each listener is | one per step of `source_main` and of a listener; another thread's `source_move_clients` |
| `StreamQueueProofs` | | | the theorems about `StreamQueue` |
| `SourceLife` | `source.c`, `connection.c` | per mount the source and its trees, `global.sources`, the published number, listeners, file threads | reserve, complete, start, init, steal, loop, shutdown, move, clear, free; remove; listener look-up and addition; halt |
| `Relay` | `slave.c` | both relay lists, threads, sources, `_slave_mutex`, `relay_lock`, the intervals | passes of the slave thread, steps of a relay thread, changes of the configuration |
| `Auth` | `auth.c`, `connection.c`, `client.c` | counts of nodes and authenticators, queues, clients, the calls each thread has yet to make | one per mutex protected section |
| `Stats` | `stats.c` | event queue, tables, STATS clients with queue, view and missed lines, shutdown | queue, take, apply, register, send, leave, finish, shutdown |
| `YellowPages` | `yp.c` | entries, active and pending servers, the YP thread, calls in progress | steps of a round, `yp_add`, `yp_remove`, `yp_touch`, reload |
| `HighlightModes`, `GrammarsAtoG`, `GrammarsHtoO`, `GrammarsPtoZ` | `remark.js` 3066-26034, the grammars | | the modes of 111 grammars as functions, with the options that the scan looks at |
| `HighlightCompile` | `remark.js` 2561-2707 | | `compileLanguage` and `expand_mode` as operators on the graph of modes |
| `Highlight` | `remark.js` 2724-2945 | stack of modes, read and written text, open spans | begin, end, pass and reject a lexeme, end a call, continue one |
| `HighlightProofs` | | | the theorems about `Highlight` |
| `HighlightBlock` | `remark.js` 2456-2557, 2959-3058 | languages tried, both streams of tags, the result | try a language, merge tag by tag |
| `Deck` | `remark.js`, `Parser`, `Slideshow` | | tokens to slides, as operators |
| `Slideshow` | `remark.js`, `Navigation`, views, controllers, timer | per window its slides, position, location, modes, handlers; messages | keys, wheel, location, script calls, clone, message, timeout |
| `MirroredShow` | | what each window shows, moves not yet repeated | the abstract specification of `Slideshow` |

Each `MC...` module extends the specification and holds what a configuration
file cannot state (negative numbers, functions, symmetry sets). A
configuration is named after its module and its question.

What the modules have in common:

* A section protected by a mutex is one action. Where the code touches shared
  state outside the lock, that is an action of its own, or a load and a store.
* A constant (`ConcurrentMoves`, `MayFail`, `Serial`, `Altering`, `Lossy`,
  `ConError`, `MayAbort`, `Shrinking`), or a field of `Settings`
  (`YellowPages`), switches one kind of event off. A passing run says under
  which events a guarantee holds. The history variables `untold` (`Stats`) and
  `apart` (`Slideshow`) do the same within a behaviour: they remember that an
  event has happened after which the guarantee is not given.
* Upstream servers, directories, password files and networks are
  nondeterministic answers.
* Behind the comment "Mutant" stands a variant of the next definition with a
  plausible mistake. With the variant in place of the definition the property
  named in `PROJECT.json` fails, so the property depends on that code.

### StreamQueue

Buffers are numbered in the order they are appended; bytes are only counted.
`send_to_listener` and its `check_buffer` callbacks are modelled in full, with
the intro file reduced to a length. The burst loop of `source_main` releases
references without holding a tree lock, so its `_count--` is a load and a
store. Another thread (`fallback-override`, `moveclients`) can release between
the two. A reload may change the limits of the queue, the burst and the
listeners at any time that `source_apply_mount` gets `client_tree`.

### SourceLife

The record of a mount has a step (`at`) for every point of its thread where
another thread may intervene. The read lock of `source_tree` is held by
listeners between look-up and addition, and by sources between finding a
fallback and moving clients; reserving and freeing need the write lock. The
`killed` flag is a history variable. Streams of a mount and its fallback have
the same format, so `source_move_clients` never refuses for that reason.

### Relay, Auth, Stats, YellowPages

`Relay` has both mutexes with their owners, because the order in which three
threads take them is the point. Time is counted in passes of the slave loop.
The settings of a relay are its upstream, which `relay_has_changed` compares,
and its login, which it does not.

`Auth` gives every thread a stack of calls it still has to make, so a callback
runs in the thread that calls it. The role that a client gets with its acl is
not modelled: it comes from the first authenticator that has one and is kept
(`auth.c:379`), so `AdmittedByLast` is about the acl and the authenticator only.

`Stats` has one global statistic, the number of STATS clients, and one per
mount; the others are treated alike. For every STATS client it keeps the table
a reader would draw from the lines it was sent, and the statistics whose last
line did not arrive whole: `_send_event_to_client` drops a line that is too
long, and the socket may take only a part. A client of `Lossy` may miss any
line.

`YellowPages` keeps the sid of each entry apart from the session that the
directory gave it (`session`), as an answer may accept an add without a SID,
or bring a SID and refuse. How calls and reloads may fall together, and
whether directories send a SID with every add they accept, is chosen once, in
`setting`.

### Highlight

The control of the highlighter is in its modes: which mode contains which,
which end with or end their parent, which begin or end without taking the
lexeme. `Grammars...` state those for every grammar that has more than keyword
lists and plain spans (111 of 185), function by function as the source writes
them: modes that several places share are one object, `self` and variants are
kept for `HighlightCompile`, which expands and compiles them in the order of
the code. What a regular expression matches is a choice: a lexeme may stand
anywhere, and end or begin any mode that the top admits. Text is counted, not
spelled. The keyword look-up inside a mode only adds relevance and spans that
open and close at once, and is left out.

An expression that matches the empty string is an option of its mode, where
it is a beginning (`hollow`) or an illegal (`nullIllegal`), because the scan
then steps over a character.

`HighlightBlock` merges two documents that have the same characters and
differ in their tags, and compares the result with both. Elements are void,
ordinary, or ordinary with a name such as `abbr`, for which `nodeStream` lists
no end (2472).

### Slideshow

A handler is an operator from the record of its window to the next, as the
events of a window are handled one after the other. `rest` holds what a second
handler of the same key has still to do: `resume` adds handlers without
removing those that are there. The browser (`window.open`, `postMessage`,
`hashchange`, timeouts) is external: messages are kept in order, arrive at any
time, and are lost at a page that has not loaded.

`MirroredShow` says what two windows promise, in eight actions. The mapping in
`Slideshow` takes each window to the slide it shows and each channel to the
moves that have still to be repeated; keys that change neither are stutters.

## Runs

| run | what it checks |
|---|---|
| `stream_queue` | while another thread moves listeners, no buffer in use is freed, the byte counters are exact, "this should not happen" does not happen |
| `stream_queue_exact` | without such moves every count is exactly the number of references; `source->listeners` is exact and nobody joins beyond the max-listeners in force, which a reload changes; a queue over its limit gives up its head |
| `source_life` | the numbers of sources and of listeners are right and within their limits; every listener is in one source; an ended source leaves the tree; the shutdown gets past the sources |
| `relay_safe` | no relay is freed under its thread or gets a second one; a new upstream is applied |
| `relay_live` | while connections succeed, requests are served, relays are started again, on-demand ones when asked for, and the slave thread ends at shutdown |
| `relay_deadlock` | expects a violation, see below |
| `auth_use` | when two threads add to one queue, its excess is bounded; a client has the acl of the last authenticator that admitted it |
| `auth_live` | counts are exactly the references; a freed or stopped authenticator is used by no other thread and leaves no client queued; every client is answered and, if a hook asked for it, told of once when it leaves, also when the answer has it destroyed again; old configurations are freed |
| `stats` | what a STATS client was sent, with its queue, equals the server's tables, but for statistics whose last line it missed; clients are counted and, at shutdown, waited for until they have left their loop; none is written to after it left; the shutdown ends |
| `yp` | with everything interleaving, an entry is dropped only after the session the directory gave it was refused or asked to be removed, and touched only while it has a sid if accepted adds bring one; released entries go; configured directories come into use; when calls come one at a time, public streams are listed exactly once and freed ones are on their way out |
| `highlight` | under each grammar, whatever a text matches: spans nest and are closed, no character is written twice, none is lost unless the grammar can stop where nothing matches, a mode that ends with its parent sees the parent's end, no descent is endless; the best language is found; the merge keeps the block's tags, except ends that `nodeStream` leaves out, its text and every character's spans |
| `slideshow` | the clone follows the speaker; one slide is on the screen; the location leads to it; `Slideshow` implements `MirroredShow` |

`relay_deadlock` lets upstream connections fail. One relay ends while another
fails: the slave thread holds `relay_lock` and joins the first, which waits
for `_slave_mutex`, held by the second, which waits for `relay_lock`
(`slave.c:479`). A request to the slave thread is then never served.

### Guarantees the code does not give

The passing runs switch some events off. With them on, these properties, which
are defined in the modules after what a comment or a message of the code says,
do not hold. TLC finds each counterexample with the configuration of the run
in the second column, changed as it says.

| property | run and change | what the code does |
|---|---|---|
| `CountIsReferences` | `stream_queue_exact`, `ConcurrentMoves = TRUE` | a decrement at `source.c:725` can be lost, the count stays too high and the head is not trimmed |
| `SyncPointFound` | `stream_queue` | `format.c:119` copies -1 to a `size_t`: a listener moved in mid-stream misses a sync point in the burst |
| `NoneAddedAfterStop` | `source_life` | a listener is added after `source.c:865` says none will be |
| `KilledEnds` | `source_life` | a removal before the thread starts is overwritten at `source.c:658` |
| `AllSourcesWaited` | `source_life` | shutdown does not wait for a source that has not reached `source.c:644` |
| `InUseIsUsed`, `PublishedIsConnected` | `source_life` | error paths leave a mount reserved (`source.c:1383`, `connection.c:845`) or the published number too high (`source.c:1313`) |
| `RestartPaced` | `relay_deadlock` | the pause set at `slave.c:451` is cancelled by the request that follows |
| `RemovedRelayGoes` | `relay_live`, `Changes = 1` | the order to stop (`slave.c:718`) is overwritten by a starting source |
| `UsesLive` | `auth_live` | the authenticator's own thread may make the last release and go on (`auth.c:203`) |
| `FreedOnce` | `auth_live`, `Serial = FALSE` | the count is read again after the unlock (`auth.c:1071`) |
| `FreedInTheEnd` | `auth_live`, `Altering <- RedirectsNew` | a redirected or refused client keeps its stack (`auth.c:383`) |
| `Mirrors` | `stats`, also with `Lossy = {}` and `Actions = {"add"}` or `{"set"}` | lines are lost or cut short without an error (`stats.c:819`); clients are sent a difference as a value (`stats.c:477`), told of a removal that was none (`stats.c:259`), not told of a clearing (`stats.c:1220`) |
| `AllWaitedFor` | `stats` | a thread that has not counted itself is not waited for (`stats.c:166`), nor one that is no longer counted and still has `client_destroy` to do (`stats.c:1016`), which queues an event under a mutex the shutdown destroys |
| `GoneWhenFreed`, `AddLists` | `yp` | unless calls are spaced, an entry in `pending_mounts` is not released (`yp.c:934`); an entry on its way out is taken for a live one (`yp.c:898`) |
| `WalksLiveList`, `UnconfiguredGoes` | `yp` | the list's head is read before the lock (`yp.c:929`); a pending server is not dropped (`yp.c:227`) |
| `OneOnScreen` | `slideshow`, `Shrinking = TRUE` | a shorter deck leaves the position one beyond its last slide (`remark.js` 26683), where no view is |

These limits are written into the properties that the runs check:

* A reload that lowers max-listeners drops nobody (`ListenersCounted` is about
  who joins).
* A new user name, password or bind address of a relay is not applied: "We
  currently do not consider this a relevant change" (`slave.c:602`).
* After an accepted add without a SID, `do_yp_touch` formats a null pointer
  (`yp.c:488`), so `RequestHasSession` asks for a SID only of the setting
  `sids`. A remove request is made once: `do_yp_remove` forgets the sid also
  when the directory refused it or was not reached (`yp.c:361`).
* A statistic whose line was lost stays wrong for that client until the next
  line about it (`MirrorExact`).
* The `$` that ends the illegal part of an attribute selector in CSS and SCSS
  matches the empty string, and so do a few numbers of Fortran and IRPF90. The
  scan then steps over the next character without writing it (2895, although
  2889 calls that place one the parser should not reach), in CSS and SCSS only
  when illegals are ignored, as `highlightBlock` does for a known language.
  `TextKept` and `TextPreserved` are about grammars and calls without this.
* `nodeStream` looks for `br`, `hr`, `img` and `input` anywhere in a name: an
  `<abbr>` of a block loses its end tag (2472). `BlockExact` asks for a well
  formed result as far as those elements count as void.

In the slideshow, further, and by the letter of the code:

* When both windows are moved at once the messages cross and the windows swap
  slides (`apart`); only the next move brings them together.
* Blackout is sent as a toggle. It differs between the windows after
  `hideOverlay`, which is not sent, or if the clone was opened during it.
* A clone opened at a location that is no slide stays blank.
* Handlers of `DOMMouseScroll` are never removed, so in Firefox the wheel works
  during a pause and moves one slide more after each `resume`.
* The index of a name given to an excluded slide is that of the slide after it.
* A location that was out of range leads elsewhere once a longer deck has that
  slide; and `#n` typed on slide n in presenter mode leaves it without the `p`.

In the highlighter, Ruby gives a heredoc an end that the compiler overwrites,
and Mercury pushes modes to one already used.

### Bounds

* Two of everything that competes: listeners, clients, relays, mounts. A race
  here has two parties; where a third matters it is there (the slave thread
  in `relay_deadlock`, three clients in `auth_use`, where one is in the queue
  while the connection thread and an authenticator's thread both add one).
* `MaxBuf = 3` buffers: a head to trim, a burst point behind it and a tail.
* `MaxSources = 2` source clients and file threads: a source with its fallback,
  or a mount that is taken again. `Limits` lets `source_limit` be 1 or 2, so
  that it is reached and not reached.
* `MaxEntries`, `Settings`, `Changes`, `MaxArrivals` cap counters; they allow
  an entry to be released and added again, a server to be added and dropped,
  settings to change, a statistic to be set, changed and removed. `Crowd`
  says how many clients may have come when the configuration is replaced: none
  in `auth_use`, which is about the queue, and both in `auth_live`.
* Texts of four characters, six modes deep, in two calls: enough to enter a
  mode, one inside it that ends with it, and leave both with one lexeme, before
  and after a continuation. Blocks of two characters: tags at the same offset,
  before, between and behind, of two ordinary elements and a void one, or of an
  ordinary one and an `abbr`.
* `MaxInputs = 4` and decks of three and four slides: open the clone, move in
  one window while it loads, move in the other, close or type. The assumption
  `SlidesAsDefined` compares `createSlides` with a definition that takes no
  steps, over all decks of up to three slides of 32 kinds.
* Limits (`Limit`, `ListenerLimits`, queue sizes) are so small that they are
  reached.

Deadlock is not checked where the behaviour really ends: after a shutdown, when
the bounded clients have all been served, when the text has been scanned or
the speaker does nothing more.

### Fairness

Weak fairness on the steps of each thread: threads are scheduled by the
operating system, and no thread is kept from a mutex for ever in these runs.
Nothing is assumed of the environment: clients, streams that end, answers of
servers and reloads may never come. There are two exceptions to plain thread
fairness.

* `RecheckDone` (`YellowPages`) has strong fairness: it needs `yp_lock` for
  writing, which the YP thread holds for reading during every round and lets
  go between rounds.
* A relay's source ends once it was told to (`Relay`): `source_main` tests
  `running` in every turn of its loop, at the latest after its read times out.

## Proofs

`StreamQueueProofs` proves, for every set of listeners, every number and length
of buffers, and every queue size, burst size and listener limit, which may
change:

| theorem | property |
|---|---|
| `TypeCorrect` | `TypeOK` |
| `AccountingCorrect` | `QueueAccounting`: `queue_size` and `burst_offset` are exact |
| `NoUseAfterFree` | `NothingFreedInUse`: no referenced buffer is freed |
| `UnexpectedNeverHappens` | `QueueStateExpected`: the branch "this should not happen" is dead |
| `QueueCorrect` | `QueueSound`, these three together, which the run checks |
| `ListenersCorrect` | `ListenersCounted`: every step leaves `source->listeners` the size of the tree, and nobody joins beyond the limit then in force |

All follow from `Invariance`, which shows `IInv` inductive. The safety
properties are not inductive alone:

* That a decrement which loses another never frees a buffer too early needs
  that a count is *at least* the number of references, with the value loaded
  by the burst loop at least what will remain. This is why it is a lower bound
  and not `CountIsReferences`, which the race refutes.
* That the trim loop stops at the burst point needs the order head, burst
  point, tail, and that buffers from the burst point on have the burst's
  reference.
* That a listener holds a buffer only while it is served from the queue
  (`OnlyServedListenersRead`), on which the counts rest.
* That the listener number is right needs where the loop over the trees is and
  which clients it has still to visit.

`IInv` is a conjunction of parts (types, queue, counts, trees). There is one
step lemma per part, with one case per action, and frame lemmas for actions
that leave a part alone. The assumptions are those of `StreamQueue`: sizes are
naturals, the set of listeners is finite. The limit of `ListenersCounted` is an
action property: `AcceptPending` tests it just before a listener joins, and the
invariant gives the exact count for that test.

`HighlightProofs` proves, for every graph of modes, every length of text and
every depth of the stack:

| theorem | property |
|---|---|
| `OutputWellFormed` | `OutputSound`: the open spans are those of the modes on the stack, and none when a call returns |
| `TextPreserved` | `TextKept`: nothing is written twice, and nothing is lost unless a mode can stop where no lexeme begins or ends one |
| `LanguageNeverLeft` | `RootStays`: the loop that leaves modes stops above the language |

They follow from `Invariance`. `RootStays` is not inductive alone: the loop
stops at the language only because no mode next to it on the stack ends its
parent (`NextToRoot`), which is an assumption on the grammar that TLC checks of
all 111. `SpansBalanced` needs the number of spans that leaving a part of the
stack closes, for which the lemmas about `Spans` split a stack in two.

Only model-checked: everything else, and all liveness, which is out of the
prover's reach.

## Not modelled

* Stream formats (`format_*.c`), XSLT, reports, digests, TLS, logging and text
  helpers: data, formatting or wrappers of libraries.
* The configuration parser. A reload is an action of the modules it affects.
* The language, codecs and signal processing of Liquidsoap: recursion over
  syntax, and numeric code.
* Different formats of a mount and its fallback; memory that runs out.
* 74 grammars of the highlighter that are keyword lists and plain spans: the
  scan has no more to decide in them than in the modes that are modelled.
* The expressions of the grammars, keywords and relevance counting: text. That
  a scan leaves every place of its text depends on them.
* Of the slides: the lexer and the Markdown converter (regular expressions),
  scaling and printing (layout arithmetic), touch, embedded slideshows, loading
  from a URL, a clone of a clone, locations of `file:` pages.
* `theme.js` and the minified libraries of the HTML documentation: menus, and
  code whose source is not here.

## Plan

Modules still to write, most important first:

1. `RequestQueue` (`connection.c`): the request and body queues between the
   accept loop and threads that reuse a connection, with timeouts.
2. `FileServer` (`fserve.c`): pending and active lists, the thread that ends
   and is started again, callbacks to sources and statistics.
3. `EventQueue` (`event.c`): the bounded queue, references of events.
4. `LockOrder`: `source_tree`, `_stats_mutex`, configuration, `global`,
   `relay_lock`, `_slave_mutex`, `yp_lock` and the SIGHUP handler together.
5. `ListenSockets` and `RefObject` (`listensocket.c`, `refobject.c`): sockets
   across a reload; objects and what they are associated with.
6. `Acl` (`acl.c`): policies as operators against a reference definition.
7. Liquidsoap: `Clock` (outputs new, starting, active, aborted, old),
   `RequestSource` with `Request` (prefetching, sleep), `Generator` and `Frame`
   (breaks and tracks, as operators), `Harbor`, `Switch`, `Output`.
8. Abstract specifications: a source as a broadcast channel that `StreamQueue`
   implements; a mount as a lease that `SourceLife` implements, composed with
   `StreamQueue`.

Theorems still to prove: `SourcesCounted` and `PlacedOnce` (`SourceLife`);
`CountIsReferences` without concurrent moves; `ClientsAccounted` (`Stats`);
`ThreadsOwnTheirRelay` (`Relay`); `RequestHasSession` (`YellowPages`).

Hazards of the parts in this plan, not yet in `PROJECT.json`: a connection is
put back on the queue by the thread that served it (`connection.c:625`); the
file thread ends while a client is added (`fserve.c:211`); an event is refused
at the queue's limit (`event.c:86`); `_dump_stats_to_doc` and
`source_recheck_mounts` take two locks in both orders (`stats.c:894`); the
SIGHUP handler takes a mutex (`sighandler.c:59`); a request source sleeps while
its task resolves (`request_source.ml:262`); an output is detached while the
clock starts it outside the lock (`clock.ml:400`).
