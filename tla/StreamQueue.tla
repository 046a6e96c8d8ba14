---------------------------- MODULE StreamQueue ----------------------------
(***************************************************************************)
(* The in-flight data queue of one Icecast source and the listeners that   *)
(* read it: the main loop of a source thread (source_main), the send       *)
(* routine for one listener (send_to_listener with the check_buffer        *)
(* callbacks of format.c), the reference counts of the stream buffers      *)
(* (refbuf.c) and the clearing of the source when the thread stops.        *)
(*                                                                         *)
(* Buffers are numbered in the order in which they are appended, so        *)
(* refbuf->next of buffer b is b + 1 and is NULL exactly for the tail.     *)
(* NULL is 0.  Bytes are only counted: start[b] is the number of bytes     *)
(* appended before buffer b, hence refbuf->len of b is BufLen(b).          *)
(*                                                                         *)
(* A second thread may move the listeners away at any time: a source that  *)
(* comes back with fallback-override, or the moveclients admin command.    *)
(* It holds pending_tree and client_tree, but source_main releases burst   *)
(* references while holding neither, and `_count--' is not atomic.  The    *)
(* decrement of source_main is therefore a load and a store, between which *)
(* the other thread's decrements can be lost.                              *)
(***************************************************************************)
EXTENDS Integers, FiniteSets

CONSTANTS
  Clients,        \* listeners (client_t)
  MaxBuf,         \* bound: number of buffers ever appended
  Lens,           \* the possible values of refbuf->len of a stream buffer
  QueueLimits,    \* the possible values of <queue-size>
  BurstSizes,     \* the possible values of <burst-size>
  IntroLen,       \* length of the intro file, 0 when there is none
  MaxLoop,        \* iterations of send_to_listener in one go (10)
  ListenerLimits, \* the possible values of <max-listeners> of a mount
  OnDemand,       \* is the source an on-demand relay?
  ConcurrentMoves \* can another thread move the listeners away?

ASSUME BoundAssumption == MaxBuf \in Nat \ {0}
ASSUME LensAssumption == Lens \subseteq Nat
ASSUME SizesAssumption == QueueLimits \subseteq Nat /\ BurstSizes \subseteq Nat
ASSUME ClientsAssumption == IsFiniteSet(Clients)
ASSUME LoopAssumption == MaxLoop \in Nat /\ IntroLen \in Nat
ASSUME ListenersAssumption == ListenerLimits \subseteq Nat
ASSUME FlagsAssumption == OnDemand \in BOOLEAN /\ ConcurrentMoves \in BOOLEAN

VARIABLES
  pc,               \* where the source thread is in source_main
  running,          \* source->running
  stream_data,      \* head of the queue, 0 when empty
  stream_data_tail, \* tail of the queue, 0 when empty
  burst_point,      \* first buffer of the burst, 0 when empty
  queue_size,       \* bytes in the queue, as source_main counts them
  burst_offset,     \* bytes from burst_point on, as source_main counts them
  nbuf,             \* buffers appended so far
  start,            \* start[b]: bytes appended before b
  sync_point,       \* sync_point[b]: may a listener start at b?
  count,            \* count[b]: refbuf->_count, 0 once freed
  loaded,           \* _count as loaded by refbuf_release in the burst loop
  remove_from_q,    \* local of source_main
  queue_size_limit, \* source->queue_size_limit
  burst_size,       \* source->burst_size
  max_listeners,    \* source->max_listeners, -1 when unlimited
  client_tree,      \* the listeners being served
  pending_tree,     \* the listeners waiting to be served
  mode,             \* what client->check_buffer does next, see Modes
  refbuf,           \* refbuf[c]: the stream buffer c reads, 0 when none
  intro_offset,     \* client->intro_offset
  todo,             \* clients the current tree walk has still to visit
  listeners,        \* source->listeners
  prev_listeners,   \* source->prev_listeners
  unexpected,       \* "queue state is unexpected" was logged
  mover             \* who is inside source_move_clients for this source

queueVars == <<stream_data, stream_data_tail, burst_point, queue_size,
               burst_offset, nbuf, start, sync_point>>
settingVars == <<queue_size_limit, burst_size, max_listeners>>
clientVars == <<client_tree, pending_tree, mode, refbuf, intro_offset>>
countVars == <<listeners, prev_listeners>>
vars == <<pc, running, queueVars, count, loaded, remove_from_q, settingVars,
          clientVars, todo, countVars, unexpected, mover>>

Bufs == 1..MaxBuf

\* source->max_listeners: a mount that has no limit leaves it unlimited.
MaxListeners == ListenerLimits \cup {-1}

(***************************************************************************)
(* "http":  format_check_http_buffer, the response header is being sent    *)
(* "intro": format_check_file_buffer with a buffer of the client's own     *)
(* "wait":  format_check_file_buffer with client->refbuf = NULL            *)
(* "queue": format_advance_queue, client->refbuf is a stream buffer        *)
(***************************************************************************)
Modes == {"http", "intro", "wait", "queue"}

\* refbuf->len
BufLen(b) == start[b + 1] - start[b]

\* The listeners whose refbuf is b.
Readers(b) == {c \in Clients : refbuf[c] = b}

\* The buffers reachable from stream_data through next.
Queued == {b \in Bufs : stream_data # 0 /\ stream_data <= b /\ b <= stream_data_tail}

\* The part of the queue a new listener is given at once.
Burst == {b \in Queued : burst_point <= b}

\* source_main holds the write locks of the trees in these places.
ClientTreeLocked == pc \in {"send", "accept", "trim"}
PendingTreeLocked == pc \in {"send", "accept"}

-----------------------------------------------------------------------------
\* A source as source_reserve and source_init leave it.
Init ==
  /\ pc = "get" /\ running = TRUE
  /\ stream_data = 0 /\ stream_data_tail = 0 /\ burst_point = 0
  /\ queue_size = 0 /\ burst_offset = 0 /\ nbuf = 0
  /\ start = [b \in 1..(MaxBuf + 1) |-> 0]
  /\ sync_point = [b \in Bufs |-> FALSE]
  /\ count = [b \in Bufs |-> 0]
  /\ loaded = 0 /\ remove_from_q = FALSE
  /\ queue_size_limit \in QueueLimits /\ burst_size \in BurstSizes
  /\ max_listeners \in MaxListeners
  /\ client_tree = {} /\ pending_tree = {}
  /\ mode = [c \in Clients |-> "http"]
  /\ refbuf = [c \in Clients |-> 0]
  /\ intro_offset = [c \in Clients |-> 0]
  /\ todo = {} /\ listeners = 0 /\ prev_listeners = -1
  /\ unexpected = FALSE /\ mover = "none"

\* The references a buffer has when it is appended: the one of refbuf_new is
\* the queue's, and one is added for the burst.
NewCount == 2

(***************************************************************************)
(* get_next_buffer returns a buffer, which source_main appends.  At the    *)
(* end of the body running is cleared and the last buffer is still used.   *)
(***************************************************************************)
AppendBuffer(len, sync, eof) ==
  LET n == nbuf + 1 IN
  /\ pc = "get" /\ running
  /\ nbuf < MaxBuf
  /\ nbuf' = n
  /\ stream_data' = IF stream_data = 0 THEN n ELSE stream_data
  /\ burst_point' = IF stream_data = 0 THEN n ELSE burst_point
  /\ stream_data_tail' = n
  /\ start' = [start EXCEPT ![n + 1] = start[n] + len]
  /\ sync_point' = [sync_point EXCEPT ![n] = sync]
  /\ queue_size' = queue_size + len
  /\ burst_offset' = burst_offset + len
  /\ count' = [count EXCEPT ![n] = NewCount]
  /\ running' = ~eof
  /\ pc' = "burst"
  /\ UNCHANGED <<loaded, remove_from_q, settingVars, clientVars, todo,
                 countVars, unexpected, mover>>

\* get_next_buffer returns NULL: nothing to read, a timeout, a socket error
\* or the end of the body.
NoBuffer(stop) ==
  /\ pc = "get" /\ running
  /\ running' = ~stop
  /\ pc' = "check"
  /\ UNCHANGED <<queueVars, count, loaded, remove_from_q, settingVars,
                 clientVars, todo, countVars, unexpected, mover>>

\* The burst is longer than burst_size and is not the tail alone.
BurstTooLong == burst_offset > burst_size /\ burst_point # stream_data_tail

\* One round of the loop that moves the burst point, up to the load of the
\* count that refbuf_release decrements.
BurstAdvance ==
  /\ pc = "burst" /\ BurstTooLong
  /\ burst_point' = burst_point + 1
  /\ burst_offset' = burst_offset - BufLen(burst_point)
  /\ loaded' = count[burst_point]
  /\ pc' = "release"
  /\ UNCHANGED <<running, stream_data, stream_data_tail, queue_size, nbuf, start,
                 sync_point, count, remove_from_q, settingVars, clientVars,
                 todo, countVars, unexpected, mover>>

\* Mutant: the store is lost.
BurstReleaseLost ==
  /\ pc = "release"
  /\ loaded' = 0
  /\ pc' = "burst"
  /\ UNCHANGED <<running, queueVars, count, remove_from_q, settingVars,
                 clientVars, todo, countVars, unexpected, mover>>

\* The store of refbuf_release.
BurstRelease ==
  /\ pc = "release"
  /\ count' = [count EXCEPT ![burst_point - 1] = loaded - 1]
  /\ loaded' = 0
  /\ pc' = "burst"
  /\ UNCHANGED <<running, queueVars, remove_from_q, settingVars, clientVars,
                 todo, countVars, unexpected, mover>>

BurstDone ==
  /\ pc = "burst" /\ ~BurstTooLong
  /\ pc' = "check"
  /\ UNCHANGED <<running, queueVars, count, loaded, remove_from_q, settingVars,
                 clientVars, todo, countVars, unexpected, mover>>

\* Is there too much data in the queue?  Decided under source->lock.
CheckLimit ==
  /\ pc = "check"
  /\ remove_from_q' = (queue_size > queue_size_limit)
  /\ pc' = "lock"
  /\ UNCHANGED <<running, queueVars, count, loaded, settingVars, clientVars,
                 todo, countVars, unexpected, mover>>

\* Take the write locks of both trees and start walking client_tree.
LockTrees ==
  /\ pc = "lock" /\ mover = "none"
  /\ todo' = client_tree
  /\ pc' = "send"
  /\ UNCHANGED <<running, queueVars, count, loaded, remove_from_q, settingVars,
                 clientVars, countVars, unexpected, mover>>

-----------------------------------------------------------------------------
\* Mutant: client_set_queue does not add a reference.
refbuf_addref_missing(f, b) == f

\* refbuf_addref and refbuf_release on the counts f; NULL is left alone.
refbuf_addref(f, b) == IF b = 0 THEN f ELSE [f EXCEPT ![b] = @ + 1]
refbuf_release(f, b) == IF b = 0 THEN f ELSE [f EXCEPT ![b] = @ - 1]

\* The counts after client_set_queue(c, b).
client_set_queue(c, b) == refbuf_release(refbuf_addref(count, b), refbuf[c])

(***************************************************************************)
(* find_client_start.  With offset -1 the search begins at the tail if     *)
(* that is a sync point.  Otherwise `size' counts the offset down from the *)
(* burst point.  It is a size_t: -1, and any offset that is not exactly    *)
(* the length of some buffers, wraps to a number no queue can count down,  *)
(* and the walk ends at the tail.                                          *)
(***************************************************************************)
SearchFrom(offset) ==
  LET exact == {b \in Burst : start[b] - start[burst_point] = offset}
  IN  IF exact = {} THEN stream_data_tail
      ELSE CHOOSE b \in exact : \A d \in exact : b <= d

\* The first sync point from there on, 0 when there is none.
find_client_start(offset) ==
  LET syncs == {b \in Burst : SearchFrom(offset) <= b /\ sync_point[b]}
  IN  IF syncs = {} THEN 0 ELSE CHOOSE b \in syncs : \A d \in syncs : b <= d

\* What find_client_start makes of a listener with the given offset.
Placed(offset) ==
  LET b == find_client_start(offset)
  IN  IF b = 0 THEN [mode |-> "wait", refbuf |-> 0, intro |-> offset]
      ELSE [mode |-> "queue", refbuf |-> b, intro |-> -1]

(***************************************************************************)
(* What one call of send_to_listener can make of c when its connection     *)
(* stays usable; how much is written depends on the network.               *)
(***************************************************************************)
\* format_check_http_buffer: more of the header is sent, or all of it.
HttpResults(c) ==
  {[mode |-> "http", refbuf |-> 0, intro |-> intro_offset[c]],
   [mode |-> "intro", refbuf |-> 0, intro |-> 0]}

\* format_check_file_buffer: more of the intro file is sent, or it is at its
\* end and c joins the queue, or starts again when there is no queue yet.
IntroResults(c) ==
  {[mode |-> "intro", refbuf |-> 0, intro |-> i] : i \in intro_offset[c]..IntroLen}
    \cup {IF stream_data_tail = 0
          THEN [mode |-> "intro", refbuf |-> 0, intro |-> 0]
          ELSE Placed(IntroLen)}

\* format_advance_queue: c goes on to later buffers.
QueueResults(c) ==
  {[mode |-> "queue", refbuf |-> b, intro |-> -1] :
     b \in {d \in Queued : refbuf[c] <= d /\ d <= refbuf[c] + MaxLoop}}

SendResults(c) ==
  CASE mode[c] = "http"  -> HttpResults(c)
    [] mode[c] = "intro" -> IntroResults(c)
    [] mode[c] = "wait"  -> {Placed(intro_offset[c])}
    [] mode[c] = "queue" -> QueueResults(c)

\* Mutant: a listener is only dropped if it was moved past the head.
FallenBehindNever(b) == remove_from_q /\ b # 0 /\ b < stream_data

\* Is a listener that ends up at b too far behind to be kept?
FallenBehind(b) == remove_from_q /\ b # 0 /\ b = stream_data

-----------------------------------------------------------------------------
\* send_to_listener leaves c in the tree.
SendToListener(c) ==
  /\ pc = "send" /\ c \in todo
  /\ \E r \in SendResults(c) :
       /\ ~FallenBehind(r.refbuf)
       /\ count' = client_set_queue(c, r.refbuf)
       /\ mode' = [mode EXCEPT ![c] = r.mode]
       /\ refbuf' = [refbuf EXCEPT ![c] = r.refbuf]
       /\ intro_offset' = [intro_offset EXCEPT ![c] = r.intro]
  /\ todo' = todo \ {c}
  /\ UNCHANGED <<pc, running, queueVars, loaded, remove_from_q, settingVars,
                 client_tree, pending_tree, countVars, unexpected, mover>>

\* c as a client_t that is in no tree of this source.
Forget(c) ==
  /\ mode' = [mode EXCEPT ![c] = "http"]
  /\ refbuf' = [refbuf EXCEPT ![c] = 0]
  /\ intro_offset' = [intro_offset EXCEPT ![c] = 0]

\* con->error is set for c: it has fallen too far behind, its time limit is
\* reached, an admin killed it, or the write failed.  source_main frees it.
RemoveListener(c) ==
  /\ pc = "send" /\ c \in todo
  /\ count' = client_set_queue(c, 0)
  /\ Forget(c)
  /\ client_tree' = client_tree \ {c}
  /\ listeners' = listeners - 1
  /\ todo' = todo \ {c}
  /\ UNCHANGED <<pc, running, queueVars, loaded, remove_from_q, settingVars,
                 pending_tree, prev_listeners, unexpected, mover>>

AllSent ==
  /\ pc = "send" /\ todo = {}
  /\ todo' = pending_tree
  /\ pc' = "accept"
  /\ UNCHANGED <<running, queueVars, count, loaded, remove_from_q, settingVars,
                 clientVars, countVars, unexpected, mover>>

\* Mutant: > for >=.
FullOffByOne == max_listeners # -1 /\ listeners > max_listeners

\* No more listeners are accepted.
Full == max_listeners # -1 /\ listeners >= max_listeners

\* A pending listener becomes a listener of the source, or is dropped when
\* the source is full.
AcceptPending(c) ==
  /\ pc = "accept" /\ c \in todo
  /\ todo' = todo \ {c}
  /\ pending_tree' = pending_tree \ {c}
  /\ \/ /\ ~Full
        /\ client_tree' = client_tree \cup {c}
        /\ listeners' = listeners + 1
        /\ UNCHANGED <<mode, refbuf, intro_offset>>
     \/ /\ Full
        /\ Forget(c)
        /\ UNCHANGED <<client_tree, listeners>>
  /\ UNCHANGED <<pc, running, queueVars, count, loaded, remove_from_q,
                 settingVars, prev_listeners, unexpected, mover>>

\* pending_tree is unlocked; an on-demand relay stops when the last listener
\* has left.
UpdateStats ==
  /\ pc = "accept" /\ todo = {}
  /\ prev_listeners' = listeners
  /\ running' = (running /\ ~(listeners # prev_listeners /\ listeners = 0 /\ OnDemand))
  /\ pc' = "trim"
  /\ UNCHANGED <<queueVars, count, loaded, remove_from_q, settingVars,
                 clientVars, todo, listeners, unexpected, mover>>

-----------------------------------------------------------------------------
\* The buffer at the head of the queue is only referenced by the queue.
HeadUnreferenced == stream_data # 0 /\ count[stream_data] = 1

\* Mutant: stream_data is advanced before its length is read.
TrimmedLenLate == BufLen(stream_data + 1)

\* What the buffer taken from the head, to_go, counts for in queue_size.
TrimmedLen == BufLen(stream_data)

\* One round of the loop that reduces the queue.  A head that is also the
\* tail or the burst point "should not happen": the source is stopped.
TrimHead ==
  /\ pc = "trim" /\ HeadUnreferenced
  /\ IF stream_data = stream_data_tail \/ burst_point = stream_data
     THEN /\ unexpected' = TRUE
          /\ running' = FALSE
          /\ pc' = "get"
          /\ UNCHANGED <<stream_data, queue_size, count>>
     ELSE /\ stream_data' = stream_data + 1
          /\ queue_size' = queue_size - TrimmedLen
          /\ count' = refbuf_release(count, stream_data)
          /\ UNCHANGED <<unexpected, running, pc>>
  /\ UNCHANGED <<stream_data_tail, burst_point, burst_offset, nbuf, start,
                 sync_point, loaded, remove_from_q, settingVars, clientVars,
                 todo, countVars, mover>>

TrimDone ==
  /\ pc = "trim" /\ ~HeadUnreferenced
  /\ pc' = "get"
  /\ UNCHANGED <<running, queueVars, count, loaded, remove_from_q, settingVars,
                 clientVars, todo, countVars, unexpected, mover>>

-----------------------------------------------------------------------------
\* source_shutdown: the main loop is left.  The listeners are moved to the
\* fallback mount, by this thread, if there is one that takes them.
Shutdown(fallback) ==
  /\ pc = "get" /\ ~running
  /\ \/ fallback /\ mover = "none" /\ mover' = "self" /\ pc' = "moving"
     \/ ~fallback /\ UNCHANGED mover /\ pc' = "clear"
  /\ UNCHANGED <<running, queueVars, count, loaded, remove_from_q, settingVars,
                 clientVars, todo, countVars, unexpected>>

\* source_move_clients called by another thread: it takes move_clients_mutex
\* and both trees.  A source that is not available is left alone.
BeginMove ==
  /\ ConcurrentMoves
  /\ mover = "none"
  /\ ~ClientTreeLocked
  /\ pc = "stopped" => OnDemand
  /\ mover' = "other"
  /\ UNCHANGED <<pc, running, queueVars, count, loaded, remove_from_q,
                 settingVars, clientVars, todo, countVars, unexpected>>

\* One listener goes over to the other source's pending_tree.
MoveClient(c) ==
  /\ mover # "none"
  /\ c \in client_tree \cup pending_tree
  /\ count' = client_set_queue(c, 0)
  /\ Forget(c)
  /\ client_tree' = client_tree \ {c}
  /\ pending_tree' = pending_tree \ {c}
  /\ UNCHANGED <<pc, running, queueVars, loaded, remove_from_q, settingVars,
                 todo, countVars, unexpected, mover>>

EndMove ==
  /\ mover # "none"
  /\ client_tree = {} /\ pending_tree = {}
  /\ listeners' = 0
  /\ pc' = IF mover = "self" THEN "clear" ELSE pc
  /\ mover' = "none"
  /\ UNCHANGED <<running, queueVars, count, loaded, remove_from_q, settingVars,
                 clientVars, todo, prev_listeners, unexpected>>

\* source_clear_source: every listener is freed, then the queue, whose
\* buffers are released until their count is zero.
Clear ==
  /\ pc = "clear" /\ mover = "none"
  /\ client_tree' = {} /\ pending_tree' = {}
  /\ mode' = [c \in Clients |-> "http"]
  /\ refbuf' = [c \in Clients |-> 0]
  /\ intro_offset' = [c \in Clients |-> 0]
  /\ count' = [b \in Bufs |-> IF b \in Queued THEN 0 ELSE count[b]]
  /\ stream_data' = 0 /\ stream_data_tail' = 0 /\ burst_point' = 0
  /\ queue_size' = 0 /\ burst_offset' = 0
  /\ queue_size_limit' = 0 /\ burst_size' = 0 /\ max_listeners' = -1
  /\ listeners' = 0 /\ prev_listeners' = 0
  /\ pc' = "stopped"
  /\ UNCHANGED <<running, nbuf, start, sync_point, loaded, remove_from_q, todo,
                 unexpected, mover>>

\* The source_t is used again: a relay reconnects, source_update_settings
\* and source_init run and source_main is entered.
Restart(limit, burst, max) ==
  /\ pc = "stopped"
  /\ queue_size_limit' = limit /\ burst_size' = burst /\ max_listeners' = max
  /\ listeners' = 0 /\ prev_listeners' = -1
  /\ running' = TRUE
  /\ pc' = "get"
  /\ UNCHANGED <<queueVars, count, loaded, remove_from_q, clientVars, todo,
                 unexpected, mover>>

\* source_free_source: what is still in pending_tree is freed.
Free ==
  /\ pc = "stopped" /\ mover = "none"
  /\ pending_tree # {}
  /\ pending_tree' = {}
  /\ mode' = [c \in Clients |-> "http"]
  /\ intro_offset' = [c \in Clients |-> 0]
  /\ UNCHANGED <<pc, running, queueVars, count, loaded, remove_from_q,
                 settingVars, client_tree, refbuf, todo, countVars, unexpected, mover>>

-----------------------------------------------------------------------------
\* A listener is put into pending_tree: by a request (it has a header to
\* send), or by source_move_clients from another source, where it was still
\* sending the header, or sending the intro, or was in the queue.
AddPending(c, m, offset) ==
  /\ c \notin client_tree \cup pending_tree
  /\ ~PendingTreeLocked /\ mover = "none"
  /\ pending_tree' = pending_tree \cup {c}
  /\ mode' = [mode EXCEPT ![c] = m]
  /\ intro_offset' = [intro_offset EXCEPT ![c] = offset]
  /\ UNCHANGED <<pc, running, queueVars, count, loaded, remove_from_q,
                 settingVars, client_tree, refbuf, todo, countVars, unexpected, mover>>

\* source->running = 0 by an admin command, a DELETE request or the slave
\* thread.
RequestStop ==
  /\ running
  /\ running' = FALSE
  /\ UNCHANGED <<pc, queueVars, count, loaded, remove_from_q, settingVars,
                 clientVars, todo, countVars, unexpected, mover>>

\* source_update_settings after the configuration was read again.  It waits for
\* client_tree in source_apply_mount, where it sets max_listeners; what it sets
\* before that is not read by a source thread that holds the tree.
UpdateSettings(limit, burst, max) ==
  /\ ~ClientTreeLocked /\ mover = "none"
  /\ queue_size_limit' = limit /\ burst_size' = burst /\ max_listeners' = max
  /\ UNCHANGED <<pc, running, queueVars, count, loaded, remove_from_q,
                 clientVars, todo, countVars, unexpected, mover>>

-----------------------------------------------------------------------------
SourceThread ==
  \/ \E len \in Lens, sync \in BOOLEAN, eof \in BOOLEAN : AppendBuffer(len, sync, eof)
  \/ \E stop \in BOOLEAN : NoBuffer(stop)
  \/ BurstAdvance \/ BurstRelease \/ BurstDone
  \/ CheckLimit \/ LockTrees
  \/ \E c \in Clients : SendToListener(c) \/ RemoveListener(c)
  \/ AllSent
  \/ \E c \in Clients : AcceptPending(c)
  \/ UpdateStats
  \/ TrimHead \/ TrimDone
  \/ \E fallback \in BOOLEAN : Shutdown(fallback)
  \/ Clear

\* What a thread does inside source_move_clients.
Moving == EndMove \/ \E c \in Clients : MoveClient(c)

Environment ==
  \/ \E c \in Clients : \/ AddPending(c, "http", 0)
                        \/ \E offset \in -1..IntroLen : AddPending(c, "wait", offset)
  \/ RequestStop
  \/ \E limit \in QueueLimits, burst \in BurstSizes, max \in MaxListeners :
       UpdateSettings(limit, burst, max) \/ Restart(limit, burst, max)
  \/ Free

Next == SourceThread \/ BeginMove \/ Moving \/ Environment

Spec == Init /\ [][Next]_vars

-----------------------------------------------------------------------------
\* Every variable of the source, its queue and its listeners has its type.
TypeOK ==
  /\ pc \in {"get", "burst", "release", "check", "lock", "send", "accept",
             "trim", "moving", "clear", "stopped"}
  /\ running \in BOOLEAN
  /\ stream_data \in 0..MaxBuf
  /\ stream_data_tail \in 0..MaxBuf
  /\ burst_point \in 0..MaxBuf
  /\ queue_size \in Int
  /\ burst_offset \in Int
  /\ nbuf \in 0..MaxBuf
  /\ start \in [1..(MaxBuf + 1) -> Nat]
  /\ sync_point \in [Bufs -> BOOLEAN]
  /\ count \in [Bufs -> Int]
  /\ loaded \in Int
  /\ remove_from_q \in BOOLEAN
  /\ queue_size_limit \in Nat
  /\ burst_size \in Nat
  /\ max_listeners \in MaxListeners
  /\ client_tree \subseteq Clients
  /\ pending_tree \subseteq Clients
  /\ mode \in [Clients -> Modes]
  /\ refbuf \in [Clients -> 0..MaxBuf]
  /\ intro_offset \in [Clients -> Int]
  /\ todo \subseteq Clients
  /\ listeners \in Int
  /\ prev_listeners \in Int
  /\ unexpected \in BOOLEAN
  /\ mover \in {"none", "self", "other"}

\* The burst point lies in the queue, and queue_size and burst_offset, which
\* source_main adds to and subtracts from buffer by buffer, are the lengths
\* of the queue and of its part from the burst point on.
QueueAccounting ==
  IF stream_data = 0
  THEN /\ stream_data_tail = 0 /\ burst_point = 0
       /\ queue_size = 0 /\ burst_offset = 0
  ELSE /\ stream_data <= burst_point /\ burst_point <= stream_data_tail
       /\ stream_data_tail = nbuf
       /\ queue_size = start[stream_data_tail + 1] - start[stream_data]
       /\ burst_offset = start[stream_data_tail + 1] - start[burst_point]

\* The references that exist to a queued buffer: one of the queue, one of the
\* burst (until refbuf_release has stored), one of each listener reading it.
BurstReference(b) ==
  IF b >= burst_point \/ (pc = "release" /\ b = burst_point - 1) THEN 1 ELSE 0

References(b) == 1 + BurstReference(b) + Cardinality(Readers(b))

\* No count is ever smaller than the number of references, whatever the other
\* thread does between the load and the store of refbuf_release, and no
\* listener refers to a buffer that has left the queue: nothing that is in
\* use is freed.
NothingFreedInUse ==
  /\ \A b \in Queued : count[b] >= References(b)
  /\ \A c \in Clients : refbuf[c] # 0 => refbuf[c] \in Queued

\* The branch of the trim loop that logs "queue state is unexpected" and
\* stops the source, marked "this should not happen", is never taken.
QueueStateExpected == ~unexpected

\* The source thread's own state is sound in every state: the types, the
\* lengths that source_main keeps by hand, and the dead branch stays dead.
QueueSound == TypeOK /\ QueueAccounting /\ QueueStateExpected

\* source->listeners, an unsigned long that source_main decrements, is the
\* number of clients in client_tree whenever nobody is moving them.
ListenersExact == mover = "none" => listeners = Cardinality(client_tree)

\* Every step leaves the listeners counted right, also removals, moves and
\* restarts, and so the test of max_listeners does its work: a listener that
\* joins client_tree leaves it within the limit then in force.  A limit that a
\* reload lowers below the number of listeners lets nobody in until enough of
\* them have left.
ListenersCounted ==
  [][/\ ListenersExact'
     /\ client_tree' \ client_tree # {} =>
          max_listeners = -1 \/ Cardinality(client_tree') <= max_listeners]_vars

\* A listener that has no place in the queue holds no stream buffer, and one
\* that waits in pending_tree has none yet: moving it cannot leak a buffer.
OnlyServedListenersRead ==
  \A c \in Clients : /\ (refbuf[c] # 0) <=> (mode[c] = "queue")
                     /\ refbuf[c] # 0 => c \in client_tree

\* "normal unreferenced queue data will have a refcount 1, but burst queue
\* data will be at least 2, active clients will also increase refcount": the
\* count of a queued buffer is the number of references to it.
CountIsReferences == \A b \in Queued : count[b] = References(b)

\* "streams like theora may not have the most recent page marked as a
\* starting point, so look for one from the burst point": a listener that
\* was moved to the source is placed if there is a sync point in the burst.
SyncPointFound ==
  \A c \in client_tree :
    (mode[c] = "wait" /\ intro_offset[c] = -1 /\ \E b \in Burst : sync_point[b])
      => find_client_start(-1) # 0

\* The source thread is scheduled, and a thread that is inside
\* source_move_clients gets on with it; nobody has to start a move.
FairSpec == Spec /\ WF_vars(SourceThread) /\ WF_vars(Moving)

\* A queue that is over its limit does not stay as it is: the head, unless
\* the burst needs it, is given up, with the listeners that lag behind there.
LaggardsLetGo ==
  \A b \in Bufs :
    (stream_data = b /\ b < burst_point /\ queue_size > queue_size_limit)
      ~> (stream_data # b \/ queue_size <= queue_size_limit)
=============================================================================
