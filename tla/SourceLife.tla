----------------------------- MODULE SourceLife -----------------------------
(***************************************************************************)
(* The life of the sources of Icecast (source.c, connection.c): a source   *)
(* client or a thread that plays a fallback file reserves a mount, is      *)
(* admitted within the limit, runs, is stopped by its end, by a request or *)
(* by the shutdown of the server, hands its listeners to the fallback and  *)
(* is freed; meanwhile listeners look for a mount and join it.             *)
(*                                                                         *)
(* Relays, which keep their mount reserved, are in module Relay, the queue *)
(* of a source in StreamQueue.  The streams of a mount and its fallbacks   *)
(* have one format.                                                        *)
(***************************************************************************)
EXTENDS Integers, FiniteSets

CONSTANTS Mounts,
          NoMount,
          Fallback,       \* fallback_mount of each mount, or NoMount
          Files,          \* mounts for which the webroot has a file
          Override,       \* mounts with fallback_override
          WhenFull,       \* mounts with fallback_when_full
          MaxListeners,   \* max_listeners of each mount, -1: no limit
          Listeners,
          Limits,         \* the possible values of source_limit
          MAX_FALLBACK_DEPTH,
          ConError,       \* a source client may break before its thread starts
          MayAbort,       \* a source client may ask for an unknown transfer encoding
          MaxSources      \* bound: source clients and file threads in a behaviour

ASSUME SourceLifeAssumption ==
  /\ NoMount \notin Mounts /\ Fallback \in [Mounts -> Mounts \cup {NoMount}]
  /\ Files \subseteq Mounts /\ Override \subseteq Mounts /\ WhenFull \subseteq Mounts
  /\ MaxListeners \in [Mounts -> Nat \cup {-1}] /\ Limits \subseteq Nat
  /\ MAX_FALLBACK_DEPTH \in Nat \ {0} /\ MaxSources \in Nat
  /\ ConError \in BOOLEAN /\ MayAbort \in BOOLEAN

VARIABLES
  source_limit, \* of the configuration, which stays
  src,         \* per mount: the source in global.source_tree
  sources,     \* global.sources
  published,   \* the statistic "sources"
  listener,    \* per listener: new, <<found, m>> (it reads the tree), in, gone
  files,       \* mounts for which a file thread is about to reserve
  server,      \* global.running, and the end of connection_accept_loop
  made         \* source clients and file threads so far

vars == <<source_limit, src, sources, published, listener, files, server, made>>

(* The steps of a source.  reserved: in the tree; ready: admitted; init,   *)
(* override, steal, main: source_main; down, move, clear, count:           *)
(* source_shutdown; refused: to be cleared without having run; free: to be *)
(* taken from the tree; abandoned: in the tree, and no thread has it.      *)
Counted == {"ready", "init", "override", "steal", "main", "down", "move", "clear", "count"}
Steps == Counted \cup {"none", "reserved", "refused", "free", "abandoned"}

(* "other" is the source it moves listeners to or from, "killed" that a    *)
(* request to remove it was answered with success.                         *)
NoSource == [at |-> "none", kind |-> "none", running |-> FALSE, killed |-> FALSE,
             other |-> NoMount, pending |-> {}, clients |-> {}, listeners |-> 0]

(* Every variable has its type. *)
TypeOK ==
  /\ src \in [Mounts -> [at : Steps, kind : {"none", "client", "file"}, running : BOOLEAN,
                         killed : BOOLEAN, other : Mounts \cup {NoMount},
                         pending : SUBSET Listeners, clients : SUBSET Listeners,
                         listeners : 0 .. Cardinality(Listeners)]]
  /\ sources \in 0 .. Cardinality(Mounts) /\ published \in 0 .. Cardinality(Mounts)
  /\ listener \in [Listeners -> {<<s, NoMount>> : s \in {"new", "in", "gone"}}
                                \cup {<<"found", m>> : m \in Mounts}]
  /\ files \subseteq Mounts /\ made \in 0 .. MaxSources
  /\ server \in {"running", "halting", "waited"} /\ source_limit \in Limits

Init ==
  /\ source_limit \in Limits
  /\ src = [m \in Mounts |-> NoSource] /\ sources = 0 /\ published = 0
  /\ listener = [l \in Listeners |-> <<"new", NoMount>>] /\ files = {}
  /\ server = "running" /\ made = 0

Exists(m) == src[m].at # "none"

(* Nobody holds the read lock of global.source_tree. *)
Unread == /\ \A l \in Listeners : listener[l][1] # "found"
          /\ \A m \in Mounts : src[m].at \notin {"steal", "move"}

(* The listeners in S are now at p. *)
Now(S, p) == [l \in Listeners |-> IF l \in S THEN <<p, NoMount>> ELSE listener[l]]

(* The first running source along the fallbacks of m. *)
source_find_mount(m) ==
  LET Find[d \in 0 .. MAX_FALLBACK_DEPTH, k \in Mounts \cup {NoMount}] ==
        IF d = 0 \/ k = NoMount THEN NoMount
        ELSE IF src[k].running THEN k ELSE Find[d - 1, Fallback[k]]
  IN  Find[MAX_FALLBACK_DEPTH, m]

-----------------------------------------------------------------------------
(* A source comes. *)

Reserved(m, kind) ==
  [src EXCEPT ![m] = IF Exists(m) THEN @ ELSE [NoSource EXCEPT !.at = "reserved", !.kind = kind]]

(* source_reserve for a source client; a mount in use is refused. *)
SourceRequest(m) ==
  /\ server = "running" /\ made < MaxSources /\ Unread
  /\ made' = made + 1 /\ src' = Reserved(m, "client")
  /\ UNCHANGED <<source_limit, sources, published, listener, files, server>>

(* A thread is created for a fallback that is not there. *)
source_recheck_mounts(m) ==
  /\ server = "running" /\ made < MaxSources
  /\ \E k \in Mounts : Fallback[k] = m
  /\ source_find_mount(m) = NoMount
  /\ files' = files \cup {m} /\ made' = made + 1
  /\ UNCHANGED <<source_limit, src, sources, published, listener, server>>

(* The thread opens the file and reserves the mount. *)
source_fallback_file(m) ==
  /\ m \in files /\ Unread
  /\ files' = files \ {m}
  /\ src' = IF m \in Files THEN Reserved(m, "file") ELSE src
  /\ UNCHANGED <<source_limit, sources, published, listener, server, made>>

Admits == sources < source_limit

(* The limit, the content type and the format plugin; a file thread that   *)
(* is refused returns without clearing or freeing its source.              *)
connection_complete_source(m) ==
  /\ src[m].at = "reserved"
  /\ \/ /\ Admits
        /\ sources' = sources + 1 /\ published' = sources + 1
        /\ src' = [src EXCEPT ![m].running = TRUE,
                              ![m].at = IF src[m].kind = "file" THEN "init" ELSE "ready"]
     \/ /\ src' = [src EXCEPT ![m].at = IF src[m].kind = "file" THEN "abandoned" ELSE "refused"]
        /\ UNCHANGED <<sources, published>>
  /\ UNCHANGED <<source_limit, listener, files, server, made>>

\* Mutant: a source client that broke stays in the count.
StartupKeepsCount(m) ==
  /\ src[m].at = "ready"
  /\ src' = [src EXCEPT ![m].at = IF ConError THEN "refused" ELSE "init"]
  /\ UNCHANGED <<source_limit, sources, published, listener, files, server, made>>

(* The rest of source_startup, and source_client_callback: an unknown      *)
(* transfer encoding, a connection that broke, or the source thread.       *)
source_startup(m) ==
  /\ src[m].at = "ready"
  /\ \/ MayAbort /\ src' = [src EXCEPT ![m].at = "abandoned"] /\ UNCHANGED sources
     \/ ConError /\ src' = [src EXCEPT ![m].at = "refused"] /\ sources' = sources - 1
     \/ src' = [src EXCEPT ![m].at = "init"] /\ UNCHANGED sources
  /\ UNCHANGED <<source_limit, published, listener, files, server, made>>

-----------------------------------------------------------------------------
(* It runs. *)

(* The shutdown lock is taken (see Holding) and the source set running. *)
source_init(m) ==
  /\ src[m].at = "init"
  /\ src' = [src EXCEPT ![m].running = TRUE, ![m].listeners = 0, ![m].at = "override"]
  /\ UNCHANGED <<source_limit, sources, published, listener, files, server, made>>

(* The fallback is looked up, to steal its listeners. *)
FindToSteal(m) ==
  /\ src[m].at = "override"
  /\ LET f == IF m \in Override THEN source_find_mount(Fallback[m]) ELSE NoMount
     IN  src' = [src EXCEPT ![m].other = f, ![m].at = IF f = NoMount THEN "main" ELSE "steal"]
  /\ UNCHANGED <<source_limit, sources, published, listener, files, server, made>>

\* Mutant: the listeners stay in the trees of the source they leave.
MoveCopies(s, from, to) ==
  IF from = to \/ ~s[to].running THEN s
  ELSE [s EXCEPT ![to].pending = @ \cup s[from].pending \cup s[from].clients, ![from].listeners = 0]
\* Mutant: the number of listeners of the source is not reset.
MoveKeepsNumber(s, from, to) ==
  IF from = to \/ ~s[to].running THEN s
  ELSE [s EXCEPT ![to].pending = @ \cup s[from].pending \cup s[from].clients,
                 ![from].pending = {}, ![from].clients = {}]
(* The sources once the listeners of "from" are pending on "to": if it is  *)
(* still running, and "from" still has a format (it has not been cleared). *)
source_move_clients(s, from, to) ==
  IF from = to \/ ~s[to].running \/ s[from].at \in {"count", "free"} THEN s
  ELSE [s EXCEPT ![to].pending = @ \cup s[from].pending \cup s[from].clients,
                 ![from].pending = {}, ![from].clients = {}, ![from].listeners = 0]

(* source_init ends by stealing the listeners of the fallback, and         *)
(* source_shutdown moves the listeners to the fallback.                    *)
Steal(m) ==
  /\ src[m].at = "steal"
  /\ src' = [source_move_clients(src, src[m].other, m) EXCEPT ![m].at = "main", ![m].other = NoMount]
  /\ UNCHANGED <<source_limit, sources, published, listener, files, server, made>>

Move(m) ==
  /\ src[m].at = "move"
  /\ src' = [source_move_clients(src, m, src[m].other) EXCEPT ![m].at = "clear", ![m].other = NoMount]
  /\ UNCHANGED <<source_limit, sources, published, listener, files, server, made>>

(* A source with n listeners takes no more. *)
Full(m, n) == MaxListeners[m] # -1 /\ n >= MaxListeners[m]

(* One turn of the loop of source_main: the clients with an error are      *)
(* removed, those pending are accepted as long as the source is not full   *)
(* and destroyed after that, and the end of the stream is noticed.         *)
SourceLoop(m) ==
  /\ src[m].at = "main" /\ src[m].running /\ server = "running"
  /\ \E E \in SUBSET src[m].clients, A \in SUBSET src[m].pending, more \in BOOLEAN :
       LET n == src[m].listeners - Cardinality(E) + Cardinality(A)
       IN  /\ \A i \in 0 .. Cardinality(A) - 1 : ~Full(m, src[m].listeners - Cardinality(E) + i)
           /\ A = src[m].pending \/ Full(m, n)
           /\ src' = [src EXCEPT ![m].clients = (@ \ E) \cup A, ![m].pending = {},
                                 ![m].listeners = n, ![m].running = more]
           /\ listener' = Now(E \cup (src[m].pending \ A), "gone")
  /\ UNCHANGED <<source_limit, sources, published, files, server, made>>

-----------------------------------------------------------------------------
(* It stops. *)

\* Mutant: only the shutdown of the server ends the loop.
StopsOnHalt(m) == server # "running"
\* Mutant: only its own end ends the loop.
StopsOnEnd(m) == ~src[m].running
(* The condition of the loop of source_main does not hold. *)
Stops(m) == server # "running" \/ ~src[m].running

source_shutdown(m) ==
  /\ src[m].at = "main" /\ Stops(m)
  /\ src' = [src EXCEPT ![m].running = FALSE, ![m].at = "down"]
  /\ UNCHANGED <<source_limit, sources, published, listener, files, server, made>>

FindFallback(m) ==
  /\ src[m].at = "down"
  /\ LET f == source_find_mount(Fallback[m])
     IN  src' = [src EXCEPT ![m].other = f, ![m].at = IF f = NoMount THEN "clear" ELSE "move"]
  /\ UNCHANGED <<source_limit, sources, published, listener, files, server, made>>

(* The listeners left are destroyed; a source that never ran is then       *)
(* freed, the others are taken from the count first.                       *)
source_clear_source(m) ==
  /\ src[m].at \in {"clear", "refused"}
  /\ src' = [src EXCEPT ![m].pending = {}, ![m].clients = {}, ![m].listeners = 0,
                        ![m].at = IF @ = "clear" THEN "count" ELSE "free"]
  /\ listener' = Now(src[m].pending \cup src[m].clients, "gone")
  /\ UNCHANGED <<source_limit, sources, published, files, server, made>>

(* The end of source_shutdown: the count, and the shutdown lock. *)
Uncount(m) ==
  /\ src[m].at = "count"
  /\ sources' = sources - 1 /\ published' = sources - 1
  /\ src' = [src EXCEPT ![m].at = "free"]
  /\ UNCHANGED <<source_limit, listener, files, server, made>>

(* With the write lock of the tree; a listener that joined after the       *)
(* source was cleared goes with its trees.                                 *)
source_free_source(m) ==
  /\ src[m].at = "free" /\ Unread
  /\ src' = [src EXCEPT ![m] = NoSource]
  /\ listener' = Now(src[m].pending \cup src[m].clients, "gone")
  /\ UNCHANGED <<source_limit, sources, published, files, server, made>>

(* DELETE and /admin/killsource answer with success. *)
Kill(m) ==
  /\ Exists(m) /\ Unread
  /\ src' = [src EXCEPT ![m].running = FALSE, ![m].killed = TRUE]
  /\ UNCHANGED <<source_limit, sources, published, listener, files, server, made>>

-----------------------------------------------------------------------------
(* A listener comes. *)

(* _handle_get_request finds a source and keeps the read lock; otherwise   *)
(* the request is one for a file.                                          *)
_handle_get_request(l, m) ==
  /\ listener[l][1] = "new"
  /\ LET s == source_find_mount(m)
     IN  listener' = [listener EXCEPT ![l] = IF s = NoMount THEN <<"gone", NoMount>> ELSE <<"found", s>>]
  /\ UNCHANGED <<source_limit, src, sources, published, files, server, made>>

(* The source a listener found, or the fallback of a full one. *)
Roomy(s) ==
  LET Try[d \in 0 .. 10, k \in Mounts \cup {NoMount}] ==
        IF k = NoMount THEN NoMount
        ELSE IF ~Full(k, src[k].listeners) THEN k
        ELSE IF d = 0 \/ k \notin WhenFull THEN NoMount
        ELSE Try[d - 1, source_find_mount(Fallback[k])]
  IN  Try[10, s]

__add_listener_to_source(l) ==
  /\ listener[l][1] = "found"
  /\ LET s == Roomy(listener[l][2])
     IN  IF s = NoMount THEN listener' = Now({l}, "gone") /\ UNCHANGED src
         ELSE /\ listener' = Now({l}, "in")
              /\ src' = [src EXCEPT ![s].pending = @ \cup {l}]
  /\ UNCHANGED <<source_limit, sources, published, files, server, made>>

-----------------------------------------------------------------------------
(* The server stops. *)

(* The sources that hold _source_shutdown_rwlock. *)
Holding == {m \in Mounts : src[m].at \in Counted \ {"ready", "init"}}

Halt ==
  /\ server = "running" /\ server' = "halting"
  /\ UNCHANGED <<source_limit, src, sources, published, listener, files, made>>

(* connection_accept_loop gets the write lock. *)
WaitForSources ==
  /\ server = "halting" /\ Holding = {} /\ server' = "waited"
  /\ UNCHANGED <<source_limit, src, sources, published, listener, files, made>>

SourceStep(m) ==
  \/ connection_complete_source(m) \/ source_startup(m) \/ source_init(m) \/ FindToSteal(m)
  \/ Steal(m) \/ source_shutdown(m) \/ FindFallback(m) \/ Move(m) \/ source_clear_source(m)
  \/ Uncount(m) \/ source_free_source(m)

Next ==
  \/ \E m \in Mounts : \/ SourceRequest(m) \/ source_recheck_mounts(m) \/ source_fallback_file(m)
                       \/ SourceStep(m) \/ SourceLoop(m) \/ Kill(m)
  \/ \E l \in Listeners : __add_listener_to_source(l) \/ \E m \in Mounts : _handle_get_request(l, m)
  \/ Halt \/ WaitForSources

Spec == Init /\ [][Next]_vars

(* Every thread that can run does. *)
Fairness ==
  /\ \A m \in Mounts : WF_vars(SourceStep(m)) /\ WF_vars(source_fallback_file(m))
  /\ \A l \in Listeners : WF_vars(__add_listener_to_source(l))
  /\ WF_vars(WaitForSources)

FairSpec == Spec /\ Fairness

-----------------------------------------------------------------------------
(* Properties *)

(* The sources that were admitted and have not ended.  One whose transfer  *)
(* encoding is unknown never ends: it is abandoned in its place.           *)
Admitted == {m \in Mounts : src[m].at \in Counted \/ (src[m].at = "abandoned" /\ src[m].kind = "client")}

(* global.sources, which connection_complete_source compares with          *)
(* source_limit, is the number of those sources on every path by which one *)
(* starts, fails and ends; so there are never more than the limit.         *)
SourcesCounted ==
  /\ TypeOK
  /\ sources = Cardinality(Admitted) /\ sources <= source_limit

(* A listener that was added is in one tree of one source of the tree      *)
(* until it is destroyed, and one that was destroyed is in none: moves     *)
(* between sources that start and stop neither lose nor double one.        *)
PlacedOnce ==
  \A l \in Listeners :
    Cardinality({m \in Mounts : Exists(m) /\ l \in src[m].pending})
      + Cardinality({m \in Mounts : Exists(m) /\ l \in src[m].clients})
    = IF listener[l][1] = "in" THEN 1 ELSE 0

(* source->listeners is the size of the client tree, also when another     *)
(* source steals the listeners (source_move_clients), and never above      *)
(* max_listeners, though listeners are let in on a number that does not    *)
(* count those pending.                                                    *)
ListenersExact ==
  \A m \in Mounts : /\ src[m].listeners = Cardinality(src[m].clients)
                    /\ MaxListeners[m] # -1 => src[m].listeners <= MaxListeners[m]

(* A running source whose stream ends or that is removed leaves the tree,  *)
(* so that its mount can be reserved again.                                *)
SourceEnds == \A m \in Mounts : (src[m].at = "main" /\ ~src[m].running) ~> (src[m].at = "none")

(* The main thread gets past the sources when the server stops             *)
(* (connection_accept_loop).                                               *)
HaltEnds == (server = "halting") ~> (server = "waited")

(* No listener is added to a source that was de-activated                  *)
(* (source_shutdown: "no more clients will be added").                     *)
NoneAddedAfterStop ==
  [][\A m \in Mounts : src[m].at \in {"down", "move", "clear", "count", "free"}
                         => src'[m].pending \subseteq src[m].pending]_vars

(* A source reported as removed goes (command_kill_source).                *)
KilledEnds == \A m \in Mounts : src[m].killed ~> ~src[m].killed

(* When the main thread goes on, all the sources have shut down            *)
(* (connection_accept_loop).                                               *)
AllSourcesWaited == server = "waited" => Admitted = {}

(* A mount reported as in use is used by a thread or a request.            *)
InUseIsUsed == \A m \in Mounts : src[m].at # "abandoned"

(* The statistic "sources" is the number of connected sources.             *)
PublishedIsConnected == published = Cardinality(Admitted)
=============================================================================
