------------------------------- MODULE Stats -------------------------------
(***************************************************************************)
(* The statistics of Icecast (stats.c): any thread queues events, the      *)
(* stats thread applies them to the tables and copies them to the queues   *)
(* of the STATS clients, each of which has a thread that registers, sends  *)
(* what it finds in its queue and unregisters.  stats_shutdown stops them. *)
(*                                                                         *)
(* There is one global statistic, "stats", the number of STATS clients     *)
(* that have a thread, and one statistic per mount, "listeners", which is  *)
(* set, counted and removed by events.  Events about other statistics, as  *)
(* "clients", are left out.                                                *)
(* What a client has been sent is kept as the table it would draw from it, *)
(* with the statistics whose last line it did not get whole.               *)
(***************************************************************************)
EXTENDS Integers, Sequences, FiniteSets, SequencesExt

CONSTANTS Clients,    \* STATS clients
          Lossy,      \* those that may miss a line without their connection being broken
          Mounts, Global,
          None,       \* NULL, and a statistic that does not exist
          Actions,    \* kinds of events the server queues
          MaxArrivals \* bound: STATS clients, and events queued by other parts of the server

Kinds == {"set", "inc", "dec", "add", "sub", "remove", "hidden"}
ASSUME StatsAssumption ==
  /\ Global \notin Mounts /\ None \notin Mounts \cup {Global} /\ Actions \subseteq Kinds
  /\ MaxArrivals \in Nat /\ Lossy \subseteq Clients

VARIABLES
  queue,       \* _global_event_queue
  current,     \* the event the stats thread has taken, or None
  global,      \* _stats.global_tree
  sources,     \* _stats.source_tree: per mount whether it is there, hidden, its statistic
  conn,        \* per client: where its thread is, its queue, what it was sent and missed
  listening,   \* _event_listeners
  threads,     \* _stats_threads
  running,     \* _stats_running
  main,        \* stats_shutdown
  started, ended,  \* the stats thread
  events,      \* events queued so far
  untold       \* history: a change was made whose result the clients are not told

vars == <<queue, current, global, sources, conn, listening, threads, running, main, started,
          ended, events, untold>>

Event(s, name, action, value) == [source |-> s, name |-> name, action |-> action, value |-> value]
NoSource == [there |-> FALSE, hidden |-> FALSE, value |-> None]
NoGlobal == [stats |-> None]
NoConn == [at |-> "none", queue |-> <<>>, view |-> [global |-> NoGlobal, mount |-> [m \in Mounts |-> None]],
           missed |-> {}]
ConnStates == {"none", "created", "entered", "loop", "leaving", "finishing", "done"}

(* Types. *)
TypeOK ==
  /\ \A i \in 1 .. Len(queue) : queue[i].action \in Kinds /\ queue[i].source \in Mounts \cup {Global}
  /\ current = None \/ current.action \in Kinds
  /\ \A n \in DOMAIN NoGlobal : global[n] \in Int \cup {None}
  /\ \A m \in Mounts : sources[m].value # None => sources[m].there
  /\ \A c \in Clients : conn[c].at \in ConnStates /\ conn[c].missed \subseteq DOMAIN NoGlobal \cup Mounts
  /\ listening \subseteq Clients /\ threads \in 0 .. Cardinality(Clients)
  /\ running \in BOOLEAN /\ started \in BOOLEAN /\ ended \in BOOLEAN
  /\ main \in {"run", "join", "wait", "destroyed"} /\ events \in 0 .. MaxArrivals

Init ==
  /\ queue = <<>> /\ current = None
  /\ global = NoGlobal
  /\ sources = [m \in Mounts |-> NoSource]
  /\ conn = [c \in Clients |-> NoConn]
  /\ listening = {} /\ threads = 0 /\ running = TRUE /\ main = "run"
  /\ started = FALSE /\ ended = FALSE /\ events = 0 /\ untold = FALSE

-----------------------------------------------------------------------------
(* The stats thread *)

(* _stats_thread queues the first values.  Nothing else queues events      *)
(* before: the server accepts connections much later.                      *)
Start ==
  /\ ~started
  /\ started' = TRUE
  /\ queue' = Append(queue, Event(Global, "stats", "set", 0))
  /\ UNCHANGED <<current, global, sources, conn, listening, threads, running, main, ended, events, untold>>

(* The next event is taken under _global_event_mutex. *)
Take ==
  /\ started /\ ~ended /\ running /\ current = None /\ queue # <<>>
  /\ current' = Head(queue) /\ queue' = Tail(queue)
  /\ UNCHANGED <<global, sources, conn, listening, threads, running, main, started, ended, events, untold>>

(* modify_node_event: the new value, and the value the event has after it *)
Modified(old, e) ==
  CASE e.action = "set" -> e.value
    [] e.action = "inc" -> old + 1
    [] e.action = "dec" -> old - 1
    [] e.action = "add" -> old + e.value
    [] e.action = "sub" -> old - e.value
    [] OTHER -> old
Filled(old, e) ==
  IF e.action \in {"inc", "dec"} /\ e.value = None /\ old # None
  THEN [e EXCEPT !.value = Modified(old, e)] ELSE e

(* process_global_event and process_source_event *)
GlobalAfter(g, e) ==
  IF e.source # Global THEN g
  ELSE [g EXCEPT ![e.name] = IF e.action = "remove" THEN None
                             ELSE IF @ = None THEN e.value ELSE Modified(@, e)]

NodeAfter(s, e) ==
  IF e.action = "remove" THEN [s EXCEPT !.value = None]
  ELSE [s EXCEPT !.value = IF @ = None THEN e.value ELSE Modified(@, e)]

SourceAfter(s, e) ==
  IF ~s.there /\ e.action = "remove" THEN s
  ELSE LET new == IF s.there THEN s ELSE [NoSource EXCEPT !.there = TRUE, !.hidden = e.action = "hidden"]
       IN CASE e.name # None -> NodeAfter(new, e)
            [] e.name = None /\ e.action = "hidden" -> [new EXCEPT !.hidden = e.value # None]
            [] e.name = None /\ e.action = "remove" -> NoSource
            [] OTHER -> new

SourcesAfter(t, e) == IF e.source = Global THEN t ELSE [t EXCEPT ![e.source] = SourceAfter(@, e)]

OldValue(e) == IF e.name = None THEN None
               ELSE IF e.source = Global THEN global[e.name] ELSE sources[e.source].value

(* The event is applied and copied to the clients, under _stats_mutex. *)
Apply ==
  /\ current # None
  /\ global' = GlobalAfter(global, current)
  /\ sources' = SourcesAfter(sources, current)
  /\ conn' = [c \in Clients |-> IF c \in listening
                                THEN [conn[c] EXCEPT !.queue = Append(@, Filled(OldValue(current), current))]
                                ELSE conn[c]]
  /\ current' = None
  /\ untold' = (untold \/ current.action \in {"add", "sub", "hidden"})
  /\ UNCHANGED <<queue, listening, threads, running, main, started, ended, events>>

StatsEnds ==
  /\ started /\ ~ended /\ ~running /\ current = None
  /\ ended' = TRUE
  /\ UNCHANGED <<queue, current, global, sources, conn, listening, threads, running, main, started, events, untold>>

-----------------------------------------------------------------------------
(* The rest of the server *)

(* stats_event, stats_event_inc, _dec, _add, _sub and _hidden *)
ServerEvents ==
  {e \in
     {Event(m, "listeners", k, 1) : m \in Mounts, k \in {"set", "add", "sub"}}
       \cup {Event(m, "listeners", k, None) : m \in Mounts, k \in {"inc", "dec", "remove"}}
       \cup {Event(m, None, "remove", None) : m \in Mounts}
       \cup {Event(m, None, "hidden", v) : m \in Mounts, v \in {None, 1}} : e.action \in Actions}

Arriving == events + Cardinality({c \in Clients : conn[c].at # "none"}) < MaxArrivals

Queue(e) ==
  /\ started /\ main = "run" /\ Arriving
  /\ queue' = Append(queue, e) /\ events' = events + 1
  /\ UNCHANGED <<current, global, sources, conn, listening, threads, running, main, started, ended, untold>>

(* stats_clear_virtual_mounts *)
ClearVirtual(m) ==
  /\ main = "run" /\ sources[m].there
  /\ sources' = [sources EXCEPT ![m] = NoSource] /\ untold' = TRUE
  /\ UNCHANGED <<queue, current, global, conn, listening, threads, running, main, started, ended, events>>

-----------------------------------------------------------------------------
(* The thread of a client *)

(* stats_callback: the thread is created, or the connection found broken. *)
Callback(c) ==
  /\ started /\ main = "run" /\ conn[c].at = "none" /\ Arriving
  /\ \E next \in {"created", "finishing"} : conn' = [conn EXCEPT ![c].at = next]
  /\ UNCHANGED <<queue, current, global, sources, listening, threads, running, main, started, ended, events, untold>>

Enter(c) ==
  /\ conn[c].at = "created"
  /\ conn' = [conn EXCEPT ![c].at = "entered"]
  /\ threads' = threads + 1
  /\ queue' = Append(queue, Event(Global, "stats", "set", threads + 1))
  /\ UNCHANGED <<current, global, sources, listening, running, main, started, ended, events, untold>>

(* _register_listener: the statistics there are, then those to come *)
Snapshot ==
  SetToSeq({Event(Global, n, "set", global[n]) : n \in {k \in DOMAIN global : global[k] # None}})
    \o SetToSeq({Event(m, "listeners", "set", sources[m].value) : m \in {k \in Mounts : sources[k].value # None}})

\* Mutant: the snapshot is not part of what is done under the lock.
RegisterEmpty(c) ==
  /\ conn[c].at = "entered"
  /\ conn' = [conn EXCEPT ![c].at = "loop"]
  /\ listening' = listening \cup {c}
  /\ UNCHANGED <<queue, current, global, sources, threads, running, main, started, ended, events, untold>>

_register_listener(c) ==
  /\ conn[c].at = "entered"
  /\ conn' = [conn EXCEPT ![c].at = "loop", ![c].queue = Snapshot]
  /\ listening' = listening \cup {c}
  /\ UNCHANGED <<queue, current, global, sources, threads, running, main, started, ended, events, untold>>

(* What a client knows after an event: "null" stands for no value. *)
Told(view, e) ==
  IF e.source = Global THEN [view EXCEPT !.global[e.name] = e.value]
  ELSE IF e.name = None /\ e.value # None THEN view
  ELSE [view EXCEPT !.mount[e.source] = e.value]

(* The statistic a line is about *)
About(e) ==
  IF e.source = Global THEN {e.name} ELSE IF e.name = None /\ e.value # None THEN {} ELSE {e.source}

(* _send_event_to_client: a line that does not fit its buffer or that the  *)
(* socket does not take now is dropped, one the socket takes in part is    *)
(* cut short and spoils the line after it, and nothing is sent again: any  *)
(* line may not arrive whole.                                              *)
Sent(k, whole) ==
  LET e == Head(k.queue) IN
  [k EXCEPT !.queue = Tail(@),
            !.view = IF whole THEN Told(@, e) ELSE @,
            !.missed = IF whole THEN @ \ About(e) ELSE @ \cup About(e)]

(* The thread takes the next event and sends it, or finds the connection   *)
(* broken.                                                                 *)
Send(c) ==
  /\ conn[c].at = "loop" /\ running /\ conn[c].queue # <<>>
  /\ \/ \E whole \in {TRUE, c \notin Lossy} : conn' = [conn EXCEPT ![c] = Sent(@, whole)]
     \/ conn' = [conn EXCEPT ![c].queue = Tail(@), ![c].at = "leaving"]
  /\ UNCHANGED <<queue, current, global, sources, listening, threads, running, main, started, ended, events, untold>>

\* Mutant: the thread looks at _stats_running only when it has nothing to send.
SeeStopIdle(c) ==
  /\ conn[c].at = "loop" /\ ~running /\ conn[c].queue = <<>>
  /\ conn' = [conn EXCEPT ![c].at = "leaving"]
  /\ UNCHANGED <<queue, current, global, sources, listening, threads, running, main, started, ended, events, untold>>

SeeStop(c) ==
  /\ conn[c].at = "loop" /\ ~running
  /\ conn' = [conn EXCEPT ![c].at = "leaving"]
  /\ UNCHANGED <<queue, current, global, sources, listening, threads, running, main, started, ended, events, untold>>

\* Mutant: the count is decremented after its event was made.
LeaveOldCount(c) ==
  /\ conn[c].at = "leaving"
  /\ conn' = [conn EXCEPT ![c] = [NoConn EXCEPT !.at = "finishing"]]
  /\ listening' = listening \ {c} /\ threads' = threads - 1
  /\ queue' = Append(queue, Event(Global, "stats", "set", threads))
  /\ UNCHANGED <<current, global, sources, running, main, started, ended, events, untold>>

(* _unregister_listener: the thread is not counted from here on. *)
Leave(c) ==
  /\ conn[c].at = "leaving"
  /\ conn' = [conn EXCEPT ![c] = [NoConn EXCEPT !.at = "finishing"]]
  /\ listening' = listening \ {c} /\ threads' = threads - 1
  /\ queue' = Append(queue, Event(Global, "stats", "set", threads - 1))
  /\ UNCHANGED <<current, global, sources, running, main, started, ended, events, untold>>

(* client_destroy, which queues its event, "clients", under the mutex of   *)
(* the queue.                                                              *)
Finish(c) ==
  /\ conn[c].at = "finishing"
  /\ conn' = [conn EXCEPT ![c].at = "done"]
  /\ UNCHANGED <<queue, current, global, sources, listening, threads, running, main, started, ended, events, untold>>

-----------------------------------------------------------------------------
(* stats_shutdown *)
Stop ==
  /\ started /\ main = "run"
  /\ running' = FALSE /\ main' = "join"
  /\ UNCHANGED <<queue, current, global, sources, conn, listening, threads, started, ended, events, untold>>

JoinStats ==
  /\ main = "join" /\ ended
  /\ main' = "wait"
  /\ UNCHANGED <<queue, current, global, sources, conn, listening, threads, running, started, ended, events, untold>>


Destroy ==
  /\ main = "wait" /\ threads = 0
  /\ main' = "destroyed"
  /\ UNCHANGED <<queue, current, global, sources, conn, listening, threads, running, started, ended, events, untold>>

StatsThread == Start \/ Take \/ Apply \/ StatsEnds
ClientThread(c) == Enter(c) \/ _register_listener(c) \/ Send(c) \/ SeeStop(c) \/ Leave(c) \/ Finish(c)
Shutdown == JoinStats \/ Destroy

Next ==
  \/ StatsThread \/ Shutdown \/ Stop
  \/ \E e \in ServerEvents : Queue(e)
  \/ \E m \in Mounts : ClearVirtual(m)
  \/ \E c \in Clients : Callback(c) \/ ClientThread(c)

Spec == Init /\ [][Next]_vars
FairSpec ==
  /\ Spec /\ WF_vars(StatsThread) /\ WF_vars(Shutdown)
  /\ \A c \in Clients : WF_vars(ClientThread(c))

-----------------------------------------------------------------------------
(* "copies all stats to queue, and registers the queue for all new events  *)
(* atomically" (_register_listener): what a client was sent, followed by   *)
(* what is in its queue, is the server's tables, whenever it connected and *)
(* however far it is behind.                                               *)
Tables == [global |-> global, mount |-> [m \in Mounts |-> sources[m].value]]
Mirrors ==
  \A c \in Clients : conn[c].at = "loop" => FoldLeft(Told, conn[c].view, conn[c].queue) = Tables

(* Until a mount is hidden or cleared or a statistic changed by a          *)
(* difference (process_event, stats_clear_virtual_mounts), that is so for  *)
(* every statistic but those whose last line a client did not get whole: a *)
(* line that _send_event_to_client drops or cuts short leaves nothing else *)
(* wrong, and that only until the next line about the same statistic.      *)
MirrorExact ==
  ~untold =>
    \A c \in Clients : conn[c].at = "loop" =>
      LET view == FoldLeft(Told, conn[c].view, conn[c].queue)
          wrong == conn[c].missed \ UNION {About(conn[c].queue[i]) : i \in 1 .. Len(conn[c].queue)}
      IN /\ \A n \in DOMAIN global \ wrong : view.global[n] = global[n]
         /\ \A m \in Mounts \ wrong : view.mount[m] = sources[m].value

(* The statistic "stats" is the number of STATS clients once the events    *)
(* queued are applied, although each client's thread counts itself; and    *)
(* the stats thread writes only to listeners whose thread still has them   *)
(* on its stack (stats_connection).                                        *)
ClientsAccounted ==
  /\ TypeOK
  /\ started =>
       FoldLeft(GlobalAfter, global, (IF current = None THEN <<>> ELSE <<current>>) \o queue).stats
         = threads
  /\ \A c \in Clients : c \in listening <=> conn[c].at \in {"loop", "leaving"}


(* "wait for other threads to shut down" (stats_shutdown): when the        *)
(* mutexes are destroyed no thread of a client remains that will use them. *)
AllWaitedFor ==
  main = "destroyed" => \A c \in Clients : conn[c].at \in {"none", "done"}

(* A shutdown comes to its end, whatever the clients are doing. *)
ShutdownEnds == main = "join" ~> main = "destroyed"
=============================================================================
