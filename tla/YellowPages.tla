---------------------------- MODULE YellowPages ----------------------------
(***************************************************************************)
(* The directory listings of Icecast (yp.c): the YP thread adds, touches   *)
(* and removes the entry of each public stream at every configured         *)
(* directory server, while the source threads call yp_add, yp_remove and   *)
(* yp_touch and a configuration reload changes the set of servers.         *)
(*                                                                         *)
(* The YP thread holds yp_lock for reading during a round, so the calls of *)
(* the other threads interleave with the requests it has in flight; it     *)
(* restructures the lists under the write lock, in one step.  What the     *)
(* directory answers is external.                                          *)
(***************************************************************************)
EXTENDS Integers, Sequences, FiniteSets, SequencesExt

CONSTANTS Mounts,      \* mountpoints of sources
          Servers,     \* yp-url values
          MaxEntries,  \* bound: ypdata_t allocated at one time
          Backoff,     \* rounds of the YP thread in the delay after a failure
          Settings     \* how the rest of the server behaves, one of these for good:
                       \* whether calls and reloads begin only when the YP thread is
                       \* settled, which values of yp_public a withdrawal may store,
                       \* whether the directories send a SID with every add they
                       \* accept, and bounds on the yp-urls and the reloads

ASSUME YPAssumption == /\ MaxEntries \in Nat
                       /\ Backoff \in Nat \ {0}
                       /\ Settings \subseteq [spaced : BOOLEAN, stores : SUBSET {-1, 0}, sids : BOOLEAN,
                                               servers : SUBSET Servers, reloads : Nat]

VARIABLES
  entries,     \* ypdata_t, by number; NoEntry when not allocated
  active_yps,  \* servers in use, most recent first
  pending_yps, \* servers a reload added, not yet in use
  marked,      \* active servers with remove = 1
  yp_update,   \* the lists need work under the write lock
  thread,      \* YP thread: where it is, entries left, dead servers, entry in flight
  source,      \* mount -> in source_tree?, yp_public, the yp call it is in
  freeing,     \* mount -> the yp_remove of a source already out of the tree
  configured,  \* yp-url of the current configuration
  reloads,     \* reloads so far
  reloading,   \* yp_recheck_config is between its two critical sections
  stale,       \* some walk of active_yps began at a freed server
  session,     \* entry -> the directory gave it a session that it has not refused
               \* since and has not been asked to remove
  setting      \* a member of Settings

vars == <<entries, active_yps, pending_yps, marked, yp_update, thread, source, freeing,
          configured, reloads, reloading, stale, session, setting>>

Ids == 1 .. MaxEntries
NoEntry == [mount |-> "none"]
Allocated == {i \in Ids : entries[i] # NoEntry}

\* A call of yp_remove: not in it, about to read active_yps, or holding the head it read.
NoCall == [at |-> "none"]
Calls == {NoCall, [at |-> "begin"]} \cup [at : {"read"}, head : Servers \cup {"null"}]
\* What a source is doing: nothing, storing yp_public, or removing before it stores.
Ops == {NoCall} \cup [at : {"store"}, val : {-1, 0, 1}]
                \cup [at : {"begin"}, val : {-1, 0}]
                \cup [at : {"read"}, head : Servers \cup {"null"}, val : {-1, 0}]
Entry == [mount : Mounts, server : Servers, list : {"pending", "mounts"},
          process : {"add", "touch", "remove"}, sid : BOOLEAN,
          release : BOOLEAN, remove : BOOLEAN, wait : 0 .. Backoff]

(* Types. *)
TypeOK ==
  /\ entries \in [Ids -> Entry \cup {NoEntry}]
  /\ active_yps \in Seq(Servers) /\ pending_yps \in Seq(Servers)
  /\ marked \subseteq ToSet(active_yps)
  /\ yp_update \in BOOLEAN
  /\ thread \in [at : {"sleep", "process", "sending", "update"}, left : SUBSET Ids,
                 dead : SUBSET Servers, cur : Ids \cup {0}]
  /\ source \in [Mounts -> [live : BOOLEAN, public : {-1, 0, 1}, op : Ops]]
  /\ freeing \in [Mounts -> Calls]
  /\ configured \subseteq Servers
  /\ reloads \in 0 .. setting.reloads /\ reloading \in BOOLEAN /\ stale \in BOOLEAN
  /\ session \in [Ids -> BOOLEAN]

Init ==
  /\ entries = [i \in Ids |-> NoEntry]
  /\ setting \in Settings
  /\ configured \in SUBSET setting.servers
  /\ pending_yps \in SetToSeqs(configured)   \* yp_recheck_config in yp_initialize
  /\ active_yps = <<>> /\ marked = {} /\ yp_update = TRUE
  /\ thread = [at |-> "sleep", left |-> {}, dead |-> {}, cur |-> 0]
  /\ source = [m \in Mounts |-> [live |-> FALSE, public |-> 0, op |-> NoCall]]
  /\ freeing = [m \in Mounts |-> NoCall]
  /\ reloads = 0 /\ reloading = FALSE /\ stale = FALSE
  /\ session = [i \in Ids |-> FALSE]

-----------------------------------------------------------------------------
(* Lists. *)
create_yp_entry(m, s, list, wait) ==
  [mount |-> m, server |-> s, list |-> list, process |-> "add", sid |-> FALSE,
   release |-> FALSE, remove |-> FALSE, wait |-> wait]

Free(ents) == {i \in Ids : ents[i] = NoEntry}

\* The entries with the set new of distinct records allocated among them.
Allocate(ents, new) ==
  LET place == CHOOSE f \in [new -> Free(ents)] : \A a, b \in new : f[a] = f[b] => a = b
  IN  [i \in Ids |-> IF \E e \in new : place[e] = i
                     THEN CHOOSE e \in new : place[e] = i ELSE ents[i]]

\* find_yp_mount(server->mounts, mount) != NULL
find_yp_mount(s, m) ==
  \E i \in Allocated : entries[i].list = "mounts" /\ entries[i].server = s /\ entries[i].mount = m

\* Servers reached by a walk of active_yps from a head read before the lock was
\* taken.  A head that has been freed meanwhile leads nowhere in particular.
ReachedFrom(head) ==
  {active_yps[k] : k \in {j \in 1 .. Len(active_yps) :
                            \E h \in 1 .. j : active_yps[h] = head}}
Head0 == IF active_yps = <<>> THEN "null" ELSE active_yps[1]
HeadFreed(head) == head # "null" /\ head \notin ToSet(active_yps)

-----------------------------------------------------------------------------
(* The calls of the source threads. *)

yp_add(m) ==
  LET new == {create_yp_entry(m, s, "pending", Backoff) :
                s \in {t \in ToSet(active_yps) : ~ find_yp_mount(t, m)}}
  IN  /\ Cardinality(new) <= Cardinality(Free(entries))
      /\ entries' = Allocate(entries, new)
      /\ yp_update' = (yp_update \/ new # {})

Release(e) == [e EXCEPT !.release = TRUE, !.wait = 0]

\* The walk of yp_remove: it looks at mounts only, and skips old entries.
ReleaseAll(m, head) ==
  entries' = [i \in Ids |->
    IF /\ i \in Allocated
       /\ entries[i].server \in ReachedFrom(head)
       /\ entries[i].list = "mounts" /\ entries[i].mount = m
       /\ ~ entries[i].release /\ ~ entries[i].remove
    THEN Release(entries[i]) ELSE entries[i]]

\* Nothing of the YP books is in motion.
Settled == /\ thread.at = "sleep" /\ ~ yp_update /\ ~ reloading
           /\ \A i \in Allocated : entries[i].list = "mounts" /\ ~ entries[i].release
           /\ \A m \in Mounts : source[m].op = NoCall /\ freeing[m] = NoCall
MayCall == setting.spaced => Settled

\* source_reserve: a source enters the tree with yp_public 0.
SourceReserve(m) ==
  /\ MayCall /\ ~ source[m].live
  /\ source' = [source EXCEPT ![m].live = TRUE]
  /\ UNCHANGED <<entries, active_yps, pending_yps, marked, yp_update, thread, freeing,
                 configured, reloads, reloading, stale, session, setting>>

\* source_apply_mount when the stream is to be public.
ApplyPublic(m) ==
  /\ MayCall /\ source[m].live /\ source[m].op = NoCall /\ source[m].public # 1
  /\ yp_add(m)
  /\ source' = [source EXCEPT ![m].op = [at |-> "store", val |-> 1]]
  /\ UNCHANGED <<active_yps, pending_yps, marked, thread, freeing, configured, reloads,
                 reloading, stale, session, setting>>

\* source_apply_mount when it is no longer public, or the end of a relay
\* (start_relay_stream), which stores -1 afterwards.
BeginWithdraw(m) ==
  /\ MayCall /\ source[m].live /\ source[m].op = NoCall
  /\ \E v \in setting.stores : /\ v = 0 => source[m].public # 0
                        /\ source' = [source EXCEPT ![m].op = [at |-> "begin", val |-> v]]
  /\ UNCHANGED <<entries, active_yps, pending_yps, marked, yp_update, thread, freeing,
                 configured, reloads, reloading, stale, session, setting>>

\* yp_remove reads active_yps before it takes the lock.
ReadHead(m) ==
  /\ source[m].op.at = "begin"
  /\ source' = [source EXCEPT ![m].op = [at |-> "read", head |-> Head0, val |-> @.val]]
  /\ UNCHANGED <<entries, active_yps, pending_yps, marked, yp_update, thread, freeing,
                 configured, reloads, reloading, stale, session, setting>>

Withdraw(m) ==
  /\ source[m].op.at = "read"
  /\ ReleaseAll(m, source[m].op.head)
  /\ stale' = (stale \/ HeadFreed(source[m].op.head))
  /\ source' = [source EXCEPT ![m].op = [at |-> "store", val |-> @.val]]
  /\ UNCHANGED <<active_yps, pending_yps, marked, yp_update, thread, freeing, configured,
                 reloads, reloading, session, setting>>

StorePublic(m) ==
  /\ source[m].op.at = "store"
  /\ source' = [source EXCEPT ![m] = [@ EXCEPT !.public = source[m].op.val, !.op = NoCall]]
  /\ UNCHANGED <<entries, active_yps, pending_yps, marked, yp_update, thread, freeing,
                 configured, reloads, reloading, stale, session, setting>>

\* source_free_source: out of the tree, then yp_remove.  The mount may be
\* reserved again in between.
SourceFree(m) ==
  /\ MayCall /\ source[m].live /\ source[m].op = NoCall /\ freeing[m] = NoCall
  /\ source' = [source EXCEPT ![m] = [live |-> FALSE, public |-> 0, op |-> NoCall]]
  /\ freeing' = [freeing EXCEPT ![m] = [at |-> "begin"]]
  /\ UNCHANGED <<entries, active_yps, pending_yps, marked, yp_update, thread, configured,
                 reloads, reloading, stale, session, setting>>

FreeReadHead(m) ==
  /\ freeing[m].at = "begin"
  /\ freeing' = [freeing EXCEPT ![m] = [at |-> "read", head |-> Head0]]
  /\ UNCHANGED <<entries, active_yps, pending_yps, marked, yp_update, thread, source,
                 configured, reloads, reloading, stale, session, setting>>

FreeWithdraw(m) ==
  /\ freeing[m].at = "read"
  /\ ReleaseAll(m, freeing[m].head)
  /\ stale' = (stale \/ HeadFreed(freeing[m].head))
  /\ freeing' = [freeing EXCEPT ![m] = NoCall]
  /\ UNCHANGED <<active_yps, pending_yps, marked, yp_update, thread, source, configured,
                 reloads, reloading, session, setting>>

\* yp_touch, called by the format of a running source: at each server the next
\* touch of an entry still in use is put three seconds from now, unless one is
\* scheduled soon.
yp_touch(m) ==
  LET Usable == {i \in Allocated : /\ entries[i].mount = m /\ entries[i].list = "mounts"
                                   /\ ~ entries[i].release /\ ~ entries[i].remove
                                   /\ entries[i].process = "touch"}
  IN  /\ source[m].live
      /\ \E T \in SUBSET Usable \ {{}} :
           /\ \A i, j \in T : entries[i].server = entries[j].server => i = j
           /\ entries' = [i \in Ids |-> IF i \in T THEN [entries[i] EXCEPT !.wait = 1]
                                                   ELSE entries[i]]
      /\ UNCHANGED <<active_yps, pending_yps, marked, yp_update, thread, source, freeing,
                     configured, reloads, reloading, stale, session, setting>>

-----------------------------------------------------------------------------
(* A configuration reload. *)

\* First half, under the read lock: active servers not in the new configuration
\* are marked, new ones queued.  Pending servers are left alone.
RecheckConfig ==
  /\ MayCall /\ ~ reloading /\ reloads < setting.reloads
  /\ \E S \in SUBSET setting.servers :
       LET new == S \ (ToSet(active_yps) \cup ToSet(pending_yps)) IN
         /\ configured' = S
         /\ marked' = ToSet(active_yps) \ S
         /\ \E q \in SetToSeqs(new) : pending_yps' = q \o pending_yps
  /\ reloads' = reloads + 1 /\ reloading' = TRUE
  /\ UNCHANGED <<entries, active_yps, yp_update, thread, source, freeing, stale, session, setting>>

\* Mutant: the YP thread is not told.
RecheckDoneQuiet ==
  /\ reloading /\ thread.at \in {"sleep", "update"}
  /\ reloading' = FALSE
  /\ UNCHANGED <<entries, active_yps, pending_yps, marked, yp_update, thread, source,
                 freeing, configured, reloads, stale, session, setting>>

\* Second half, under the write lock, which a round of the YP thread excludes.
RecheckDone ==
  /\ reloading /\ thread.at \in {"sleep", "update"}
  /\ reloading' = FALSE /\ yp_update' = TRUE
  /\ UNCHANGED <<entries, active_yps, pending_yps, marked, thread, source, freeing,
                 configured, reloads, stale, session, setting>>

-----------------------------------------------------------------------------
(* The YP thread. *)

\* thread_sleep, then the read lock.  Time is counted in rounds.
BeginRound ==
  /\ thread.at = "sleep"
  /\ thread' = [at |-> "process", dead |-> {}, cur |-> 0,
                left |-> {i \in Allocated : entries[i].list = "mounts"}]
  /\ entries' = [i \in Ids |-> IF i \in Allocated /\ entries[i].wait > 0
                               THEN [entries[i] EXCEPT !.wait = @ - 1] ELSE entries[i]]
  /\ UNCHANGED <<active_yps, pending_yps, marked, yp_update, source, freeing, configured,
                 reloads, reloading, stale, session, setting>>

\* yp_process_server: the server could not be contacted, so its other entries
\* start again later.  An entry released by yp_remove has next_update 0, and
\* adding 900 leaves it due.
Postponed(e) == [e EXCEPT !.process = "add",
                          !.wait = IF e.release /\ e.wait = 0 THEN 0 ELSE Backoff]

SkipEntry(i) ==
  /\ thread.at = "process" /\ i \in thread.left /\ entries[i].server \in thread.dead
  /\ entries' = [entries EXCEPT ![i] = Postponed(entries[i])]
  /\ thread' = [thread EXCEPT !.left = @ \ {i}]
  /\ UNCHANGED <<active_yps, pending_yps, marked, yp_update, source, freeing, configured,
                 reloads, reloading, stale, session, setting>>

\* process_ypdata: not due yet.
NotDue(i) ==
  /\ thread.at = "process" /\ i \in thread.left /\ entries[i].server \notin thread.dead
  /\ entries[i].wait > 0
  /\ thread' = [thread EXCEPT !.left = @ \ {i}]
  /\ UNCHANGED <<entries, active_yps, pending_yps, marked, yp_update, source, freeing,
                 configured, reloads, reloading, stale, session, setting>>

\* What process_ypdata will do with an entry.
ToDo(e) == IF e.release THEN "remove" ELSE e.process

\* Mutant: the entry is not marked for deletion.
DroppedKept(e) == [e EXCEPT !.sid = FALSE, !.process = "add"]

\* do_yp_remove after, or without, its request.
Dropped(e) == [e EXCEPT !.sid = FALSE, !.remove = TRUE, !.process = "add"]

\* process_ypdata of a due entry that needs a request: it is put in flight.
SendRequest(i) ==
  LET e == entries[i] IN
    /\ thread.at = "process" /\ i \in thread.left /\ e.server \notin thread.dead
    /\ e.wait = 0
    /\ ToDo(e) = "remove" => e.sid
    /\ entries' = [entries EXCEPT ![i].process = ToDo(e)]
    /\ thread' = [thread EXCEPT !.at = "sending", !.cur = i, !.left = @ \ {i}]
    /\ UNCHANGED <<active_yps, pending_yps, marked, yp_update, source, freeing, configured,
                   reloads, reloading, stale, session, setting>>

\* do_yp_remove of an entry the directory does not know.
DropUnlisted(i) ==
  /\ thread.at = "process" /\ i \in thread.left /\ entries[i].server \notin thread.dead
  /\ entries[i].wait = 0 /\ ToDo(entries[i]) = "remove" /\ ~ entries[i].sid
  /\ entries' = [entries EXCEPT ![i] = Dropped(entries[i])]
  /\ thread' = [thread EXCEPT !.left = @ \ {i}]
  /\ yp_update' = TRUE
  /\ UNCHANGED <<active_yps, pending_yps, marked, source, freeing, configured, reloads,
                 reloading, stale, session, setting>>

\* Mutant: after a refused touch the entry is touched again, without a session.
AnsweredTouchAgain(e, answer, sid) ==
  CASE e.process = "remove" -> {Dropped(e)}
    [] answer = "ok" /\ e.process # "remove" ->
         {[e EXCEPT !.process = "touch", !.sid = @ \/ sid, !.wait = 1]}
    [] answer # "ok" /\ e.process # "remove" ->
         {[e EXCEPT !.sid = FALSE, !.wait = Backoff]}

\* send_to_yp and what do_yp_add, do_yp_touch and do_yp_remove make of its
\* result: entry e after the answer to its request.  handle_returned_header
\* keeps the SID of an answer to an add, if there is one, whatever else the
\* answer says, also when the connection fails after it.
Answered(e, answer, sid) ==
  CASE e.process = "remove" -> {Dropped(e)}
    [] answer = "ok" /\ e.process = "add" ->
         {[e EXCEPT !.process = "touch", !.sid = @ \/ sid, !.wait = 1]}
    [] answer = "ok" /\ e.process = "touch" -> {[e EXCEPT !.wait = w] : w \in 1 .. Backoff}
    [] answer = "refused" /\ e.process # "remove" ->
         {[e EXCEPT !.process = "add", !.sid = FALSE, !.wait = Backoff]}
    [] answer = "unreachable" /\ e.process # "remove" ->
         {[e EXCEPT !.process = "add", !.sid = @ \/ sid, !.wait = Backoff]}

\* The answer arrives, with or without a SID.  Only add and remove report that
\* the server is dead.
Response(answer, sid) ==
  LET e == entries[thread.cur] IN
    /\ thread.at = "sending"
    /\ sid => e.process = "add"
    /\ setting.sids /\ answer = "ok" /\ e.process = "add" => sid
    /\ \E e2 \in Answered(e, answer, sid) : entries' = [entries EXCEPT ![thread.cur] = e2]
    /\ session' = [session EXCEPT ![thread.cur] =
                     (@ \/ sid) /\ answer # "refused" /\ e.process # "remove"]
    /\ yp_update' = (yp_update \/ e.process = "remove")
    /\ thread' = [thread EXCEPT !.at = "process", !.cur = 0,
                                !.dead = IF answer = "unreachable" /\ e.process # "touch"
                                         THEN @ \cup {e.server} ELSE @]
    /\ UNCHANGED <<active_yps, pending_yps, marked, source, freeing, configured, reloads,
                   reloading, stale, setting>>

EndRound ==
  /\ thread.at = "process" /\ thread.left = {}
  /\ thread' = [thread EXCEPT !.at = IF yp_update THEN "update" ELSE "sleep", !.dead = {}]
  /\ UNCHANGED <<entries, active_yps, pending_yps, marked, yp_update, source, freeing,
                 configured, reloads, reloading, stale, session, setting>>

\* check_servers: what becomes of the server lists.
NewActive == Reverse(pending_yps) \o SelectSeq(active_yps, LAMBDA s : s \notin marked)
\* Mutant: new servers start empty.
PopulatedNever == {}
\* ... new servers get an entry for each source whose yp_public is not 0,
Populated == {create_yp_entry(m, s, "mounts", 0) :
                m \in {n \in Mounts : source[n].live /\ source[n].public # 0},
                s \in ToSet(pending_yps)}
\* Mutant: released entries are deleted without waiting for the directory.
KeptUnlessReleased(e) == e # NoEntry /\ e.server \in ToSet(NewActive) /\ ~ e.release
\* ... and destroy_yp_server frees the entries of those that go;
\* add_pending_yp and delete_marked_yp do the lists of those that stay.
Kept(e) == e # NoEntry /\ e.server \in ToSet(NewActive) /\ ~ e.remove
Rebuilt == [i \in Ids |-> IF Kept(entries[i]) THEN [entries[i] EXCEPT !.list = "mounts"]
                                              ELSE NoEntry]

UpdateLists ==
  /\ thread.at = "update"
  /\ Cardinality(Populated) <= Cardinality(Free(Rebuilt))
  /\ entries' = Allocate(Rebuilt, Populated)
  /\ active_yps' = NewActive /\ pending_yps' = <<>> /\ marked' = {}
  /\ yp_update' = FALSE
  /\ session' = [i \in Ids |-> session[i] /\ Kept(entries[i])]
  /\ thread' = [thread EXCEPT !.at = "sleep"]
  /\ UNCHANGED <<source, freeing, configured, reloads, reloading, stale, setting>>

-----------------------------------------------------------------------------
Answers == {"ok", "refused", "unreachable"}

YPThread ==
  \/ BeginRound
  \/ \E i \in Ids : SkipEntry(i) \/ NotDue(i) \/ SendRequest(i) \/ DropUnlisted(i)
  \/ \E answer \in Answers, sid \in BOOLEAN : Response(answer, sid)
  \/ EndRound
  \/ UpdateLists

\* A call, once begun, is carried through.
CallStep(m) == ReadHead(m) \/ Withdraw(m) \/ StorePublic(m) \/ FreeReadHead(m) \/ FreeWithdraw(m)
CallBegin(m) == SourceReserve(m) \/ ApplyPublic(m) \/ BeginWithdraw(m) \/ SourceFree(m) \/ yp_touch(m)

Next ==
  \/ YPThread
  \/ RecheckConfig
  \/ RecheckDone
  \/ \E m \in Mounts : CallStep(m) \/ CallBegin(m)

Spec == Init /\ [][Next]_vars

\* The YP thread is never blocked for ever: requests time out and the lock is
\* held briefly by the others.  A reload waiting for the write lock gets it in
\* one of the sleeps between rounds.
FairSpec == Spec /\ WF_vars(YPThread) /\ SF_vars(RecheckDone)

-----------------------------------------------------------------------------
(* Properties. *)

(* An entry that the YP thread drops while its server stays configured was   *)
(* withdrawn by yp_remove, and if the directory had given it a session, then *)
(* the directory has refused that session or a remove request for it has     *)
(* been made (once: do_yp_remove does not repeat one that fails).  If        *)
(* yp_remove met the entry with its add request in flight, the session that  *)
(* request opens is not forgotten.                                           *)
WithdrawnBeforeGone ==
  [][\A i \in Ids : /\ entries[i] # NoEntry /\ entries'[i] = NoEntry
                    /\ entries[i].server \in ToSet(active_yps')
                    => entries[i].release /\ ~ session[i]]_vars

(* With directories that send a SID with every add they accept, an entry is  *)
(* only touched while it has a sid, which do_yp_touch formats into its       *)
(* request.  And with any directory, an entry marked by do_yp_remove is      *)
(* deleted before any other round, so that no request is made for it again.  *)
RequestHasSession ==
  /\ TypeOK
  /\ \A i \in Allocated :
       /\ setting.sids /\ entries[i].process = "touch" => entries[i].sid
       /\ entries[i].remove => /\ i \notin thread.left /\ i # thread.cur
                               /\ yp_update /\ thread.at # "sleep"

(* source_free_source "make sure all YP entries have gone": once its         *)
(* yp_remove has returned and no source has the mount, every entry left for  *)
(* it is on its way out.                                                     *)
GoneWhenFreed ==
  \A m \in Mounts : ~ source[m].live /\ freeing[m] = NoCall =>
    \A i \in Allocated : entries[i].mount = m => entries[i].release

(* When calls and reloads begin one at a time: a stream that                 *)
(* source_apply_mount made public has exactly one entry that is not on its   *)
(* way out at each server in use, also at one a reload has added since, so   *)
(* that it is listed, and not twice; and one whose source is gone is listed  *)
(* nowhere for long.                                                         *)
ListedAsPublic ==
  setting.spaced =>
    /\ GoneWhenFreed
    /\ \A m \in Mounts : source[m].live /\ source[m].public = 1 /\ source[m].op = NoCall =>
         \A s \in ToSet(active_yps) \ marked :
           Cardinality({i \in Allocated : entries[i].mount = m /\ entries[i].server = s
                                          /\ ~ entries[i].release}) = 1

(* yp_add "Add YP entries to active servers": when it returns, each server in *)
(* use has an entry for the mount that is not on its way out.                *)
AddLists ==
  [][\A m \in Mounts : ApplyPublic(m) =>
       \A s \in ToSet(active_yps) : \E i \in Ids :
         /\ entries'[i] # NoEntry
         /\ entries'[i].mount = m /\ entries'[i].server = s /\ ~ entries'[i].release]_vars

(* The walk of active_yps in yp_remove is meant to be protected by yp_lock   *)
(* ("make sure YP thread is not modifying the lists"): it starts at a server *)
(* that is still there.                                                      *)
WalksLiveList == ~ stale

(* An entry that yp_remove released leaves the list, whatever the directory  *)
(* answers and whatever happened to its delay.                               *)
ReleasedGoes ==
  \A i \in Ids : (entries[i] # NoEntry /\ entries[i].release) ~> (entries[i] = NoEntry)

(* A directory that stays configured comes into use.                         *)
ConfiguredInUse ==
  \A s \in Servers : (s \in configured) ~> (s \in ToSet(active_yps) \/ s \notin configured)

(* Check for changes in the YP servers configured: a directory that is no    *)
(* longer configured goes out of use.                                        *)
UnconfiguredGoes ==
  \A s \in Servers : (s \notin configured) ~> (s \notin ToSet(active_yps) \/ s \in configured)
=============================================================================
