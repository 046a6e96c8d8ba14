------------------------------- MODULE Relay -------------------------------
(***************************************************************************)
(* The relays of Icecast (slave.c): the slave thread keeps two lists, the  *)
(* relays of the configuration and those of a master server, starts a      *)
(* thread for each relay, joins the threads that ended and frees the       *)
(* relays that are no longer wanted; the relay threads connect, run the    *)
(* source and report their end.  The two mutexes involved, _slave_mutex    *)
(* and relay_lock, are modelled with the order in which they are taken.    *)
(*                                                                         *)
(* Time is counted in passes of the slave thread's loop (one second each). *)
(* The upstream and master servers and the listeners are the environment.  *)
(***************************************************************************)
EXTENDS Integers, FiniteSets, TLC

CONSTANTS Relays,      \* relays, by local mount
          Settings,    \* what each may be configured with: its upstream (servers,
                       \* ports, mounts) and its login (user, password, bind)
          Master,      \* those listed by the master server
          OnDemand,    \* those with on-demand set
          Contended,   \* those whose mount another source may hold
          MayFail,     \* upstream connections may fail
          EndsByItself,\* upstream streams may end
          Interval,    \* master_update_interval, in passes
          StartDelay,  \* delay set when a relay is started, in passes
          EndDelay,    \* delay set when a relay has ended, in passes
          Changes      \* bound: changes of the configuration or the master's list

ASSUME RelayAssumption ==
  /\ Settings \in [Relays -> SUBSET [upstream : STRING, login : STRING]]
  /\ Master \subseteq Relays /\ OnDemand \subseteq Relays /\ Contended \subseteq Relays
  /\ MayFail \in BOOLEAN /\ EndsByItself \in BOOLEAN
  /\ Interval \in Nat \ {0} /\ StartDelay \in Nat /\ EndDelay \in Nat /\ Changes \in Nat

VARIABLES
  wanted,       \* what the configuration and the master server list now: NoConfig or settings
  changes,      \* changes so far
  reread,       \* global.schedule_config_reread
  relay,        \* per relay: its settings (NoConfig when not in a list), source, running, cleanup, start
  thread,       \* per relay: where its thread is
  source,       \* per relay: source->running, on_demand, on_demand_req
  slave,        \* the slave thread
  slave_mutex,  \* owner of _slave_mutex
  relay_lock,   \* owner of relay_lock
  max_interval, interval, update_settings, update_all_mounts,
  slave_running,
  rest          \* history: passes a relay that ended should still stay down

vars == <<wanted, changes, reread, relay, thread, source, slave, slave_mutex, relay_lock,
          max_interval, interval, update_settings, update_all_mounts, slave_running, rest>>
flags == <<max_interval, update_settings, update_all_mounts>>
locks == <<slave_mutex, relay_lock>>

None == "none"
NoConfig == [upstream |-> "none", login |-> "none"]
Configs(r) == Settings[r] \cup {NoConfig}
Plans == {p \in [Relays -> UNION {Configs(r) : r \in Relays}] : \A r \in Relays : p[r] \in Configs(r)}
BiggestDelay == CHOOSE d \in {Interval, StartDelay, EndDelay} :
                  \A e \in {Interval, StartDelay, EndDelay} : e <= d
ThreadStates == {"none", "connect", "complete", "rebuild", "serve", "notify", "mark",
                 "report", "fail", "fail_lock", "fail_done", "done"}

(* Types. *)
TypeOK ==
  /\ wanted \in Plans /\ changes \in 0 .. Changes
  /\ relay \in [Relays -> [config : UNION {Configs(r) : r \in Relays}, source : BOOLEAN, running : BOOLEAN,
                           cleanup : BOOLEAN, start : 0 .. BiggestDelay]]
  /\ thread \in [Relays -> ThreadStates]
  /\ source \in [Relays -> [running : BOOLEAN, on_demand : BOOLEAN, req : BOOLEAN]]
  /\ slave \in [at : {"top", "interval", "master", "lock", "section", "announce", "join",
                      "settings", "final", "final_join", "ended"},
                part : {"master", "xml"}, free : SUBSET Relays, check : SUBSET Relays,
                cur : Relays \cup {"none"}, skip : BOOLEAN,
                list : Plans]
  /\ slave_mutex \in Relays \cup {"free", "slave"}
  /\ relay_lock \in Relays \cup {"free", "slave"}
  /\ max_interval \in {0, Interval} /\ interval \in 0 .. Interval
  /\ {reread, update_settings, update_all_mounts, slave_running} \subseteq BOOLEAN
  /\ rest \in [Relays -> 0 .. BiggestDelay]

NoRelay == [config |-> NoConfig, source |-> FALSE, running |-> FALSE, cleanup |-> FALSE, start |-> 0]
Listed == {r \in Relays : relay[r].config # NoConfig}
NoSource == [running |-> FALSE, on_demand |-> FALSE, req |-> FALSE]

Init ==
  /\ wanted \in Plans /\ changes = 0 /\ reread = FALSE
  /\ relay = [r \in Relays |-> NoRelay]
  /\ thread = [r \in Relays |-> "none"]
  /\ source = [r \in Relays |-> NoSource]
  /\ slave = [at |-> "top", part |-> "xml", free |-> {}, check |-> {}, cur |-> "none",
              skip |-> FALSE, list |-> [r \in Relays |-> NoConfig]]
  /\ slave_mutex = "free" /\ relay_lock = "free"
  /\ max_interval = 0 /\ interval = 0
  /\ update_settings = FALSE /\ update_all_mounts = FALSE
  /\ slave_running = TRUE
  /\ rest = [r \in Relays |-> 0]

-----------------------------------------------------------------------------
(* slave_update_all_mounts and slave_rebuild_mounts: a critical section of   *)
(* _slave_mutex, in one step once the mutex is free.                         *)
slave_update_all_mounts ==
  /\ slave_mutex = "free"
  /\ max_interval' = 0 /\ update_all_mounts' = TRUE /\ update_settings' = TRUE
slave_rebuild_mounts ==
  /\ slave_mutex = "free"
  /\ update_settings' = TRUE
  /\ UNCHANGED <<max_interval, update_all_mounts>>

-----------------------------------------------------------------------------
(* A relay thread: start_relay_stream. *)

\* open_relay_connection, to the upstreams in turn.
Connect(r) ==
  /\ thread[r] = "connect"
  /\ \/ thread' = [thread EXCEPT ![r] = "complete"]
     \/ MayFail /\ thread' = [thread EXCEPT ![r] = "fail"]
  /\ UNCHANGED <<wanted, changes, reread, relay, source, slave, locks, flags, interval,
                 slave_running, rest>>

\* connection_complete_source: it can fail, or it sets source->running ...
Complete(r) ==
  /\ thread[r] = "complete"
  /\ \/ /\ thread' = [thread EXCEPT ![r] = "rebuild"]
        /\ source' = [source EXCEPT ![r].running = TRUE]
     \/ /\ MayFail
        /\ thread' = [thread EXCEPT ![r] = "fail"]
        /\ UNCHANGED source
  /\ UNCHANGED <<wanted, changes, reread, relay, slave, locks, flags, interval,
                 slave_running, rest>>

\* ... and calls slave_rebuild_mounts; source_init sets source->running again.
StartServing(r) ==
  /\ thread[r] = "rebuild"
  /\ slave_rebuild_mounts
  /\ thread' = [thread EXCEPT ![r] = "serve"]
  /\ source' = [source EXCEPT ![r].running = TRUE]
  /\ UNCHANGED <<wanted, changes, reread, relay, slave, locks, interval, slave_running, rest>>

\* source_main returns: it was told to stop, the server is halting, the upstream
\* ended, or nobody listens to an on-demand relay.  source_clear_source resets
\* on_demand_req.
SourceEnds(r) ==
  /\ thread[r] = "serve"
  /\ \/ ~ source[r].running
     \/ ~ slave_running
     \/ EndsByItself
     \/ source[r].on_demand
  /\ source' = [source EXCEPT ![r].running = FALSE, ![r].req = FALSE]
  /\ thread' = [thread EXCEPT ![r] = IF r \in OnDemand THEN "mark" ELSE "notify"]
  /\ rest' = [rest EXCEPT ![r] = IF r \in OnDemand THEN @ ELSE EndDelay]
  /\ UNCHANGED <<wanted, changes, reread, relay, slave, locks, flags, interval, slave_running>>

\* A relay that is not on-demand is given a delay before it may start again.
NotifyEnd(r) ==
  /\ thread[r] = "notify"
  /\ relay' = [relay EXCEPT ![r].start = EndDelay]
  /\ slave_update_all_mounts
  /\ thread' = [thread EXCEPT ![r] = "mark"]
  /\ UNCHANGED <<wanted, changes, reread, source, slave, locks, interval, slave_running, rest>>

\* Mutant: the slave thread is not told that there is something to clean up.
MarkCleanupForgotten(r) ==
  /\ thread[r] = "mark"
  /\ thread' = [thread EXCEPT ![r] = "report"]
  /\ UNCHANGED <<wanted, changes, reread, relay, source, slave, locks, flags, interval,
                 slave_running, rest>>

\* relay->cleanup = 1, without a lock.
MarkCleanup(r) ==
  /\ thread[r] = "mark"
  /\ relay' = [relay EXCEPT ![r].cleanup = TRUE]
  /\ thread' = [thread EXCEPT ![r] = "report"]
  /\ UNCHANGED <<wanted, changes, reread, source, slave, locks, flags, interval,
                 slave_running, rest>>

ReportEnd(r) ==
  /\ thread[r] = "report"
  /\ slave_rebuild_mounts
  /\ thread' = [thread EXCEPT ![r] = "done"]
  /\ UNCHANGED <<wanted, changes, reread, relay, source, slave, locks, interval,
                 slave_running, rest>>

\* The connection failed: source_clear_source, then _slave_mutex and, inside it,
\* relay_lock.
FailLockSlave(r) ==
  /\ thread[r] = "fail" /\ slave_mutex = "free"
  /\ source' = [source EXCEPT ![r].req = FALSE]
  /\ slave_mutex' = r
  /\ thread' = [thread EXCEPT ![r] = "fail_lock"]
  /\ UNCHANGED <<wanted, changes, reread, relay, slave, relay_lock, flags, interval,
                 slave_running, rest>>

FailLockRelay(r) ==
  /\ thread[r] = "fail_lock" /\ relay_lock = "free"
  /\ relay_lock' = r
  /\ source' = [source EXCEPT ![r].on_demand = FALSE]
  /\ relay' = [relay EXCEPT ![r].start = max_interval, ![r].cleanup = TRUE]
  /\ rest' = [rest EXCEPT ![r] = max_interval]
  /\ thread' = [thread EXCEPT ![r] = "fail_done"]
  /\ UNCHANGED <<wanted, changes, reread, slave, slave_mutex, flags, interval, slave_running>>

FailUnlock(r) ==
  /\ thread[r] = "fail_done"
  /\ relay_lock' = "free" /\ slave_mutex' = "free"
  /\ thread' = [thread EXCEPT ![r] = "done"]
  /\ UNCHANGED <<wanted, changes, reread, relay, source, slave, flags, interval,
                 slave_running, rest>>

RelayThread(r) ==
  \/ Connect(r) \/ Complete(r) \/ StartServing(r) \/ NotifyEnd(r)
  \/ MarkCleanup(r) \/ ReportEnd(r) \/ FailLockSlave(r) \/ FailLockRelay(r) \/ FailUnlock(r)

-----------------------------------------------------------------------------
(* The slave thread: _slave_thread. *)

\* Mutant: the shutdown is not noticed.
TopNoExit ==
  /\ slave.at = "top" /\ slave_mutex = "free"
  /\ slave' = [slave EXCEPT !.at = "interval"]
  /\ UNCHANGED <<wanted, changes, reread, relay, thread, source, locks, flags, interval,
                 slave_running, rest>>

\* Top of the loop: re-read the configuration if asked, sleep a second, go on
\* unless the server shuts down.  config_reread_config ends with a call of
\* slave_update_all_mounts.
Top ==
  /\ slave.at = "top" /\ slave_mutex = "free"
  /\ IF reread THEN slave_update_all_mounts ELSE UNCHANGED flags
  /\ reread' = FALSE
  /\ relay' = [r \in Relays |-> [relay[r] EXCEPT !.start = IF @ > 0 THEN @ - 1 ELSE 0]]
  /\ rest' = [r \in Relays |-> IF rest[r] > 0 THEN rest[r] - 1 ELSE 0]
  /\ IF slave_running
     THEN slave' = [slave EXCEPT !.at = "interval"]
     ELSE slave' = [slave EXCEPT !.at = "final", !.free = Listed,
                                   !.list = [r \in Relays |-> NoConfig]]
  /\ UNCHANGED <<wanted, changes, thread, source, locks, interval, slave_running>>

\* Whether the relay lists are due for an update.
CheckInterval ==
  /\ slave.at = "interval" /\ slave_mutex = "free"
  /\ \/ /\ max_interval <= interval + 1
        /\ slave' = [slave EXCEPT !.at = "master", !.skip = (max_interval = 0)]
        /\ interval' = 0 /\ max_interval' = Interval
     \/ /\ max_interval > interval + 1
        /\ slave' = [slave EXCEPT !.at = "lock", !.part = "xml", !.free = {}, !.skip = FALSE]
        /\ interval' = interval + 1
        /\ UNCHANGED max_interval
  /\ UNCHANGED <<wanted, changes, reread, relay, thread, source, locks, update_settings,
                 update_all_mounts, slave_running, rest>>

\* Mutant: a change of settings is not looked for.
ToFreeRemoved(part) == {r \in part : relay[r].config # NoConfig /\ wanted[r] = NoConfig}

\* update_relays on one of the two lists: a relay with the upstream now wanted
\* stays as it is, with its old login (relay_has_changed does "not consider this
\* a relevant change"), the others are to be freed; after that the new ones are
\* in the list.
Updated(part) == [r \in part |-> [relay[r] EXCEPT !.config = IF @ = NoConfig THEN wanted[r] ELSE @]]
relay_has_changed(new, old) == new.upstream # old.upstream
ToFree(part) ==
  {r \in part : /\ relay[r].config # NoConfig
                /\ wanted[r] = NoConfig \/ relay_has_changed(wanted[r], relay[r].config)}

\* update_from_master: the list is fetched without a lock; the fetch may fail,
\* or there is no master server.
UpdateFromMaster ==
  /\ slave.at = "master"
  /\ \/ /\ Master # {} /\ relay_lock = "free"
        /\ relay_lock' = "slave"
        /\ relay' = Updated(Master) @@ relay
        /\ slave' = [slave EXCEPT !.at = "section", !.part = "master", !.list = wanted,
                                  !.free = ToFree(Master),
                                  !.check = {r \in Master : wanted[r] # NoConfig}]
     \/ /\ slave' = [slave EXCEPT !.at = "lock"]
        /\ UNCHANGED <<relay, relay_lock>>
  /\ UNCHANGED <<wanted, changes, reread, thread, source, slave_mutex, flags, interval,
                 slave_running, rest>>

\* The configured list is updated when it is due (interval = 0); then both lists
\* are checked.
LockRelays ==
  /\ slave.at = "lock" /\ relay_lock = "free"
  /\ relay_lock' = "slave"
  /\ LET part == IF interval = 0 THEN Relays \ Master ELSE {}
     IN  /\ relay' = Updated(part) @@ relay
         /\ slave' = [slave EXCEPT !.at = "section", !.part = "xml", !.list = wanted,
                                   !.free = ToFree(part),
                                   !.check = {r \in part : wanted[r] # NoConfig}
                                             \cup (Listed \ part)]
  /\ UNCHANGED <<wanted, changes, reread, thread, source, slave_mutex, flags, interval,
                 slave_running, rest>>

\* Mutant: the relay is freed without waiting for its thread.
StopRelayNoJoin(r) ==
  /\ slave.at \in {"section", "final"} /\ r \in slave.free
  /\ relay[r].running
  /\ relay' = [relay EXCEPT ![r] = NoRelay]
  /\ source' = [source EXCEPT ![r] = NoSource]
  /\ slave' = [slave EXCEPT !.free = @ \ {r}]
  /\ UNCHANGED <<wanted, changes, reread, thread, locks, flags, interval, slave_running, rest>>

\* relay_check_streams, a relay to free: one that runs is told to stop and
\* joined, holding relay_lock.
StopRelay(r) ==
  /\ slave.at \in {"section", "final"} /\ r \in slave.free
  /\ relay[r].running
  /\ relay' = [relay EXCEPT ![r].running = FALSE]
  /\ source' = [source EXCEPT ![r].running = FALSE]
  /\ slave' = [slave EXCEPT !.cur = r, !.at = IF @ = "final" THEN "final_join" ELSE "join"]
  /\ UNCHANGED <<wanted, changes, reread, thread, locks, flags, interval, slave_running, rest>>

\* relay_free, which frees the source too; a changed relay takes its place.
Freed(r) == [relay EXCEPT ![r] = [NoRelay EXCEPT !.config = slave.list[r]]]

FreeIdle(r) ==
  /\ slave.at \in {"section", "final"} /\ r \in slave.free
  /\ ~ relay[r].running
  /\ relay' = Freed(r)
  /\ source' = [source EXCEPT ![r] = NoSource]
  /\ slave' = [slave EXCEPT !.free = @ \ {r}]
  /\ UNCHANGED <<wanted, changes, reread, thread, locks, flags, interval, slave_running, rest>>

\* thread_join in relay_check_streams returns, and the relay is freed.
JoinToFree(r) ==
  /\ slave.at \in {"join", "final_join"} /\ slave.cur = r /\ r \in slave.free
  /\ thread[r] = "done"
  /\ thread' = [thread EXCEPT ![r] = "none"]
  /\ relay' = Freed(r)
  /\ source' = [source EXCEPT ![r] = NoSource]
  /\ rest' = [rest EXCEPT ![r] = 0]
  /\ slave' = [slave EXCEPT !.cur = None, !.free = @ \ {r},
                            !.at = IF @ = "join" THEN "section" ELSE "final"]
  /\ UNCHANGED <<wanted, changes, reread, locks, flags, interval, slave_running>>

-----------------------------------------------------------------------------
(* check_relay_stream, once nothing is left to free. *)
Checking(r) == slave.at = "section" /\ slave.free = {} /\ r \in slave.check
Checked(r) == slave' = [slave EXCEPT !.check = @ \ {r}]

\* A new relay reserves its mount.  An on-demand one then calls
\* slave_update_all_mounts, still holding relay_lock.
ReserveMount(r) ==
  /\ Checking(r) /\ ~ relay[r].source
  /\ relay' = [relay EXCEPT ![r].source = TRUE]
  /\ source' = [source EXCEPT ![r] = [NoSource EXCEPT !.on_demand = r \in OnDemand]]
  /\ slave' = [slave EXCEPT !.at = IF r \in OnDemand THEN "announce" ELSE @]
  /\ UNCHANGED <<wanted, changes, reread, thread, locks, flags, interval, slave_running, rest>>

MountTaken(r) ==
  /\ Checking(r) /\ ~ relay[r].source /\ r \in Contended
  /\ Checked(r)
  /\ UNCHANGED <<wanted, changes, reread, relay, thread, source, locks, flags, interval,
                 slave_running, rest>>

Announce ==
  /\ slave.at = "announce"
  /\ slave_update_all_mounts
  /\ slave' = [slave EXCEPT !.at = "section"]
  /\ UNCHANGED <<wanted, changes, reread, relay, thread, source, locks, interval,
                 slave_running, rest>>

\* The delay as check_relay_stream sees it: skip_timer cancels it.
Start(r) == IF slave.skip /\ slave.part = "xml" THEN 0 ELSE relay[r].start
Demanded(r) == r \in OnDemand => source[r].req
Startable(r) == relay[r].source /\ ~ relay[r].running /\ Start(r) = 0

\* The relay thread is created.
LaunchRelay(r) ==
  /\ Checking(r) /\ Startable(r) /\ Demanded(r)
  /\ relay' = [relay EXCEPT ![r].start = StartDelay, ![r].running = TRUE]
  /\ thread' = [thread EXCEPT ![r] = "connect"]
  /\ Checked(r)
  /\ UNCHANGED <<wanted, changes, reread, source, locks, flags, interval, slave_running, rest>>

\* Active, not time yet, or on-demand and not demanded: nothing to start, and
\* nothing to clean up.
LeaveRelay(r) ==
  /\ Checking(r) /\ relay[r].source /\ ~ (Startable(r) /\ Demanded(r))
  /\ ~ relay[r].cleanup
  /\ relay' = [relay EXCEPT ![r].start = Start(r)]
  /\ source' = [source EXCEPT ![r].on_demand = @ \/ Startable(r)]
  /\ Checked(r)
  /\ UNCHANGED <<wanted, changes, reread, thread, locks, flags, interval, slave_running, rest>>

\* The relay thread ended by itself: wait for it.
BeginCleanup(r) ==
  /\ Checking(r) /\ relay[r].source /\ ~ (Startable(r) /\ Demanded(r))
  /\ relay[r].cleanup
  /\ relay' = [relay EXCEPT ![r].start = Start(r)]
  /\ slave' = [slave EXCEPT !.at = "join", !.cur = r]
  /\ UNCHANGED <<wanted, changes, reread, thread, source, locks, flags, interval,
                 slave_running, rest>>

\* The thread has ended.
EndCleanup(r) ==
  /\ slave.at = "join" /\ slave.cur = r /\ r \notin slave.free
  /\ thread[r] = "done"
  /\ thread' = [thread EXCEPT ![r] = "none"]
  /\ relay' = [relay EXCEPT ![r].cleanup = FALSE, ![r].running = FALSE]
  /\ slave' = [slave EXCEPT !.at = "section", !.cur = None, !.check = @ \ {r}]
  /\ UNCHANGED <<wanted, changes, reread, source, locks, flags, interval, slave_running, rest>>

UnlockRelays ==
  /\ slave.at = "section" /\ slave.free = {} /\ slave.check = {}
  /\ relay_lock' = "free"
  /\ slave' = [slave EXCEPT !.at = IF slave.part = "master" THEN "lock" ELSE "settings"]
  /\ UNCHANGED <<wanted, changes, reread, relay, thread, source, slave_mutex, flags, interval,
                 slave_running, rest>>

\* Mutant: only a request for all mounts is looked at.
RecheckMountsAll ==
  /\ slave.at = "settings" /\ slave_mutex = "free"
  /\ update_settings' = (update_settings /\ ~ update_all_mounts)
  /\ update_all_mounts' = FALSE
  /\ slave' = [slave EXCEPT !.at = "top"]
  /\ UNCHANGED <<wanted, changes, reread, relay, thread, source, locks, max_interval, interval,
                 slave_running, rest>>

\* source_recheck_mounts, holding _slave_mutex.
RecheckMounts ==
  /\ slave.at = "settings" /\ slave_mutex = "free"
  /\ update_settings' = FALSE
  /\ update_all_mounts' = (update_all_mounts /\ ~ update_settings)
  /\ slave' = [slave EXCEPT !.at = "top"]
  /\ UNCHANGED <<wanted, changes, reread, relay, thread, source, locks, max_interval, interval,
                 slave_running, rest>>

SlaveEnds ==
  /\ slave.at = "final" /\ slave.free = {}
  /\ slave' = [slave EXCEPT !.at = "ended"]
  /\ UNCHANGED <<wanted, changes, reread, relay, thread, source, locks, flags, interval,
                 slave_running, rest>>

SlaveThread ==
  \/ Top \/ CheckInterval \/ UpdateFromMaster \/ LockRelays \/ Announce \/ UnlockRelays
  \/ RecheckMounts \/ SlaveEnds
  \/ \E r \in Relays : \/ StopRelay(r) \/ FreeIdle(r) \/ JoinToFree(r)
                       \/ ReserveMount(r) \/ MountTaken(r) \/ LaunchRelay(r)
                       \/ LeaveRelay(r) \/ BeginCleanup(r) \/ EndCleanup(r)

-----------------------------------------------------------------------------
(* The environment. *)

\* The configuration file or the master's list changes; a reload is requested.
Change(r) ==
  /\ changes < Changes
  /\ \E w \in Configs(r) \ {wanted[r]} : wanted' = [wanted EXCEPT ![r] = w]
  /\ changes' = changes + 1
  /\ reread' = (reread \/ r \notin Master)
  /\ UNCHANGED <<relay, thread, source, slave, locks, flags, interval, slave_running, rest>>

\* __add_listener_to_source: a listener of an on-demand relay that is down.
Demand(r) ==
  /\ relay[r].source /\ source[r].on_demand /\ ~ source[r].running /\ ~ source[r].req
  /\ source' = [source EXCEPT ![r].req = TRUE]
  /\ UNCHANGED <<wanted, changes, reread, relay, thread, slave, locks, flags, interval,
                 slave_running, rest>>

\* slave_shutdown, when the server halts.
Shutdown ==
  /\ slave_running /\ slave_mutex = "free"
  /\ slave_running' = FALSE
  /\ UNCHANGED <<wanted, changes, reread, relay, thread, source, slave, locks, flags, interval,
                 rest>>

Ended == slave.at = "ended" /\ UNCHANGED vars

Next ==
  \/ SlaveThread
  \/ \E r \in Relays : RelayThread(r) \/ SourceEnds(r) \/ Change(r) \/ Demand(r)
  \/ Shutdown
  \/ Ended

Spec == Init /\ [][Next]_vars

\* Threads run, connections time out (open_relay_connection gives up after ten
\* seconds), and a source that is told to stop stops; nothing else must happen.
FairSpec ==
  /\ Spec
  /\ WF_vars(SlaveThread)
  /\ \A r \in Relays : /\ WF_vars(RelayThread(r))
                       /\ WF_vars(SourceEnds(r) /\ (~ source[r].running \/ ~ slave_running))

-----------------------------------------------------------------------------
(* Properties. *)

(* relay_free never frees a relay, or its source, under a thread that uses   *)
(* it: a relay that has a thread is in a list, and is either marked running  *)
(* or the one the slave thread is about to join.  So it never gets a second  *)
(* thread; and the slave thread never waits for one that was not created.    *)
ThreadsOwnTheirRelay ==
  /\ TypeOK
  /\ \A r \in Relays : thread[r] # "none" =>
       relay[r].config # NoConfig /\ relay[r].source /\ (relay[r].running \/ slave.cur = r)
  /\ \A r \in Relays : relay[r].running => thread[r] # "none"
  /\ slave.cur # None => thread[slave.cur] # "none"

(* No thread runs the source of a relay with an upstream that is neither the *)
(* one now configured nor about to be stopped: when the slave thread leaves  *)
(* relay_lock after an update, every relay has the upstream it read, and     *)
(* those it did not read are gone.  A new login alone is not applied.        *)
SettingsApplied ==
  slave.at = "settings" /\ interval = 0 =>
    \A r \in Relays \ Master :
      /\ relay[r].config = NoConfig <=> slave.list[r] = NoConfig
      /\ relay[r].config # NoConfig => ~ relay_has_changed(slave.list[r], relay[r].config)

(* "prevent busy looping if failing", "prevent this relay from starting up   *)
(* again too soon": a relay that ended is not started before its delay.      *)
RestartPaced == [][\A r \in Relays : LaunchRelay(r) => rest[r] = 0]_vars

(* slave_rebuild_mounts "Request slave thread to check the relay list for    *)
(* changes and to update the stats": the request is served.                  *)
RequestServed == update_settings ~> (~ update_settings \/ ~ slave_running)

(* "relay has been removed from xml, shut down active relay": a relay that   *)
(* is to be freed is freed.                                                  *)
RemovedRelayGoes ==
  \A r \in Relays : (r \in slave.free) ~> (r \notin slave.free)

Alive(r) == thread[r] \notin {"none", "done"}

(* A relay that stays configured is started again whenever it is down, one   *)
(* that is on-demand whenever a listener asks for it.                        *)
RetriedForEver ==
  /\ \A r \in Relays \ (OnDemand \cup Contended) :
       []<>(Alive(r) \/ wanted[r] = NoConfig \/ ~ slave_running)
  /\ \A r \in OnDemand \ Contended :
       source[r].req ~> (Alive(r) \/ ~ source[r].req \/ ~ slave_running)

(* The server's shutdown waits for the slave thread, which ends.             *)
SlaveJoined == ~ slave_running ~> slave.at = "ended"
=============================================================================
