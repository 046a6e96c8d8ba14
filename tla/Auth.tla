-------------------------------- MODULE Auth --------------------------------
(***************************************************************************)
(* Authentication in Icecast (auth.c and its callers in connection.c and   *)
(* client.c): a client is passed along the stacks of authenticators of the *)
(* configuration, those that are not immediate queue it for a thread of    *)
(* their own, and reference counts on the nodes of a stack and on the      *)
(* authenticators decide when a configuration that was replaced is freed.  *)
(*                                                                         *)
(* Node i of a stack refers to authenticator i.  The calls a thread still  *)
(* has to make are its work stack, so that what a callback does runs in    *)
(* the thread that calls it.  Each mutex protected section is one step.    *)
(* What an authenticator answers and the filters are the environment.      *)
(***************************************************************************)
EXTENDS Integers, Sequences, FiniteSets

CONSTANTS Clients, NoClient,
          N,          \* number of authenticators of the configuration
          Heads,      \* those that begin a stack; the last stack is the server's own
          Immediate,  \* authenticators without a thread
          Hooked,     \* authenticators with a release_client function
          Limit,      \* the magic number of auth_add_client
          Altering,   \* the calls, "process" or "remove", and the authenticators whose
                      \* answer to them may redirect the client or send it an error
          Serial,     \* threads do not overlap between the decrement and the test of a node
          Crowd       \* bound: the clients that may have come when the configuration is
                      \* replaced

ASSUME AuthAssumption ==
  /\ NoClient \notin Clients /\ N \in Nat \ {0} /\ Heads \subseteq 1 .. N /\ 1 \in Heads
  /\ Immediate \subseteq 1 .. N /\ Hooked \subseteq (1 .. N) \ Immediate
  /\ Limit \in Nat /\ Altering \subseteq {"process", "remove"} \X (1 .. N)
  /\ Serial \in BOOLEAN /\ Crowd \in Nat

Auths == 1 .. N
Threaded == Auths \ Immediate
None == 0

Conn == <<"conn", 0>>             \* the connection thread
Main == <<"main", 0>>             \* the thread that replaces the configuration
Server == <<"server", 0>>         \* a thread that serves and destroys clients
Thread(a) == <<"auth", a>>        \* auth->thread
Threads == {Conn, Main, Server} \cup {Thread(a) : a \in Threaded}

VARIABLES
  configured,  \* the stacks belong to the current configuration
  node,        \* auth_stack_t refcount
  refcount,    \* auth_t refcount
  running,     \* auth_t running
  ended,       \* authenticators whose thread has returned
  freed,       \* authenticators that were freed
  frees,       \* how often auth_stack_release went on to free a node
  queue,       \* the auth_user list of an authenticator; its length is pending_count
  todo,        \* the calls each thread is in, innermost first
  client       \* per client: where it is, authstack, auth, acl and the history last, hooks

vars == <<configured, node, refcount, running, ended, freed, frees, queue, todo, client>>

Call(op, c, x) == [op |-> op, c |-> c, x |-> x, r |-> "none"]
Answer(op, c, x, r) == [op |-> op, c |-> c, x |-> x, r |-> r]
(* A node or an authenticator that is released: nothing when it is NULL. *)
ReleaseNode(n) == IF n = None THEN <<>> ELSE <<Call("node_dec", NoClient, n)>>
ReleaseAuth(a) == IF a = None THEN <<>> ELSE <<Call("auth_release", NoClient, a)>>

(* next of a node, and the stack that is tried after the one of a node *)
After(n) == IF n = N \/ n + 1 \in Heads THEN None ELSE n + 1
NextStack(n) == IF \E h \in Heads : h > n THEN CHOOSE h \in Heads : h > n /\ \A k \in Heads : k > n => h <= k
                ELSE None

Results == {"ok", "failed", "nomatch"}
Ops == {"fetch", "add", "check", "enqueue", "process", "remove", "result", "removed", "verdict",
        "serve", "node_dec", "node_test", "auth_release", "join"}
Places == {"new", "auth", "served", "going", "released", "gone"}

(* Types. *)
TypeOK ==
  /\ configured \in BOOLEAN
  /\ node \in [Auths -> Nat] /\ refcount \in [Auths -> Nat] /\ frees \in [Auths -> Nat]
  /\ running \in [Auths -> BOOLEAN] /\ ended \subseteq Threaded /\ freed \subseteq Auths
  /\ \A a \in Auths : \A i \in 1 .. Len(queue[a]) :
       queue[a][i].op \in {"process", "remove"} /\ queue[a][i].c \in Clients
  /\ \A t \in Threads : \A i \in 1 .. Len(todo[t]) :
       /\ todo[t][i].op \in Ops /\ todo[t][i].x \in Auths \cup {None}
       /\ todo[t][i].c \in Clients \cup {NoClient}
       /\ todo[t][i].r \in Results \cup {"none"}
  /\ client \in [Clients -> [at : Places, authstack : Auths \cup {None}, auth : Auths \cup {None},
                             acl : Auths \cup {None}, last : Auths \cup {None}, admitted : Auths \cup {None},
                             hooks : Nat]]

(* auth_stack_push for each authenticator: the first node of a stack is    *)
(* held by the configuration, each other node by the one before it.        *)
Init ==
  /\ configured = TRUE
  /\ node = [n \in Auths |-> 1] /\ refcount = [a \in Auths |-> 1]
  /\ running = [a \in Auths |-> a \in Threaded]
  /\ ended = {} /\ freed = {} /\ frees = [n \in Auths |-> 0]
  /\ queue = [a \in Auths |-> <<>>]
  /\ todo = [t \in Threads |-> <<>>]
  /\ client = [c \in Clients |-> [at |-> "new", authstack |-> None, auth |-> None, acl |-> None,
                                  last |-> None, admitted |-> None, hooks |-> 0]]

Idle(t) == todo[t] = <<>>
At(t, op) == ~Idle(t) /\ Head(todo[t]).op = op
Here(t) == Head(todo[t])
(* The call a thread is in is replaced by the calls it makes. *)
Then(t, calls) == todo' = [todo EXCEPT ![t] = calls \o Tail(@)]
counts == <<node, refcount>>
auths == <<running, ended, freed, frees>>

-----------------------------------------------------------------------------
(* A client is ready: the connection thread looks for a stack.  Those that *)
(* come after the configuration was replaced have nothing to do with it.   *)
Connect(c) ==
  /\ client[c].at = "new" /\ Idle(Conn) /\ configured
  /\ client' = [client EXCEPT ![c].at = "auth"]
  /\ todo' = [todo EXCEPT ![Conn] = <<Call("fetch", c, 1)>>]
  /\ UNCHANGED <<configured, counts, auths, queue>>

(* The stack is read and referred to under the configuration's lock.  When *)
(* the configuration was replaced the client goes on with a stack of the   *)
(* new one, which is not part of this model: it leaves this one's.         *)
Fetch(t) ==
  LET c == Here(t).c  h == Here(t).x IN
  /\ At(t, "fetch")
  /\ \/ /\ configured
        /\ node' = [node EXCEPT ![h] = @ + 1]
        /\ Then(t, <<Call("add", c, h), Call("node_dec", NoClient, h)>>)
        /\ UNCHANGED client
     \/ /\ ~configured
        /\ client' = [client EXCEPT ![c].auth = None, ![c].acl = None]
        /\ Then(t, ReleaseAuth(client[c].auth) \o <<Call("serve", c, None)>>)
        /\ UNCHANGED node
  /\ UNCHANGED <<configured, refcount, auths, queue>>

\* Mutant: a client that moves along its stack refers to its node twice.
AddClientTwice(t) ==
  LET c == Here(t).c  n == Here(t).x IN
  /\ At(t, "add")
  /\ node' = [node EXCEPT ![n] = @ + 1]
  /\ client' = [client EXCEPT ![c].authstack = n]
  /\ refcount' = [refcount EXCEPT ![n] = @ + 1]
  /\ Then(t, <<Call("check", c, n), Call("auth_release", NoClient, n)>>)
  /\ UNCHANGED <<configured, auths, queue>>

(* auth_stack_add_client: refers to the node, unless it does already, and  *)
(* to the authenticator for the time of auth_add_client.                   *)
auth_stack_add_client(t) ==
  LET c == Here(t).c  n == Here(t).x IN
  /\ At(t, "add")
  /\ node' = [node EXCEPT ![n] = IF client[c].authstack = None THEN @ + 1 ELSE @]
  /\ client' = [client EXCEPT ![c].authstack = n]
  /\ refcount' = [refcount EXCEPT ![n] = @ + 1]
  /\ Then(t, <<Call("check", c, n), Call("auth_release", NoClient, n)>>)
  /\ UNCHANGED <<configured, auths, queue>>

(* __move_client_forward_in_auth_stack, with auth_stack_next: the client   *)
(* refers to the next node before it lets go of this one.                  *)
MoveForward(t, c) ==
  LET n == client[c].authstack  next == After(n) IN
  /\ node' = [k \in Auths |-> IF k = next THEN node[k] + 1 ELSE node[k]]
  /\ client' = [client EXCEPT ![c].authstack = next]
  /\ Then(t, ReleaseNode(n) \o
             <<IF next = None THEN Answer("verdict", c, n, "nomatch") ELSE Call("add", c, next)>>)

\* Mutant: the limit is off by one.
BusyLate(a) == Len(queue[a]) > Limit + 1

(* auth_add_client until the client is queued: too many clients are        *)
(* pending, a filter lets the client pass by, or it is to be queued.  The  *)
(* number of pending clients is read without the lock.                     *)
Busy(a) == Len(queue[a]) > Limit

auth_add_client(t) ==
  LET c == Here(t).c  a == Here(t).x IN
  /\ At(t, "check")
  /\ \/ /\ Busy(a)
        /\ Then(t, <<Call("serve", c, None)>>)
        /\ UNCHANGED <<node, client>>
     \/ /\ ~Busy(a)
        /\ MoveForward(t, c)
     \/ /\ ~Busy(a)
        /\ Then(t, ReleaseAuth(client[c].auth) \o <<Call("enqueue", c, a)>>)
        /\ client' = [client EXCEPT ![c].auth = None]
        /\ UNCHANGED node
  /\ UNCHANGED <<configured, refcount, auths, queue>>

(* auth_add_client refers to the authenticator and queue_auth_client       *)
(* queues the client, or handles it in place.                              *)
Queued(t, call) ==
  IF call.x \in Immediate
  THEN Then(t, <<call>>) /\ UNCHANGED queue
  ELSE Then(t, <<>>) /\ queue' = [queue EXCEPT ![call.x] = Append(@, call)]

queue_auth_client(t) ==
  LET c == Here(t).c  a == Here(t).x IN
  /\ At(t, "enqueue")
  /\ refcount' = [refcount EXCEPT ![a] = @ + 1]
  /\ client' = [client EXCEPT ![c].auth = a]
  /\ Queued(t, Call("process", c, a))
  /\ UNCHANGED <<configured, node, auths>>

-----------------------------------------------------------------------------
(* __handle_auth_client: process, then the callbacks. *)

(* auth_new_client: any answer but AUTH_OK drops the client's reference. *)
auth_new_client(t) ==
  LET c == Here(t).c  a == Here(t).x IN
  /\ At(t, "process")
  /\ \E r \in Results :
       IF r = "ok"
       THEN /\ client' = [client EXCEPT ![c].last = a]
            /\ Then(t, <<Answer("result", c, a, r)>>)
       ELSE /\ client' = [client EXCEPT ![c].last = a, ![c].auth = None]
            /\ Then(t, ReleaseAuth(client[c].auth) \o <<Answer("result", c, a, r)>>)
  /\ UNCHANGED <<configured, counts, auths, queue>>

(* auth_remove_client: the authenticator's release_client is called, which *)
(* answers AUTH_OK, or AUTH_FAILED when it cannot make its request.        *)
auth_remove_client(t) ==
  LET c == Here(t).c  a == Here(t).x IN
  /\ At(t, "remove")
  /\ client' = [client EXCEPT ![c].auth = None, ![c].acl = None, ![c].hooks = @ + 1]
  /\ \E r \in {"ok", "failed"} :
       Then(t, ReleaseAuth(client[c].auth) \o <<Answer("removed", c, a, r)>>)
  /\ UNCHANGED <<configured, counts, auths, queue>>

(* __handle_auth_client after it: AUTH_OK gives the client the acl again;  *)
(* then the answer redirects the client or sends it an error, before it is *)
(* destroyed, or on_result destroys it at once.                            *)
handle_removed(t) ==
  LET c == Here(t).c  a == Here(t).x  r == Here(t).r IN
  /\ At(t, "removed")
  /\ \/ /\ <<"remove", a>> \in Altering
        /\ client' = [client EXCEPT ![c].at = "released", ![c].acl = IF r = "ok" THEN a ELSE @]
     \/ client' = [client EXCEPT ![c].at = "gone"]
  /\ Then(t, <<>>)
  /\ UNCHANGED <<configured, counts, auths, queue>>

\* Mutant: the acl is set only when the client has none yet.
HandleResultKeepingAcl(t) ==
  LET c == Here(t).c  a == Here(t).x  r == Here(t).r
      acl == [client EXCEPT ![c].acl = IF r = "ok" /\ @ = None THEN a ELSE @] IN
  /\ At(t, "result")
  /\ \/ /\ r = "nomatch"
        /\ MoveForward(t, c)
     \/ /\ r \in {"ok", "failed"}
        /\ client' = acl
        /\ Then(t, <<Answer("verdict", c, client[c].authstack, r)>>)
        /\ UNCHANGED node
  /\ UNCHANGED <<configured, refcount, auths, queue>>

\* Mutant: there is no callback for a client that is refused.
HandleResultSilent(t) ==
  LET c == Here(t).c  a == Here(t).x  r == Here(t).r IN
  /\ At(t, "result")
  /\ \/ /\ r = "nomatch"
        /\ MoveForward(t, c)
     \/ /\ r \in {"ok", "failed"}
        /\ client' = [client EXCEPT ![c].acl = IF r = "ok" THEN a ELSE @]
        /\ Then(t, IF r = "ok" THEN <<Answer("verdict", c, client[c].authstack, r)>> ELSE <<>>)
        /\ UNCHANGED node
  /\ UNCHANGED <<configured, refcount, auths, queue>>

(* The answer is applied: the acl of the authenticator, then a redirect or *)
(* an error, the next node, or the callback of the caller.                 *)
handle_result(t) ==
  LET c == Here(t).c  a == Here(t).x  r == Here(t).r
      acl == [client EXCEPT ![c].acl = IF r = "ok" THEN a ELSE @] IN
  /\ At(t, "result")
  /\ \/ /\ <<"process", a>> \in Altering /\ r \in {"ok", "failed"}
        /\ client' = acl
        /\ Then(t, <<Call("serve", c, None)>>)
        /\ UNCHANGED node
     \/ /\ r = "nomatch"
        /\ MoveForward(t, c)
     \/ /\ r \in {"ok", "failed"}
        /\ client' = acl
        /\ Then(t, <<Answer("verdict", c, client[c].authstack, r)>>)
        /\ UNCHANGED node
  /\ UNCHANGED <<configured, refcount, auths, queue>>

(* The callbacks of connection.c, _handle_authentication_mount_default,    *)
(* _handle_authentication_global and _handle_authed_client: they release   *)
(* the stack; a client no authenticator matched, or one admitted without   *)
(* the right to its admin command, goes on to the next stack.              *)
verdict(t) ==
  LET c == Here(t).c  n == Here(t).x  r == Here(t).r  further == NextStack(n)
      release == ReleaseNode(client[c].authstack) IN
  /\ At(t, "verdict")
  /\ \/ /\ further # None /\ r \in {"nomatch", "ok"}
        /\ client' = [client EXCEPT ![c].authstack = None]
        /\ Then(t, release \o <<Call("fetch", c, further)>>)
     \/ /\ further = None \/ r # "nomatch"
        /\ client' = [client EXCEPT ![c].authstack = None,
                                    ![c].admitted = IF r = "ok" THEN client[c].auth ELSE None]
        /\ Then(t, release \o <<Call("serve", c, None)>>)
  /\ UNCHANGED <<configured, counts, auths, queue>>

(* The client is handed to the thread that serves it, or sends the error. *)
Serve(t) ==
  /\ At(t, "serve")
  /\ client' = [client EXCEPT ![Here(t).c].at = "served"]
  /\ Then(t, <<>>)
  /\ UNCHANGED <<configured, counts, auths, queue>>

-----------------------------------------------------------------------------
(* auth_stack_release: the count is decremented under the lock and read    *)
(* again after it.                                                         *)
auth_stack_release(t) ==
  LET n == Here(t).x IN
  /\ At(t, "node_dec")
  /\ Serial => \A u \in Threads : ~At(u, "node_test")
  /\ node' = [node EXCEPT ![n] = @ - 1]
  /\ Then(t, <<Call("node_test", NoClient, n)>>)
  /\ UNCHANGED <<configured, refcount, auths, queue, client>>

auth_stack_free(t) ==
  LET n == Here(t).x IN
  /\ At(t, "node_test")
  /\ \/ /\ node[n] # 0
        /\ Then(t, <<>>)
        /\ UNCHANGED frees
     \/ /\ node[n] = 0
        /\ frees' = [frees EXCEPT ![n] = @ + 1]
        /\ Then(t, ReleaseAuth(n) \o ReleaseNode(After(n)))
  /\ UNCHANGED <<configured, counts, running, ended, freed, queue, client>>

\* Mutant: the thread is waited for without being told to stop.
ReleaseStillRunning(t) ==
  LET a == Here(t).x  left == refcount[a] - 1 IN
  /\ At(t, "auth_release")
  /\ refcount' = [refcount EXCEPT ![a] = left]
  /\ freed' = IF left = 0 /\ ~running[a] THEN freed \cup {a} ELSE freed
  /\ Then(t, IF left = 0 /\ running[a] THEN <<Call("join", NoClient, a)>> ELSE <<>>)
  /\ UNCHANGED <<configured, node, running, ended, frees, queue, client>>

\* Mutant: the authenticator is freed when one reference is left.
ReleaseEarly(t) ==
  LET a == Here(t).x  left == refcount[a] - 1 IN
  /\ At(t, "auth_release")
  /\ refcount' = [refcount EXCEPT ![a] = left]
  /\ running' = [running EXCEPT ![a] = @ /\ left > 1]
  /\ freed' = IF left <= 1 /\ ~running[a] THEN freed \cup {a} ELSE freed
  /\ Then(t, IF left <= 1 /\ running[a] THEN <<Call("join", NoClient, a)>> ELSE <<>>)
  /\ UNCHANGED <<configured, node, ended, frees, queue, client>>

(* auth_release: the last one stops the thread of the authenticator, waits *)
(* for it and frees the authenticator.                                     *)
auth_release(t) ==
  LET a == Here(t).x  left == refcount[a] - 1 IN
  /\ At(t, "auth_release")
  /\ refcount' = [refcount EXCEPT ![a] = left]
  /\ running' = [running EXCEPT ![a] = @ /\ left # 0]
  /\ freed' = IF left = 0 /\ ~running[a] THEN freed \cup {a} ELSE freed
  /\ Then(t, IF left = 0 /\ running[a] THEN <<Call("join", NoClient, a)>> ELSE <<>>)
  /\ UNCHANGED <<configured, node, ended, frees, queue, client>>

(* thread_join returns when the thread has ended, and at once (with an     *)
(* error that is not looked at) when a thread waits for itself.            *)
Join(t) ==
  LET a == Here(t).x IN
  /\ At(t, "join")
  /\ a \in ended \/ t = Thread(a)
  /\ freed' = freed \cup {a}
  /\ Then(t, <<>>)
  /\ UNCHANGED <<configured, counts, running, ended, frees, queue, client>>

(* auth_run_thread between two clients *)
auth_run_thread(a) ==
  /\ Idle(Thread(a)) /\ a \notin ended
  /\ \/ /\ ~running[a]
        /\ ended' = ended \cup {a}
        /\ UNCHANGED <<queue, todo>>
     \/ /\ running[a] /\ queue[a] # <<>>
        /\ todo' = [todo EXCEPT ![Thread(a)] = <<Head(queue[a])>>]
        /\ queue' = [queue EXCEPT ![a] = Tail(@)]
        /\ UNCHANGED ended
  /\ UNCHANGED <<configured, counts, running, freed, frees, client>>

-----------------------------------------------------------------------------
\* Mutant: the authenticator is released without being told.
ReleaseClientUntold(c) ==
  /\ client[c].at \in {"served", "released"} /\ Idle(Server)
  /\ client' = [client EXCEPT ![c].at = "gone", ![c].auth = None, ![c].acl = None]
  /\ todo' = [todo EXCEPT ![Server] = ReleaseAuth(client[c].auth)]
  /\ UNCHANGED <<configured, counts, auths, queue>>

(* client_destroy with auth_release_client, in the thread that served the  *)
(* client: the authenticator that admitted it is told when it asks for it. *)
auth_release_client(c) ==
  LET a == client[c].auth IN
  /\ client[c].at \in {"served", "released"} /\ Idle(Server)
  /\ \/ /\ client[c].acl # None /\ a \in Hooked
        /\ client' = [client EXCEPT ![c].at = "going"]
        /\ IF a \in Immediate
           THEN todo' = [todo EXCEPT ![Server] = <<Call("remove", c, a)>>] /\ UNCHANGED queue
           ELSE queue' = [queue EXCEPT ![a] = Append(@, Call("remove", c, a))] /\ UNCHANGED todo
     \/ /\ client[c].acl # None /\ a \notin Hooked
        /\ client' = [client EXCEPT ![c].at = "gone", ![c].auth = None, ![c].acl = None]
        /\ todo' = [todo EXCEPT ![Server] = ReleaseAuth(a)]
        /\ UNCHANGED queue
     \/ /\ client[c].acl = None
        /\ client' = [client EXCEPT ![c].at = "gone"]
        /\ UNCHANGED <<todo, queue>>
  /\ UNCHANGED <<configured, counts, auths>>

(* The configuration is replaced, config_clear: its stacks are released    *)
(* one by one, the server's first.                                         *)
Reload ==
  /\ configured /\ Cardinality({c \in Clients : client[c].at # "new"}) <= Crowd
  /\ configured' = FALSE
  /\ todo' = [todo EXCEPT ![Main] =
                [i \in 1 .. Cardinality(Heads) |->
                   Call("node_dec", NoClient,
                        CHOOSE h \in Heads : Cardinality({k \in Heads : k >= h}) = i)]]
  /\ UNCHANGED <<counts, auths, queue, client>>

ThreadStep(t) ==
  \/ Fetch(t) \/ auth_stack_add_client(t) \/ auth_add_client(t) \/ queue_auth_client(t)
  \/ auth_new_client(t) \/ auth_remove_client(t) \/ handle_result(t) \/ handle_removed(t)
  \/ verdict(t) \/ Serve(t)
  \/ auth_stack_release(t) \/ auth_stack_free(t) \/ auth_release(t) \/ Join(t)

Next ==
  \/ \E c \in Clients : Connect(c) \/ auth_release_client(c)
  \/ \E t \in Threads : ThreadStep(t)
  \/ \E a \in Threaded : auth_run_thread(a)
  \/ Reload

Spec == Init /\ [][Next]_vars

(* Threads that can run do; an authenticator's thread that goes on after   *)
(* its authenticator was freed does what it likes.                         *)
Fairness ==
  /\ \A t \in Threads : WF_vars(ThreadStep(t))
  /\ \A a \in Threaded : WF_vars(a \notin freed /\ auth_run_thread(a))
FairSpec == Spec /\ Fairness
-----------------------------------------------------------------------------
Pending(op, x) ==
  Cardinality(UNION {{<<t, i>> : i \in {j \in 1 .. Len(todo[t]) : todo[t][j].op = op /\ todo[t][j].x = x}}
                       : t \in Threads})
Count(P) == IF P THEN 1 ELSE 0
NodeHolders(n) ==
  Count(configured /\ n \in Heads) + Count(n \notin Heads /\ frees[n - 1] = 0)
    + Cardinality({c \in Clients : client[c].authstack = n}) + Pending("node_dec", n)
AuthHolders(a) ==
  Count(frees[a] = 0) + Cardinality({c \in Clients : client[c].auth = a}) + Pending("auth_release", a)

(* The counts are the references: the count of a node is the number of     *)
(* references the configuration, the node before it, clients and calls in  *)
(* progress hold, and that of an authenticator those of its node, of       *)
(* clients and of calls, whatever thread a client is in and also while a   *)
(* replaced configuration is being released.                               *)
CountsHolders ==
  \A a \in Auths : node[a] = NodeHolders(a) /\ refcount[a] = AuthHolders(a)

(* The authenticators the next step of a thread reads or writes *)
Uses(t) ==
  IF Idle(t) THEN {a \in Threaded \ ended : t = Thread(a)}
  ELSE IF Here(t).op \in {"check", "enqueue", "process", "remove", "result", "removed", "auth_release",
                           "join"}
       THEN {Here(t).x} ELSE {}

(* "only actual freed after the last use" (auth_release): no thread uses   *)
(* an authenticator that was freed.                                        *)
UsesLive ==
  \A t \in Threads : Uses(t) \cap freed = {}

(* An authenticator that was freed is used by no thread but its own, and   *)
(* one that was told to stop leaves no client in its queue, which          *)
(* auth_run_thread does not look at as it leaves: every client that is     *)
(* queued and every call in progress holds a reference that keeps it.      *)
OnlyOwnThread ==
  /\ \A t \in Threads : \A a \in Uses(t) \cap freed : t = Thread(a)
  /\ \A a \in Threaded : ~running[a] => queue[a] = <<>>

(* Each node of a stack is freed once, when nothing refers to it           *)
(* (auth_stack_release).                                                   *)
FreedOnce ==
  \A n \in Auths : frees[n] <= 1

(* A client is admitted by exactly the last authenticator it was passed    *)
(* to: that one answered AUTH_OK, its acl is the client's and it will be   *)
(* told when the client leaves, also when an earlier stack had admitted    *)
(* the client without the right to its admin command.                      *)
AdmittedByLast ==
  \A c \in Clients : client[c].at = "served" /\ client[c].admitted # None =>
    {client[c].admitted, client[c].acl, client[c].auth} = {client[c].last}

(* The number of clients waiting to be authenticated is bounded by the     *)
(* limit and one client for each thread that may be between the test of    *)
(* the limit and the queueing (auth_add_client tests it without the lock). *)
PendingBounded ==
  /\ TypeOK
  /\ \A a \in Threaded :
       Len(SelectSeq(queue[a], LAMBDA q : q.op = "process"))
         <= Limit + Cardinality({Conn} \cup {Thread(b) : b \in Threaded \cap 1 .. a - 1})

(* Every client that connects is answered, whatever authenticators it      *)
(* meets and also when the configuration is replaced meanwhile.            *)
Answered ==
  \A c \in Clients : client[c].at = "auth" ~> client[c].at = "served"

(* An authenticator that admitted a client and wants to know when it       *)
(* leaves is told so, and only once: when a client is on its way out,      *)
(* release_client has been or will be called for it, and never again,      *)
(* although the answer to that call may give the client its acl back and   *)
(* have it destroyed a second time (auth_release_client,                   *)
(* auth_remove_client, __handle_auth_client).                              *)
ToldOnce ==
  \A c \in Clients :
    client[c].at \in {"going", "released", "gone"} /\ client[c].admitted \in Hooked
      ~> client[c].at \in {"released", "gone"} /\ client[c].hooks = 1

(* "only actual freed after the last use" (auth_release): when the         *)
(* configuration was replaced and its clients are gone, its authenticators *)
(* are freed.                                                              *)
FreedInTheEnd ==
  \A a \in Auths :
    ~configured /\ (\A c \in Clients : client[c].at = "gone") ~> a \in freed
=============================================================================
