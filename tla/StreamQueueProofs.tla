------------------------- MODULE StreamQueueProofs -------------------------
(***************************************************************************)
(* Proofs about StreamQueue, for any number of listeners, buffers, sizes   *)
(* and limits, with or without a thread that moves the listeners away.     *)
(***************************************************************************)
EXTENDS StreamQueue, FiniteSetTheorems, TLAPS

(***************************************************************************)
(* The inductive invariant.  To the invariants that are of interest it     *)
(* adds what the places of source_main know: the queue is not empty while  *)
(* the burst is moved, the loaded count covers the references that will be *)
(* left after the store, nobody moves listeners while the source thread    *)
(* holds the trees, and a walk only visits members of its tree.            *)
(***************************************************************************)
BurstWork ==
  /\ pc \in {"burst", "release"} => stream_data # 0
  /\ pc = "release" => /\ stream_data < burst_point
                       /\ loaded >= 2 + Cardinality(Readers(burst_point - 1))

TreeWork ==
  /\ ClientTreeLocked => mover = "none"
  /\ pc = "send" => todo \subseteq client_tree
  /\ pc = "accept" => todo \subseteq pending_tree
  /\ pc = "stopped" => client_tree = {}
  /\ client_tree \cap pending_tree = {}

IInv ==
  /\ TypeOK
  /\ QueueAccounting
  /\ NothingFreedInUse
  /\ QueueStateExpected
  /\ OnlyServedListenersRead
  /\ ListenersExact
  /\ BurstWork
  /\ TreeWork

-----------------------------------------------------------------------------
\* Every non-empty set of buffers has a first one: the walks of
\* find_client_start along next stop at a definite place.
LEMMA FirstBuffer ==
  ASSUME NEW S \in SUBSET Nat, S # {}
  PROVE  \E b \in S : \A d \in S : b <= d
<1>1. PICK b \in S : \A d \in S : ~(<<d, b>> \in OpToRel(<, Nat))
  BY NatLessThanWellFounded, WFMin, Zenon
<1>2. \A d \in S : ~(d < b)
  BY <1>1 DEF OpToRel
<1> QED BY <1>2

\* The buffer at which find_client_start places a listener is in the queue.
LEMMA StartInQueue ==
  ASSUME TypeOK, NEW offset
  PROVE  find_client_start(offset) \in Queued \cup {0}
<1> DEFINE syncs == {b \in Burst : SearchFrom(offset) <= b /\ sync_point[b]}
<1>1. syncs \in SUBSET Queued /\ Queued \in SUBSET Nat
  BY BoundAssumption DEF Burst, Queued, Bufs
<1>2. CASE syncs = {}
  BY <1>2 DEF find_client_start
<1>3. CASE syncs # {}
  <2>1. \E b \in syncs : \A d \in syncs : b <= d
    <3> HIDE DEF syncs
    <3> QED BY <1>1, <1>3, FirstBuffer
  <2>2. (CHOOSE b \in syncs : \A d \in syncs : b <= d) \in syncs
    <3> HIDE DEF syncs
    <3> QED BY <2>1
  <2> QED BY <1>1, <1>3, <2>2 DEF find_client_start
<1> QED BY <1>2, <1>3

\* What one call of send_to_listener makes of a listener is well formed: it
\* has a stream buffer, one of the queue, exactly when it is in the queue.
LEMMA SendResultsOK ==
  ASSUME TypeOK, NEW c \in Clients, NEW r \in SendResults(c)
  PROVE  /\ r.mode \in Modes
         /\ r.refbuf \in Queued \cup {0}
         /\ r.intro \in Int
         /\ r.refbuf # 0 <=> r.mode = "queue"
<1>0. mode[c] \in Modes /\ intro_offset[c] \in Int /\ IntroLen \in Int /\ 0 \notin Queued
  BY LoopAssumption, BoundAssumption DEF TypeOK, Queued, Bufs
<1>1. \A o \in Int : LET p == Placed(o) IN
        /\ p.mode \in Modes
        /\ p.refbuf \in Queued \cup {0}
        /\ p.intro \in Int
        /\ p.refbuf # 0 <=> p.mode = "queue"
  BY <1>0, StartInQueue DEF Placed, Modes
<1>2. CASE mode[c] = "http"
  BY <1>2, <1>0 DEF SendResults, HttpResults, Modes
<1>3. CASE mode[c] = "intro"
  BY <1>3, <1>0, <1>1 DEF SendResults, IntroResults, Modes
<1>4. CASE mode[c] = "wait"
  BY <1>4, <1>0, <1>1 DEF SendResults, Modes
<1>5. CASE mode[c] = "queue"
  BY <1>5, <1>0 DEF SendResults, QueueResults, Modes
<1> QED BY <1>0, <1>2, <1>3, <1>4, <1>5 DEF Modes

\* The readers of a buffer can be counted.
LEMMA ReadersFinite ==
  ASSUME NEW b
  PROVE  IsFiniteSet(Readers(b)) /\ Cardinality(Readers(b)) \in Nat
BY ClientsAssumption, FS_Subset, FS_CardinalityType DEF Readers

\* client_set_queue keeps the books: the count of a buffer and the number of
\* its readers change together.
LEMMA SetQueueKeepsBooks ==
  ASSUME TypeOK, NEW c \in Clients, NEW b \in 0..MaxBuf,
         count' = client_set_queue(c, b),
         refbuf' = [refbuf EXCEPT ![c] = b]
  PROVE  /\ count' \in [Bufs -> Int]
         /\ \A d \in Bufs : count'[d] - Cardinality(Readers(d)')
                              = count[d] - Cardinality(Readers(d))
<1> DEFINE old == refbuf[c]
<1>0. /\ count \in [Bufs -> Int] /\ refbuf \in [Clients -> 0..MaxBuf]
      /\ old \in 0..MaxBuf
  BY DEF TypeOK
<1>1. count' \in [Bufs -> Int]
  BY <1>0, BoundAssumption DEF client_set_queue, refbuf_release, refbuf_addref, Bufs
<1>2. ASSUME NEW d \in Bufs
      PROVE  count'[d] - Cardinality(Readers(d)')
               = count[d] - Cardinality(Readers(d))
  <2>0. d # 0 /\ count[d] \in Int
    BY <1>0, BoundAssumption DEF Bufs
  <2>1. IsFiniteSet(Readers(d)) /\ Cardinality(Readers(d)) \in Nat
    BY ReadersFinite
  <2>2. CASE d = b /\ d = old
    <3>1. Readers(d)' = Readers(d)
      BY <2>2, <1>0 DEF Readers
    <3>2. count'[d] = count[d]
      BY <2>0, <2>2, <1>0 DEF client_set_queue, refbuf_release, refbuf_addref
    <3> QED BY <3>1, <3>2
  <2>3. CASE d = b /\ d # old
    <3>1. Readers(d)' = Readers(d) \cup {c} /\ c \notin Readers(d)
      BY <2>3, <1>0 DEF Readers
    <3>2. count'[d] = count[d] + 1
      BY <2>0, <2>3, <1>0 DEF client_set_queue, refbuf_release, refbuf_addref
    <3>3. Cardinality(Readers(d)') = Cardinality(Readers(d)) + 1
      BY <2>1, <3>1, FS_AddElement
    <3> QED BY <2>0, <2>1, <3>2, <3>3
  <2>4. CASE d # b /\ d = old
    <3>1. Readers(d)' = Readers(d) \ {c} /\ c \in Readers(d)
      BY <2>4, <1>0 DEF Readers
    <3>2. count'[d] = count[d] - 1
      BY <2>0, <2>4, <1>0 DEF client_set_queue, refbuf_release, refbuf_addref
    <3>3. Cardinality(Readers(d)') = Cardinality(Readers(d)) - 1
      BY <2>1, <3>1, FS_RemoveElement
    <3> QED BY <2>0, <2>1, <3>2, <3>3
  <2>5. CASE d # b /\ d # old
    <3>1. Readers(d)' = Readers(d)
      BY <2>5, <1>0 DEF Readers
    <3>2. count'[d] = count[d]
      BY <2>0, <2>5, <1>0 DEF client_set_queue, refbuf_release, refbuf_addref
    <3> QED BY <3>1, <3>2
  <2> QED BY <2>2, <2>3, <2>4, <2>5
<1> QED BY <1>1, <1>2

\* Changing one value of a function keeps its type.
LEMMA ExceptType ==
  ASSUME NEW S, NEW T, NEW f \in [S -> T], NEW i, NEW v \in T
  PROVE  [f EXCEPT ![i] = v] \in [S -> T]
OBVIOUS

\* A listener that is let go leaves well-typed state behind.
LEMMA ForgetType ==
  ASSUME TypeOK, NEW c \in Clients, Forget(c)
  PROVE  /\ mode' \in [Clients -> Modes]
         /\ refbuf' \in [Clients -> 0..MaxBuf]
         /\ intro_offset' \in [Clients -> Int]
<1>1. "http" \in Modes /\ 0 \in 0..MaxBuf /\ 0 \in Int
  BY BoundAssumption DEF Modes
<1> QED BY <1>1, ExceptType DEF Forget, TypeOK

\* So do its references.
LEMMA LetGoKeepsBooks ==
  ASSUME TypeOK, NEW c \in Clients, count' = client_set_queue(c, 0), Forget(c)
  PROVE  /\ count' \in [Bufs -> Int]
         /\ \A d \in Bufs : count'[d] - Cardinality(Readers(d)')
                              = count[d] - Cardinality(Readers(d))
<1>1. 0 \in 0..MaxBuf
  BY BoundAssumption
<1>2. refbuf' = [refbuf EXCEPT ![c] = 0]
  BY DEF Forget
<1> QED BY <1>1, <1>2, SetQueueKeepsBooks

-----------------------------------------------------------------------------
\* The initial state satisfies the inductive invariant.
LEMMA InitIInv == Init => IInv
<1> SUFFICES ASSUME Init PROVE IInv
  OBVIOUS
<1>1. TypeOK
  <2>1. /\ start \in [1..(MaxBuf + 1) -> Nat]
        /\ nbuf \in 0..MaxBuf /\ stream_data \in 0..MaxBuf
        /\ stream_data_tail \in 0..MaxBuf /\ burst_point \in 0..MaxBuf
    BY BoundAssumption DEF Init
  <2>2. /\ refbuf \in [Clients -> 0..MaxBuf]
        /\ intro_offset \in [Clients -> Int] /\ mode \in [Clients -> Modes]
    BY BoundAssumption DEF Init, Modes
  <2>3. queue_size_limit \in Nat /\ burst_size \in Nat /\ max_listeners \in MaxListeners
    BY SizesAssumption DEF Init
  <2>4. sync_point \in [Bufs -> BOOLEAN] /\ count \in [Bufs -> Int]
    BY DEF Init
  <2>5. running \in BOOLEAN /\ remove_from_q \in BOOLEAN /\ unexpected \in BOOLEAN
    BY DEF Init
  <2>6. /\ client_tree \subseteq Clients /\ pending_tree \subseteq Clients
        /\ todo \subseteq Clients
    BY DEF Init
  <2>7. /\ queue_size \in Int /\ burst_offset \in Int /\ loaded \in Int
        /\ listeners \in Int /\ prev_listeners \in Int
    BY DEF Init
  <2>8. /\ pc \in {"get", "burst", "release", "check", "lock", "send", "accept",
                   "trim", "moving", "clear", "stopped"}
        /\ mover \in {"none", "self", "other"}
    BY DEF Init
  <2> QED BY <2>1, <2>2, <2>3, <2>4, <2>5, <2>6, <2>7, <2>8 DEF TypeOK
<1>2. Cardinality(client_tree) = 0
  BY FS_EmptySet DEF Init
<1>3. QueueAccounting /\ NothingFreedInUse /\ QueueStateExpected
  BY DEF Init, QueueAccounting, NothingFreedInUse, QueueStateExpected, Queued
<1>4. OnlyServedListenersRead
  BY DEF Init, OnlyServedListenersRead
<1>5. ListenersExact
  BY <1>2 DEF Init, ListenersExact
<1>6. BurstWork /\ TreeWork
  BY DEF Init, BurstWork, TreeWork, ClientTreeLocked
<1> QED BY <1>1, <1>3, <1>4, <1>5, <1>6 DEF IInv

\* Every step keeps the types: a buffer number never leaves 1..MaxBuf.
LEMMA TypeStep == IInv /\ [Next]_vars => TypeOK'
<1> SUFFICES ASSUME IInv, [Next]_vars PROVE TypeOK'
  OBVIOUS
<1>0. TypeOK /\ QueueAccounting /\ BurstWork /\ MaxBuf \in Nat
  BY BoundAssumption DEF IInv
<1>1. ASSUME NEW len \in Lens, NEW sync \in BOOLEAN, NEW eof \in BOOLEAN,
             AppendBuffer(len, sync, eof)
      PROVE  TypeOK'
  <2>1. /\ start' \in [1..(MaxBuf + 1) -> Nat]
        /\ queue_size' \in Int /\ burst_offset' \in Int
    BY <1>0, <1>1, LensAssumption DEF AppendBuffer, TypeOK
  <2>2. sync_point' \in [Bufs -> BOOLEAN]
    BY <1>0, <1>1, ExceptType, Zenon DEF AppendBuffer, TypeOK
  <2>3. count' \in [Bufs -> Int]
    <3>1. count \in [Bufs -> Int] /\ NewCount \in Int
      BY <1>0 DEF TypeOK, NewCount
    <3>2. count' = [count EXCEPT ![nbuf + 1] = NewCount]
      BY <1>1 DEF AppendBuffer
    <3> QED BY <3>1, <3>2, ExceptType
  <2>4. /\ stream_data' \in 0..MaxBuf /\ stream_data_tail' \in 0..MaxBuf
        /\ burst_point' \in 0..MaxBuf /\ nbuf' \in 0..MaxBuf
    BY <1>0, <1>1 DEF AppendBuffer, TypeOK
  <2>5. running' \in BOOLEAN
    BY <1>1 DEF AppendBuffer
  <2> QED
    BY <1>0, <1>1, <2>1, <2>2, <2>3, <2>4, <2>5
       DEF AppendBuffer, TypeOK, settingVars, clientVars, countVars
<1>2. ASSUME NEW stop \in BOOLEAN, NoBuffer(stop)
      PROVE  TypeOK'
  BY <1>0, <1>2 DEF NoBuffer, TypeOK, queueVars, settingVars, clientVars, countVars
<1>3. CASE BurstAdvance
  <2>1. burst_point \in Bufs /\ burst_point + 1 \in Bufs
    BY <1>0, <1>3 DEF BurstAdvance, BurstTooLong, BurstWork, QueueAccounting, TypeOK, Bufs
  <2>2. burst_offset' \in Int /\ loaded' \in Int /\ burst_point' \in 0..MaxBuf
    BY <1>0, <1>3, <2>1 DEF BurstAdvance, TypeOK, BufLen, Bufs
  <2> QED
    BY <1>0, <1>3, <2>2 DEF BurstAdvance, TypeOK, settingVars, clientVars, countVars
<1>4. CASE BurstRelease
  <2>1. count \in [Bufs -> Int] /\ loaded - 1 \in Int
    BY <1>0 DEF TypeOK
  <2>2. count' = [count EXCEPT ![burst_point - 1] = loaded - 1]
    BY <1>4 DEF BurstRelease
  <2>3. count' \in [Bufs -> Int]
    BY <2>1, <2>2, ExceptType
  <2> QED
    BY <1>0, <1>4, <2>3 DEF BurstRelease, TypeOK, queueVars, settingVars, clientVars,
       countVars
<1>5. CASE BurstDone
  BY <1>0, <1>5 DEF BurstDone, TypeOK, queueVars, settingVars, clientVars, countVars
<1>6. CASE CheckLimit
  BY <1>0, <1>6 DEF CheckLimit, TypeOK, queueVars, settingVars, clientVars, countVars
<1>7. CASE LockTrees
  BY <1>0, <1>7 DEF LockTrees, TypeOK, queueVars, settingVars, clientVars, countVars
<1>8. ASSUME NEW c \in Clients, SendToListener(c)
      PROVE  TypeOK'
  <2>1. PICK r \in SendResults(c) :
          /\ count' = client_set_queue(c, r.refbuf)
          /\ mode' = [mode EXCEPT ![c] = r.mode]
          /\ refbuf' = [refbuf EXCEPT ![c] = r.refbuf]
          /\ intro_offset' = [intro_offset EXCEPT ![c] = r.intro]
    BY <1>8 DEF SendToListener
  <2>2. r.mode \in Modes /\ r.refbuf \in 0..MaxBuf /\ r.intro \in Int
    BY <1>0, SendResultsOK DEF Queued, Bufs
  <2>3. count' \in [Bufs -> Int]
    BY <1>0, <2>1, <2>2, SetQueueKeepsBooks
  <2> QED
    BY <1>0, <1>8, <2>1, <2>2, <2>3 DEF SendToListener, TypeOK, queueVars,
       settingVars, countVars
<1>9. ASSUME NEW c \in Clients, RemoveListener(c)
      PROVE  TypeOK'
  <2>1. count' \in [Bufs -> Int]
    BY <1>0, <1>9, LetGoKeepsBooks DEF RemoveListener
  <2>2. /\ mode' \in [Clients -> Modes] /\ refbuf' \in [Clients -> 0..MaxBuf]
        /\ intro_offset' \in [Clients -> Int]
    BY <1>0, <1>9, ForgetType DEF RemoveListener
  <2> QED
    BY <1>0, <1>9, <2>1, <2>2 DEF RemoveListener, TypeOK, queueVars, settingVars
<1>10. CASE AllSent
  BY <1>0, <1>10 DEF AllSent, TypeOK, queueVars, settingVars, clientVars, countVars
<1>11. ASSUME NEW c \in Clients, AcceptPending(c)
       PROVE  TypeOK'
  <2>1. CASE Full
    <3>1. /\ mode' \in [Clients -> Modes] /\ refbuf' \in [Clients -> 0..MaxBuf]
          /\ intro_offset' \in [Clients -> Int]
      BY <1>0, <1>11, <2>1, ForgetType DEF AcceptPending
    <3> QED BY <1>0, <1>11, <2>1, <3>1 DEF AcceptPending, TypeOK, queueVars, settingVars
  <2>2. CASE ~Full
    BY <1>0, <1>11, <2>2 DEF AcceptPending, TypeOK, queueVars, settingVars
  <2> QED BY <2>1, <2>2
<1>12. CASE UpdateStats
  BY <1>0, <1>12 DEF UpdateStats, TypeOK, queueVars, settingVars, clientVars
<1>13. CASE TrimHead
  <2>1. queue_size' \in Int /\ stream_data' \in 0..MaxBuf
    <3>1. /\ stream_data # 0 /\ stream_data \in 0..MaxBuf
          /\ stream_data_tail \in 0..MaxBuf /\ stream_data <= stream_data_tail
          /\ queue_size \in Int /\ start \in [1..(MaxBuf + 1) -> Nat]
      BY <1>0, <1>13 DEF TrimHead, HeadUnreferenced, QueueAccounting, TypeOK
    <3>2. TrimmedLen \in Int
      BY <1>0, <3>1 DEF TrimmedLen, BufLen
    <3>3. \/ stream_data' = stream_data /\ queue_size' = queue_size
          \/ /\ stream_data # stream_data_tail
             /\ stream_data' = stream_data + 1 /\ queue_size' = queue_size - TrimmedLen
      BY <1>13 DEF TrimHead
    <3> QED BY <1>0, <3>1, <3>2, <3>3
  <2>2. count' \in [Bufs -> Int]
    BY <1>0, <1>13 DEF TrimHead, refbuf_release, TypeOK
  <2> QED
    BY <1>0, <1>13, <2>1, <2>2 DEF TrimHead, TypeOK, settingVars, clientVars, countVars
<1>14. CASE TrimDone
  BY <1>0, <1>14 DEF TrimDone, TypeOK, queueVars, settingVars, clientVars, countVars
<1>15. ASSUME NEW fallback \in BOOLEAN, Shutdown(fallback)
       PROVE  TypeOK'
  BY <1>0, <1>15 DEF Shutdown, TypeOK, queueVars, settingVars, clientVars, countVars
<1>16. CASE BeginMove
  BY <1>0, <1>16 DEF BeginMove, TypeOK, queueVars, settingVars, clientVars, countVars
<1>17. ASSUME NEW c \in Clients, MoveClient(c)
       PROVE  TypeOK'
  <2>1. count' \in [Bufs -> Int]
    BY <1>0, <1>17, LetGoKeepsBooks DEF MoveClient
  <2>2. /\ mode' \in [Clients -> Modes] /\ refbuf' \in [Clients -> 0..MaxBuf]
        /\ intro_offset' \in [Clients -> Int]
    BY <1>0, <1>17, ForgetType DEF MoveClient
  <2> QED
    BY <1>0, <1>17, <2>1, <2>2 DEF MoveClient, TypeOK, queueVars, settingVars, countVars
<1>18. CASE EndMove
  BY <1>0, <1>18 DEF EndMove, TypeOK, queueVars, settingVars, clientVars
<1>19. CASE Clear
  BY <1>0, <1>19 DEF Clear, TypeOK, Modes, MaxListeners
<1>20. ASSUME NEW limit \in QueueLimits, NEW burst \in BurstSizes,
              NEW max \in MaxListeners, UpdateSettings(limit, burst, max)
       PROVE  TypeOK'
  BY <1>0, <1>20, SizesAssumption DEF UpdateSettings, TypeOK, queueVars, clientVars,
     countVars
<1>21. ASSUME NEW limit \in QueueLimits, NEW burst \in BurstSizes,
              NEW max \in MaxListeners, Restart(limit, burst, max)
       PROVE  TypeOK'
  BY <1>0, <1>21, SizesAssumption DEF Restart, TypeOK, queueVars, clientVars
<1>22. CASE Free
  BY <1>0, <1>22 DEF Free, TypeOK, Modes, queueVars, settingVars, countVars
<1>23. CASE RequestStop
  BY <1>0, <1>23 DEF RequestStop, TypeOK, queueVars, settingVars, clientVars, countVars
<1>24. ASSUME NEW c \in Clients, NEW m \in {"http", "wait"}, NEW o \in Int,
              AddPending(c, m, o)
       PROVE  TypeOK'
  BY <1>0, <1>24 DEF AddPending, TypeOK, Modes, queueVars, settingVars, countVars
<1>25. CASE UNCHANGED vars
  BY <1>0, <1>25 DEF vars, TypeOK, queueVars, settingVars, clientVars, countVars
<1>26. -1..IntroLen \in SUBSET Int /\ 0 \in Int
  BY LoopAssumption
<1> QED
  BY <1>1, <1>2, <1>3, <1>4, <1>5, <1>6, <1>7, <1>8, <1>9, <1>10, <1>11, <1>12,
     <1>13, <1>14, <1>15, <1>16, <1>17, <1>18, <1>19, <1>20, <1>21, <1>22, <1>23,
     <1>24, <1>25, <1>26 DEF Next, SourceThread, Moving, Environment

-----------------------------------------------------------------------------
\* Only four actions change the queue.
LEMMA QueueFrame ==
  [Next]_vars =>
    \/ \E len \in Lens, sync \in BOOLEAN, eof \in BOOLEAN : AppendBuffer(len, sync, eof)
    \/ BurstAdvance
    \/ TrimHead
    \/ Clear
    \/ UNCHANGED queueVars
BY DEF Next, SourceThread, Moving, Environment, vars, NoBuffer, BurstRelease,
  BurstDone, CheckLimit, LockTrees, SendToListener, RemoveListener, AllSent,
  AcceptPending, UpdateStats, TrimDone, Shutdown, BeginMove, MoveClient, EndMove,
  Restart, Free, AddPending, RequestStop, UpdateSettings

\* The byte counters follow the queue through each of them.
LEMMA QueueStep == IInv /\ [Next]_vars => QueueAccounting'
<1> SUFFICES ASSUME IInv, [Next]_vars PROVE QueueAccounting'
  OBVIOUS
<1>0. TypeOK /\ QueueAccounting /\ BurstWork /\ MaxBuf \in Nat
  BY BoundAssumption DEF IInv
<1>1. ASSUME NEW len \in Lens, NEW sync \in BOOLEAN, NEW eof \in BOOLEAN,
             AppendBuffer(len, sync, eof)
      PROVE  QueueAccounting'
  <2> DEFINE n == nbuf + 1
  <2>1. /\ n \in 1..MaxBuf /\ n + 1 \in 1..(MaxBuf + 1) /\ len \in Nat
        /\ start \in [1..(MaxBuf + 1) -> Nat]
    BY <1>0, <1>1, LensAssumption DEF AppendBuffer, TypeOK
  <2>2. \A b \in 1..n : start'[b] = start[b]
    BY <1>1, <2>1 DEF AppendBuffer
  <2>3. start'[n + 1] = start[n] + len
    BY <1>1, <2>1 DEF AppendBuffer
  <2>4. CASE stream_data = 0
    BY <1>0, <1>1, <2>1, <2>2, <2>3, <2>4 DEF AppendBuffer, QueueAccounting, TypeOK
  <2>5. CASE stream_data # 0
    <3>1. /\ stream_data \in 1..n /\ burst_point \in 1..n /\ stream_data_tail = nbuf
          /\ start[stream_data] \in Int /\ start[burst_point] \in Int
      BY <1>0, <2>1, <2>5 DEF QueueAccounting, TypeOK
    <3>2. /\ queue_size = start[n] - start[stream_data]
          /\ burst_offset = start[n] - start[burst_point]
          /\ stream_data <= burst_point /\ burst_point <= nbuf /\ nbuf \in Nat
      BY <1>0, <2>5, <3>1 DEF QueueAccounting, TypeOK
    <3>3. /\ stream_data' = stream_data /\ burst_point' = burst_point
          /\ stream_data_tail' = n /\ nbuf' = n
          /\ queue_size' = queue_size + len /\ burst_offset' = burst_offset + len
      BY <1>1, <2>5 DEF AppendBuffer
    <3>4. /\ start'[stream_data] = start[stream_data]
          /\ start'[burst_point] = start[burst_point] /\ start[n] \in Int
      BY <1>0, <2>1, <2>2, <3>1
    <3>5. /\ queue_size' = start'[n + 1] - start'[stream_data]
          /\ burst_offset' = start'[n + 1] - start'[burst_point]
      BY <2>1, <2>3, <3>1, <3>2, <3>3, <3>4, SMTT(30)
    <3>6. burst_point <= n
      BY <3>1, <3>2
    <3> QED BY <2>5, <3>2, <3>3, <3>5, <3>6 DEF QueueAccounting
  <2> QED BY <2>4, <2>5
<1>2. CASE BurstAdvance
  <2>0. /\ stream_data \in 0..MaxBuf /\ burst_point \in 0..MaxBuf
        /\ stream_data_tail \in 0..MaxBuf /\ start \in [1..(MaxBuf + 1) -> Nat]
        /\ stream_data # 0 /\ burst_point # stream_data_tail
    BY <1>0, <1>2 DEF BurstAdvance, BurstTooLong, BurstWork, TypeOK
  <2>1. /\ stream_data <= burst_point /\ burst_point < stream_data_tail
        /\ stream_data_tail = nbuf /\ burst_point \in 1..MaxBuf
        /\ stream_data_tail \in 1..MaxBuf
        /\ queue_size = start[stream_data_tail + 1] - start[stream_data]
        /\ burst_offset = start[stream_data_tail + 1] - start[burst_point]
    BY <1>0, <2>0 DEF QueueAccounting
  <2>2. /\ start[burst_point] \in Int /\ start[burst_point + 1] \in Int
        /\ start[stream_data_tail + 1] \in Int
    BY <1>0, <2>0, <2>1
  <2>3. /\ burst_point' = burst_point + 1
        /\ burst_offset' = burst_offset - (start[burst_point + 1] - start[burst_point])
        /\ UNCHANGED <<stream_data, stream_data_tail, queue_size, nbuf, start>>
    BY <1>2 DEF BurstAdvance, BufLen
  <2>4. burst_offset' = start[stream_data_tail + 1] - start[burst_point + 1]
    BY <2>1, <2>2, <2>3
  <2> QED BY <2>0, <2>1, <2>3, <2>4 DEF QueueAccounting
<1>3. CASE TrimHead
  <2>1. /\ stream_data # 0 /\ stream_data <= burst_point /\ burst_point <= stream_data_tail
        /\ stream_data_tail = nbuf /\ stream_data \in 1..MaxBuf /\ burst_point \in 1..MaxBuf
        /\ stream_data_tail \in 1..MaxBuf /\ start \in [1..(MaxBuf + 1) -> Nat]
        /\ queue_size = start[stream_data_tail + 1] - start[stream_data]
        /\ burst_offset = start[stream_data_tail + 1] - start[burst_point]
    BY <1>0, <1>3 DEF TrimHead, HeadUnreferenced, QueueAccounting, TypeOK
  <2>2. /\ start[stream_data] \in Int /\ start[stream_data + 1] \in Int
        /\ start[stream_data_tail + 1] \in Int
    BY <1>0, <2>1
  <2>3. UNCHANGED <<stream_data_tail, burst_point, burst_offset, nbuf, start>>
    BY <1>3 DEF TrimHead
  <2>4. CASE stream_data = stream_data_tail \/ burst_point = stream_data
    <3>1. stream_data' = stream_data /\ queue_size' = queue_size
      BY <1>3, <2>4 DEF TrimHead
    <3> QED BY <2>1, <2>3, <3>1 DEF QueueAccounting
  <2>5. CASE ~(stream_data = stream_data_tail \/ burst_point = stream_data)
    <3>1. /\ stream_data' = stream_data + 1
          /\ queue_size' = queue_size - (start[stream_data + 1] - start[stream_data])
      BY <1>3, <2>5 DEF TrimHead, TrimmedLen, BufLen
    <3>2. queue_size' = start[stream_data_tail + 1] - start[stream_data + 1]
      BY <2>1, <2>2, <3>1
    <3> QED BY <2>1, <2>3, <2>5, <3>1, <3>2 DEF QueueAccounting
  <2> QED BY <2>4, <2>5
<1>4. CASE Clear
  BY <1>4 DEF Clear, QueueAccounting
<1>5. CASE UNCHANGED queueVars
  BY <1>0, <1>5 DEF queueVars, QueueAccounting
<1> QED BY <1>1, <1>2, <1>3, <1>4, <1>5, QueueFrame

-----------------------------------------------------------------------------
\* The actions that touch a count, a listener's buffer or the burst.
LEMMA CountFrame ==
  [Next]_vars =>
    \/ \E len \in Lens, sync \in BOOLEAN, eof \in BOOLEAN : AppendBuffer(len, sync, eof)
    \/ BurstAdvance \/ BurstRelease \/ TrimHead \/ Clear
    \/ \E c \in Clients : \/ SendToListener(c) \/ RemoveListener(c)
                          \/ AcceptPending(c) \/ MoveClient(c)
    \/ /\ UNCHANGED <<queueVars, count, refbuf, loaded, unexpected>>
       /\ pc' = pc \/ pc' \notin {"burst", "release"}
BY DEF Next, SourceThread, Moving, Environment, vars, clientVars, NoBuffer, BurstDone,
  CheckLimit, LockTrees, AllSent, UpdateStats, TrimDone, Shutdown, BeginMove, EndMove,
  Restart, Free, AddPending, RequestStop, UpdateSettings

\* A buffer's references do not grow, its count keeps its distance from the
\* number of its readers, and the listeners read queued buffers: then the
\* count still covers the references.
LEMMA BooksCover ==
  ASSUME IInv, UNCHANGED queueVars, pc' = pc, count' \in [Bufs -> Int],
         \A d \in Bufs : count'[d] - Cardinality(Readers(d)')
                           = count[d] - Cardinality(Readers(d)),
         \A d : Cardinality(Readers(d)') \in Nat,
         \A c \in Clients : refbuf'[c] # 0 => refbuf'[c] \in Queued
  PROVE  NothingFreedInUse'
<1>1. Queued' = Queued
  BY DEF queueVars, Queued
<1>2. ASSUME NEW b \in Queued
      PROVE  count'[b] >= References(b)'
  <2>1. /\ b \in Bufs /\ b \in Int /\ count[b] \in Int /\ count'[b] \in Int
        /\ count[b] >= References(b) /\ burst_point \in Int
    BY BoundAssumption DEF IInv, TypeOK, NothingFreedInUse, Queued, Bufs
  <2>2. BurstReference(b)' = BurstReference(b) /\ BurstReference(b) \in Int
    BY DEF BurstReference, queueVars
  <2>3. Cardinality(Readers(b)) \in Int /\ Cardinality(Readers(b)') \in Int
    BY ReadersFinite
  <2>4. count'[b] - Cardinality(Readers(b)') = count[b] - Cardinality(Readers(b))
    BY <2>1
  <2>5. References(b)' = 1 + BurstReference(b) + Cardinality(Readers(b)')
    BY <2>2 DEF References
  <2>6. References(b) = 1 + BurstReference(b) + Cardinality(Readers(b))
    BY DEF References
  <2> HIDE DEF References
  <2> QED BY <2>1, <2>2, <2>3, <2>4, <2>5, <2>6
<1> QED BY <1>1, <1>2 DEF NothingFreedInUse

\* Nothing that is in use is freed, and the head that is trimmed is neither
\* the tail nor the burst point.
LEMMA CountStep ==
  IInv /\ [Next]_vars => NothingFreedInUse' /\ BurstWork' /\ QueueStateExpected'
<1> SUFFICES ASSUME IInv, [Next]_vars
             PROVE  NothingFreedInUse' /\ BurstWork' /\ QueueStateExpected'
  OBVIOUS
<1>0. /\ TypeOK /\ QueueAccounting /\ NothingFreedInUse /\ BurstWork
      /\ QueueStateExpected /\ MaxBuf \in Nat
  BY BoundAssumption DEF IInv
<1>a. /\ stream_data \in 0..MaxBuf /\ stream_data_tail \in 0..MaxBuf
      /\ burst_point \in 0..MaxBuf /\ nbuf \in 0..MaxBuf
      /\ count \in [Bufs -> Int] /\ refbuf \in [Clients -> 0..MaxBuf]
      /\ loaded \in Int
  BY <1>0 DEF TypeOK
<1>b. stream_data # 0 => /\ stream_data <= burst_point /\ burst_point <= stream_data_tail
                         /\ stream_data_tail = nbuf
  BY <1>0 DEF QueueAccounting
<1>c. \A d : Cardinality(Readers(d)) \in Nat /\ Cardinality(Readers(d)') \in Nat
  <2>1. ASSUME NEW d
        PROVE  Cardinality(Readers(d)')  \in Nat
    BY ClientsAssumption, FS_Subset, FS_CardinalityType DEF Readers
  <2> QED BY <2>1, ReadersFinite
<1>1. ASSUME NEW len \in Lens, NEW sync \in BOOLEAN, NEW eof \in BOOLEAN,
             AppendBuffer(len, sync, eof)
      PROVE  NothingFreedInUse' /\ BurstWork' /\ QueueStateExpected'
  <2>0. PICK n \in Bufs : n = nbuf + 1
    BY <1>0, <1>1, <1>a DEF AppendBuffer, Bufs
  <2>1. /\ pc' = "burst" /\ pc = "get" /\ n # 0
        /\ count' = [count EXCEPT ![n] = 2]
        /\ UNCHANGED <<refbuf, unexpected>>
        /\ stream_data' # 0 /\ stream_data_tail' = n
        /\ stream_data = 0 => stream_data' = n /\ burst_point' = n
        /\ stream_data # 0 => stream_data' = stream_data /\ burst_point' = burst_point
    BY <1>1, <2>0 DEF AppendBuffer, NewCount, clientVars, Bufs
  <2>2. Queued' = Queued \cup {n}
    BY <1>0, <1>a, <1>b, <2>0, <2>1 DEF Queued, Bufs
  <2>3. n \notin Queued
    BY <1>a, <1>b, <2>0, <2>1 DEF Queued, Bufs
  <2>4. Readers(n) = {}
    BY <1>0, <1>a, <2>1, <2>3 DEF Readers, NothingFreedInUse, Bufs
  <2>5. Cardinality(Readers(n)) = 0
    BY <2>4, FS_EmptySet
  <2>6. \A b : Readers(b)' = Readers(b)
    BY <2>1 DEF Readers
  <2>7. References(n)' = 2
    <3>1. BurstReference(n)' = 1
      BY <1>a, <1>b, <2>0, <2>1 DEF BurstReference, Bufs
    <3> QED BY <2>5, <2>6, <3>1 DEF References
  <2>8. count'[n] >= References(n)'
    BY <1>a, <2>1, <2>7
  <2>9. ASSUME NEW b \in Queued
        PROVE  count'[b] >= References(b)'
    <3>1. stream_data # 0 /\ b \in Bufs /\ b # n
      BY <2>3 DEF Queued
    <3>2. count'[b] = count[b]
      BY <1>a, <2>1, <3>1
    <3>3. BurstReference(b)' = BurstReference(b)
      BY <2>1, <3>1 DEF BurstReference
    <3>4. References(b)' = References(b)
      BY <2>6, <3>3 DEF References
    <3> QED BY <1>0, <3>2, <3>4 DEF NothingFreedInUse
  <2>10. \A c \in Clients : refbuf'[c] # 0 => refbuf'[c] \in Queued'
    BY <1>0, <2>1, <2>2 DEF NothingFreedInUse
  <2>11. NothingFreedInUse'
    BY <2>2, <2>8, <2>9, <2>10 DEF NothingFreedInUse
  <2> QED BY <1>0, <2>1, <2>11 DEF BurstWork, QueueStateExpected
<1>2. CASE BurstAdvance
  <2>1. /\ pc = "burst" /\ pc' = "release" /\ burst_point' = burst_point + 1
        /\ UNCHANGED <<stream_data, stream_data_tail, count, refbuf, unexpected>>
        /\ burst_point # stream_data_tail /\ loaded' = count[burst_point]
    BY <1>2 DEF BurstAdvance, BurstTooLong, clientVars
  <2>2. stream_data # 0
    BY <1>0, <2>1 DEF BurstWork
  <2>3. Queued' = Queued /\ burst_point \in Queued
    BY <1>a, <1>b, <2>1, <2>2 DEF Queued, Bufs
  <2>4. \A b : Readers(b)' = Readers(b)
    BY <2>1 DEF Readers
  <2>5. ASSUME NEW b \in Queued
        PROVE  References(b)' = References(b)
    <3>1. b \in Int
      BY DEF Queued, Bufs
    <3>2. BurstReference(b)' = BurstReference(b)
      BY <1>a, <2>1, <3>1 DEF BurstReference
    <3> QED BY <2>4, <3>2 DEF References
  <2>6. NothingFreedInUse'
    BY <1>0, <2>1, <2>3, <2>5 DEF NothingFreedInUse
  <2>7. References(burst_point) = 2 + Cardinality(Readers(burst_point))
    <3>1. BurstReference(burst_point) = 1
      BY <1>a DEF BurstReference
    <3> QED BY <1>c, <3>1 DEF References
  <2>8. loaded' >= 2 + Cardinality(Readers(burst_point))
    BY <1>0, <2>1, <2>3, <2>7 DEF NothingFreedInUse
  <2>9. burst_point' - 1 = burst_point
    BY <1>a, <2>1
  <2>10. Readers(burst_point - 1)' = Readers(burst_point)
    BY <2>1, <2>9 DEF Readers
  <2>11. BurstWork'
    BY <1>a, <1>b, <2>1, <2>2, <2>8, <2>10 DEF BurstWork
  <2> QED BY <1>0, <2>1, <2>6, <2>11 DEF QueueStateExpected
<1>3. CASE BurstRelease
  <2>0. PICK p : p = burst_point - 1
    OBVIOUS
  <2>1. /\ pc = "release" /\ pc' = "burst" /\ count' = [count EXCEPT ![p] = loaded - 1]
        /\ UNCHANGED <<stream_data, stream_data_tail, burst_point, refbuf, unexpected>>
    BY <1>3, <2>0 DEF BurstRelease, queueVars, clientVars
  <2>2. /\ stream_data # 0 /\ stream_data < burst_point
        /\ loaded >= 2 + Cardinality(Readers(p)) /\ p \in Bufs
    BY <1>0, <1>a, <2>0, <2>1 DEF BurstWork, Bufs
  <2>3. Queued' = Queued
    BY <2>1 DEF Queued
  <2>4. \A b : Readers(b)' = Readers(b)
    BY <2>1 DEF Readers
  <2>5. count'[p] >= References(p)'
    <3>1. BurstReference(p)' = 0
      BY <1>a, <2>0, <2>1 DEF BurstReference
    <3>2. References(p)' = 1 + Cardinality(Readers(p))
      BY <1>c, <2>4, <3>1 DEF References
    <3> QED BY <1>a, <1>c, <2>1, <2>2, <3>2
  <2>6. ASSUME NEW b \in Queued, b # p
        PROVE  count'[b] >= References(b)'
    <3>1. b \in Bufs
      BY DEF Queued
    <3>2. count'[b] = count[b]
      BY <1>a, <2>1, <2>6, <3>1
    <3>3. BurstReference(b)' = BurstReference(b)
      BY <2>0, <2>1, <2>6 DEF BurstReference
    <3>4. References(b)' = References(b)
      BY <2>4, <3>3 DEF References
    <3> QED BY <1>0, <3>2, <3>4 DEF NothingFreedInUse
  <2>7. NothingFreedInUse'
    BY <1>0, <2>1, <2>3, <2>5, <2>6 DEF NothingFreedInUse
  <2> QED BY <1>0, <2>1, <2>2, <2>7 DEF BurstWork, QueueStateExpected
<1>4. CASE TrimHead
  <2>1. /\ pc = "trim" /\ stream_data # 0 /\ count[stream_data] = 1
        /\ UNCHANGED <<stream_data_tail, burst_point, refbuf>>
    BY <1>4 DEF TrimHead, HeadUnreferenced, clientVars
  <2>2. stream_data \in Queued
    BY <1>a, <1>b, <2>1 DEF Queued, Bufs
  <2>3. 1 >= References(stream_data)
    BY <1>0, <2>1, <2>2 DEF NothingFreedInUse
  <2>4. BurstReference(stream_data) = 0 /\ Cardinality(Readers(stream_data)) = 0
    <3>1. BurstReference(stream_data) \in {0, 1}
      BY DEF BurstReference
    <3> QED BY <1>c, <2>3, <3>1 DEF References
  <2>5. stream_data < burst_point
    BY <1>a, <2>4 DEF BurstReference
  <2>6. Readers(stream_data) = {}
    BY <2>4, ReadersFinite, FS_EmptySet
  <2>7. /\ stream_data' = stream_data + 1 /\ pc' = pc
        /\ count' = refbuf_release(count, stream_data) /\ unexpected' = unexpected
    BY <1>4, <1>a, <1>b, <2>1, <2>5 DEF TrimHead
  <2>8. Queued' = Queued \ {stream_data}
    BY <1>a, <1>b, <2>1, <2>7 DEF Queued, Bufs
  <2>9. \A b : Readers(b)' = Readers(b) /\ BurstReference(b)' = BurstReference(b)
    BY <2>1, <2>7 DEF Readers, BurstReference
  <2>10. \A b \in Queued' : count'[b] = count[b] /\ References(b)' = References(b)
    BY <1>a, <2>7, <2>8, <2>9 DEF refbuf_release, References, Queued
  <2>11. \A c \in Clients : refbuf'[c] # 0 => refbuf'[c] \in Queued'
    BY <1>0, <2>1, <2>6, <2>8 DEF NothingFreedInUse, Readers
  <2>12. NothingFreedInUse'
    BY <1>0, <2>8, <2>10, <2>11 DEF NothingFreedInUse
  <2> QED BY <1>0, <2>1, <2>7, <2>12 DEF BurstWork, QueueStateExpected
<1>5. CASE Clear
  <2>1. /\ stream_data' = 0 /\ refbuf' = [c \in Clients |-> 0] /\ pc' = "stopped"
        /\ unexpected' = unexpected
    BY <1>5 DEF Clear
  <2>2. Queued' = {}
    BY <2>1 DEF Queued
  <2> QED BY <1>0, <2>1, <2>2 DEF NothingFreedInUse, BurstWork, QueueStateExpected
<1>6. ASSUME NEW c \in Clients, SendToListener(c)
      PROVE  NothingFreedInUse' /\ BurstWork' /\ QueueStateExpected'
  <2>1. PICK r \in SendResults(c) :
          /\ count' = client_set_queue(c, r.refbuf)
          /\ refbuf' = [refbuf EXCEPT ![c] = r.refbuf]
    BY <1>6 DEF SendToListener
  <2>2. r.refbuf \in Queued \cup {0} /\ r.refbuf \in 0..MaxBuf
    BY <1>0, SendResultsOK DEF Queued, Bufs
  <2>3. /\ count' \in [Bufs -> Int]
        /\ \A d \in Bufs : count'[d] - Cardinality(Readers(d)')
                             = count[d] - Cardinality(Readers(d))
    BY <1>0, <2>1, <2>2, SetQueueKeepsBooks
  <2>4. pc = "send" /\ pc' = pc /\ UNCHANGED queueVars /\ unexpected' = unexpected
    BY <1>6 DEF SendToListener
  <2>5. \A d \in Clients : refbuf'[d] # 0 => refbuf'[d] \in Queued
    BY <1>0, <1>a, <2>1, <2>2 DEF NothingFreedInUse
  <2>6. NothingFreedInUse'
    BY <1>c, <2>3, <2>4, <2>5, BooksCover
  <2> QED BY <1>0, <2>4, <2>6 DEF BurstWork, QueueStateExpected
<1>7. ASSUME NEW c \in Clients, RemoveListener(c) \/ MoveClient(c)
      PROVE  NothingFreedInUse' /\ BurstWork' /\ QueueStateExpected'
  <2>1. count' = client_set_queue(c, 0) /\ Forget(c)
    BY <1>7 DEF RemoveListener, MoveClient
  <2>2. pc' = pc /\ UNCHANGED queueVars /\ loaded' = loaded /\ unexpected' = unexpected
    BY <1>7 DEF RemoveListener, MoveClient
  <2>3. /\ count' \in [Bufs -> Int]
        /\ \A d \in Bufs : count'[d] - Cardinality(Readers(d)')
                             = count[d] - Cardinality(Readers(d))
    BY <1>0, <2>1, LetGoKeepsBooks
  <2>4. \A d \in Clients : refbuf'[d] # 0 => refbuf'[d] = refbuf[d]
    BY <1>a, <2>1 DEF Forget
  <2>5. NothingFreedInUse'
    BY <1>0, <1>c, <2>2, <2>3, <2>4, BooksCover DEF NothingFreedInUse
  <2>6. ASSUME pc = "release"
        PROVE  Cardinality(Readers(burst_point - 1)') <= Cardinality(Readers(burst_point - 1))
    <3>1. burst_point - 1 # 0
      BY <1>0, <1>a, <2>6 DEF BurstWork
    <3>2. Readers(burst_point - 1)' \in SUBSET Readers(burst_point - 1)
      BY <2>2, <2>4, <3>1 DEF Readers, queueVars
    <3> QED BY <2>2, <3>2, ReadersFinite, FS_Subset DEF queueVars
  <2>7. BurstWork'
    <3>1. pc = "release" => loaded' >= 2 + Cardinality(Readers(burst_point - 1)')
      BY <1>0, <1>a, <1>c, <2>2, <2>6 DEF BurstWork
    <3>2. burst_point' = burst_point /\ stream_data' = stream_data
      BY <2>2 DEF queueVars
    <3> QED BY <1>0, <2>2, <3>1, <3>2 DEF BurstWork
  <2> QED BY <1>0, <2>2, <2>5, <2>7 DEF QueueStateExpected
<1>8. ASSUME NEW c \in Clients, AcceptPending(c)
      PROVE  NothingFreedInUse' /\ BurstWork' /\ QueueStateExpected'
  <2>1. /\ pc = "accept" /\ pc' = pc /\ UNCHANGED queueVars /\ count' = count
        /\ unexpected' = unexpected
    BY <1>8 DEF AcceptPending
  <2>2. \A d \in Clients : refbuf'[d] # 0 => refbuf'[d] = refbuf[d]
    BY <1>8, <1>a DEF AcceptPending, Forget
  <2>3. Queued' = Queued
    BY <2>1 DEF Queued, queueVars
  <2>4. ASSUME NEW b \in Queued
        PROVE  count'[b] >= References(b)'
    <3>1. b # 0 /\ count[b] \in Int
      BY <1>a, BoundAssumption DEF Queued, Bufs
    <3>2. Readers(b)' \in SUBSET Readers(b)
      BY <2>2, <3>1 DEF Readers
    <3>3. Cardinality(Readers(b)') <= Cardinality(Readers(b))
      BY <3>2, ReadersFinite, FS_Subset
    <3>4. BurstReference(b)' = BurstReference(b) /\ BurstReference(b) \in Int
      BY <2>1 DEF BurstReference, queueVars
    <3>5. count[b] >= 1 + BurstReference(b) + Cardinality(Readers(b))
      BY <1>0 DEF NothingFreedInUse, References
    <3>6. count'[b] >= 1 + BurstReference(b)' + Cardinality(Readers(b)')
      BY <1>c, <2>1, <3>1, <3>3, <3>4, <3>5
    <3> QED BY <3>6 DEF References
  <2>5. NothingFreedInUse'
    BY <1>0, <2>2, <2>3, <2>4 DEF NothingFreedInUse
  <2> QED BY <1>0, <2>1, <2>5 DEF BurstWork, QueueStateExpected
<1>9. CASE /\ UNCHANGED <<queueVars, count, refbuf, loaded, unexpected>>
           /\ pc' = pc \/ pc' \notin {"burst", "release"}
  <2>1. Queued' = Queued
    BY <1>9 DEF Queued, queueVars
  <2>2. \A b : Readers(b)' = Readers(b)
    BY <1>9 DEF Readers
  <2>3. ASSUME NEW b \in Queued
        PROVE  count'[b] >= References(b)'
    <3>1. /\ BurstReference(b)' \in Int /\ BurstReference(b) \in Int
          /\ BurstReference(b)' <= BurstReference(b)
      BY <1>9 DEF BurstReference, queueVars
    <3>2. count[b] \in Int /\ count'[b] = count[b]
      BY <1>9, <1>a DEF Queued
    <3>3. count[b] >= 1 + BurstReference(b) + Cardinality(Readers(b))
      BY <1>0 DEF NothingFreedInUse, References
    <3>4. count'[b] >= 1 + BurstReference(b)' + Cardinality(Readers(b)')
      BY <1>c, <2>2, <3>1, <3>2, <3>3
    <3> QED BY <3>4 DEF References
  <2>4. NothingFreedInUse'
    BY <1>0, <1>9, <2>1, <2>3 DEF NothingFreedInUse
  <2>5. BurstWork'
    BY <1>0, <1>9, <2>2 DEF BurstWork, queueVars
  <2> QED BY <1>0, <1>9, <2>4, <2>5 DEF QueueStateExpected
<1> QED BY <1>1, <1>2, <1>3, <1>4, <1>5, <1>6, <1>7, <1>8, <1>9, CountFrame

-----------------------------------------------------------------------------
\* The actions that touch the trees, a walk over them, the number of
\* listeners or the right to move them.
LEMMA TreeFrame ==
  [Next]_vars =>
    \/ LockTrees \/ AllSent \/ UpdateStats \/ BeginMove \/ EndMove \/ Clear \/ Free
    \/ \E c \in Clients : \/ SendToListener(c) \/ RemoveListener(c)
                          \/ AcceptPending(c) \/ MoveClient(c)
    \/ \E c \in Clients, m \in {"http", "wait"}, o \in -1..IntroLen : AddPending(c, m, o)
    \/ \E fallback \in BOOLEAN : Shutdown(fallback)
    \/ \E limit \in QueueLimits, burst \in BurstSizes, max \in MaxListeners :
         Restart(limit, burst, max)
    \/ /\ UNCHANGED <<clientVars, todo, listeners, mover>>
       /\ pc' = pc \/ pc' \in {"get", "burst", "release", "check", "lock"}
<1>1. 0 \in -1..IntroLen
  BY LoopAssumption
<1> QED
  BY <1>1 DEF Next, SourceThread, Moving, Environment, vars, countVars, AppendBuffer,
    NoBuffer, BurstAdvance, BurstRelease, BurstDone, CheckLimit, TrimHead, TrimDone,
    RequestStop, UpdateSettings

\* A listener that is let go holds nothing and has no place.
LEMMA ForgetServed ==
  ASSUME TypeOK, OnlyServedListenersRead, NEW c \in Clients, Forget(c),
         client_tree \ {c} \subseteq client_tree'
  PROVE  OnlyServedListenersRead'
<1>1. mode \in [Clients -> Modes] /\ refbuf \in [Clients -> 0..MaxBuf]
  BY DEF TypeOK
<1>2. /\ mode' = [mode EXCEPT ![c] = "http"]
      /\ refbuf' = [refbuf EXCEPT ![c] = 0]
  BY DEF Forget
<1>3. ASSUME NEW d \in Clients
      PROVE  /\ (refbuf'[d] # 0) <=> (mode'[d] = "queue")
             /\ refbuf'[d] # 0 => d \in client_tree'
  <2>1. CASE d = c
    BY <1>1, <1>2, <2>1
  <2>2. CASE d # c
    BY <1>1, <1>2, <2>2 DEF OnlyServedListenersRead
  <2> QED BY <2>1, <2>2
<1> QED BY <1>3 DEF OnlyServedListenersRead

\* The number of listeners can be counted.
LEMMA TreesFinite ==
  ASSUME TypeOK
  PROVE  IsFiniteSet(client_tree) /\ Cardinality(client_tree) \in Nat
BY ClientsAssumption, FS_Subset, FS_CardinalityType DEF TypeOK

\* The trees, their walks and the number of listeners fit together.
LEMMA TreeStep ==
  IInv /\ [Next]_vars => OnlyServedListenersRead' /\ ListenersExact' /\ TreeWork'
<1> DEFINE Goal == OnlyServedListenersRead' /\ ListenersExact' /\ TreeWork'
<1> SUFFICES ASSUME IInv, [Next]_vars PROVE Goal
  OBVIOUS
<1>0. TypeOK /\ OnlyServedListenersRead /\ ListenersExact /\ TreeWork
  BY DEF IInv
<1>a. /\ client_tree \in SUBSET Clients /\ pending_tree \in SUBSET Clients
      /\ todo \in SUBSET Clients /\ listeners \in Int
      /\ mode \in [Clients -> Modes] /\ refbuf \in [Clients -> 0..MaxBuf]
  BY <1>0 DEF TypeOK
<1>b. IsFiniteSet(client_tree) /\ Cardinality(client_tree) \in Nat
  BY <1>0, TreesFinite
<1>c. client_tree' = {} => Cardinality(client_tree') = 0
  BY FS_EmptySet
<1>1. CASE \/ LockTrees \/ AllSent \/ UpdateStats
  <2>1. UNCHANGED <<client_tree, pending_tree, mode, refbuf, listeners, mover>>
    BY <1>1 DEF LockTrees, AllSent, UpdateStats, clientVars, countVars
  <2>2. TreeWork'
    BY <1>0, <1>1, <2>1 DEF LockTrees, AllSent, UpdateStats, TreeWork, ClientTreeLocked
  <2> QED BY <1>0, <2>1, <2>2 DEF OnlyServedListenersRead, ListenersExact
<1>2. CASE BeginMove
  <2>1. /\ UNCHANGED <<client_tree, pending_tree, mode, refbuf, listeners, pc, todo>>
        /\ mover' # "none" /\ ~ClientTreeLocked
    BY <1>2 DEF BeginMove, clientVars, countVars
  <2> QED
    BY <1>0, <2>1 DEF OnlyServedListenersRead, ListenersExact, TreeWork, ClientTreeLocked
<1>3. CASE EndMove
  <2>1. /\ UNCHANGED <<client_tree, pending_tree, mode, refbuf, todo>> /\ mover # "none"
        /\ client_tree = {} /\ pending_tree = {} /\ listeners' = 0
        /\ mover' = "none" /\ pc' \in {pc, "clear"}
    BY <1>3 DEF EndMove, clientVars
  <2>2. ListenersExact'
    BY <1>a, <1>c, <2>1 DEF ListenersExact
  <2>3. TreeWork'
    BY <1>0, <2>1 DEF TreeWork, ClientTreeLocked
  <2> QED BY <1>0, <2>1, <2>2, <2>3 DEF OnlyServedListenersRead
<1>4. CASE Clear
  <2>1. /\ client_tree' = {} /\ pending_tree' = {} /\ listeners' = 0
        /\ mode' = [c \in Clients |-> "http"] /\ refbuf' = [c \in Clients |-> 0]
        /\ pc' = "stopped"
    BY <1>4 DEF Clear
  <2>2. ListenersExact'
    BY <1>a, <1>c, <2>1 DEF ListenersExact
  <2> QED BY <2>1, <2>2 DEF OnlyServedListenersRead, TreeWork, ClientTreeLocked
<1>5. CASE Free
  <2>1. /\ pc = "stopped" /\ pc' = pc /\ pending_tree' = {}
        /\ mode' = [c \in Clients |-> "http"]
        /\ UNCHANGED <<client_tree, refbuf, listeners, mover>>
    BY <1>5 DEF Free, countVars
  <2>2. client_tree = {}
    BY <1>0, <2>1 DEF TreeWork
  <2>3. \A c \in Clients : refbuf'[c] = 0
    BY <1>0, <2>1, <2>2 DEF OnlyServedListenersRead
  <2> QED
    BY <1>0, <2>1, <2>2, <2>3 DEF OnlyServedListenersRead, ListenersExact, TreeWork,
       ClientTreeLocked
<1>6. ASSUME NEW c \in Clients, SendToListener(c)
      PROVE  Goal
  <2>1. PICK r \in SendResults(c) :
          /\ mode' = [mode EXCEPT ![c] = r.mode]
          /\ refbuf' = [refbuf EXCEPT ![c] = r.refbuf]
    BY <1>6 DEF SendToListener
  <2>2. /\ pc = "send" /\ c \in todo /\ todo' = todo \ {c}
        /\ UNCHANGED <<pc, client_tree, pending_tree, listeners, mover>>
    BY <1>6 DEF SendToListener, countVars
  <2>3. r.refbuf # 0 <=> r.mode = "queue"
    BY <1>0, SendResultsOK
  <2>4. c \in client_tree
    BY <1>0, <2>2 DEF TreeWork
  <2>5. ASSUME NEW d \in Clients
        PROVE  /\ (refbuf'[d] # 0) <=> (mode'[d] = "queue")
               /\ refbuf'[d] # 0 => d \in client_tree'
    <3>1. CASE d = c
      BY <1>a, <2>1, <2>2, <2>3, <2>4, <3>1
    <3>2. CASE d # c
      BY <1>0, <1>a, <2>1, <2>2, <3>2 DEF OnlyServedListenersRead
    <3> QED BY <3>1, <3>2
  <2>6. OnlyServedListenersRead'
    BY <2>5 DEF OnlyServedListenersRead
  <2> QED
    BY <1>0, <2>2, <2>6 DEF ListenersExact, TreeWork, ClientTreeLocked
<1>7. ASSUME NEW c \in Clients, RemoveListener(c)
      PROVE  Goal
  <2>1. /\ pc = "send" /\ c \in todo /\ todo' = todo \ {c} /\ Forget(c)
        /\ client_tree' = client_tree \ {c} /\ listeners' = listeners - 1
        /\ UNCHANGED <<pc, pending_tree, mover>>
    BY <1>7 DEF RemoveListener
  <2>2. OnlyServedListenersRead'
    BY <1>0, <2>1, ForgetServed
  <2>3. c \in client_tree /\ mover = "none"
    BY <1>0, <2>1 DEF TreeWork, ClientTreeLocked
  <2>4. Cardinality(client_tree') = Cardinality(client_tree) - 1
    BY <1>b, <2>1, <2>3, FS_RemoveElement
  <2>5. ListenersExact'
    BY <1>0, <1>a, <1>b, <2>1, <2>3, <2>4 DEF ListenersExact
  <2>6. TreeWork'
    BY <1>0, <2>1 DEF TreeWork, ClientTreeLocked
  <2> QED BY <2>2, <2>5, <2>6
<1>8. ASSUME NEW c \in Clients, AcceptPending(c)
      PROVE  Goal
  <2>1. /\ pc = "accept" /\ c \in todo /\ todo' = todo \ {c}
        /\ pending_tree' = pending_tree \ {c} /\ UNCHANGED <<pc, mover>>
    BY <1>8 DEF AcceptPending
  <2>2. c \in pending_tree /\ c \notin client_tree /\ mover = "none"
    BY <1>0, <2>1 DEF TreeWork, ClientTreeLocked
  <2>3. CASE Full
    <3>1. Forget(c) /\ UNCHANGED <<client_tree, listeners>>
      BY <1>8, <2>3 DEF AcceptPending
    <3>2. OnlyServedListenersRead'
      BY <1>0, <3>1, ForgetServed
    <3> QED
      BY <1>0, <2>1, <3>1, <3>2 DEF ListenersExact, TreeWork, ClientTreeLocked
  <2>4. CASE ~Full
    <3>1. /\ client_tree' = client_tree \cup {c} /\ listeners' = listeners + 1
          /\ UNCHANGED <<mode, refbuf>>
      BY <1>8, <2>4 DEF AcceptPending
    <3>2. OnlyServedListenersRead'
      BY <1>0, <3>1 DEF OnlyServedListenersRead
    <3>3. Cardinality(client_tree') = Cardinality(client_tree) + 1
      BY <1>b, <2>2, <3>1, FS_AddElement
    <3>4. listeners = Cardinality(client_tree)
      BY <1>0, <2>2 DEF ListenersExact
    <3>5. ListenersExact'
      BY <1>a, <1>b, <3>1, <3>3, <3>4 DEF ListenersExact
    <3>6. TreeWork'
      BY <1>0, <2>1, <3>1 DEF TreeWork, ClientTreeLocked
    <3> QED BY <3>2, <3>5, <3>6
  <2> QED BY <2>3, <2>4
<1>9. ASSUME NEW c \in Clients, MoveClient(c)
      PROVE  Goal
  <2>1. /\ mover # "none" /\ Forget(c) /\ client_tree' = client_tree \ {c}
        /\ pending_tree' = pending_tree \ {c} /\ UNCHANGED <<pc, todo, listeners, mover>>
    BY <1>9 DEF MoveClient, countVars
  <2>2. OnlyServedListenersRead'
    BY <1>0, <2>1, ForgetServed
  <2>3. Cardinality(client_tree') <= Cardinality(client_tree) /\ Cardinality(client_tree') \in Nat
    BY <1>b, <2>1, FS_Subset, FS_CardinalityType
  <2>4. ListenersExact'
    BY <1>0, <1>a, <1>b, <2>1, <2>3 DEF ListenersExact
  <2>5. TreeWork'
    BY <1>0, <2>1 DEF TreeWork, ClientTreeLocked
  <2> QED BY <2>2, <2>4, <2>5
<1>10. ASSUME NEW c \in Clients, NEW m \in {"http", "wait"}, NEW o \in -1..IntroLen,
              AddPending(c, m, o)
       PROVE  Goal
  <2>1. /\ c \notin client_tree /\ pc \notin {"send", "accept"}
        /\ pending_tree' = pending_tree \cup {c} /\ mode' = [mode EXCEPT ![c] = m]
        /\ UNCHANGED <<pc, client_tree, refbuf, todo, listeners, mover>>
    BY <1>10 DEF AddPending, PendingTreeLocked, countVars
  <2>2. ASSUME NEW d \in Clients
        PROVE  /\ (refbuf'[d] # 0) <=> (mode'[d] = "queue")
               /\ refbuf'[d] # 0 => d \in client_tree'
    <3>1. CASE d = c
      BY <1>0, <1>a, <2>1, <3>1 DEF OnlyServedListenersRead
    <3>2. CASE d # c
      BY <1>0, <1>a, <2>1, <3>2 DEF OnlyServedListenersRead
    <3> QED BY <3>1, <3>2
  <2>3. OnlyServedListenersRead'
    BY <2>2 DEF OnlyServedListenersRead
  <2> QED
    BY <1>0, <2>1, <2>3 DEF ListenersExact, TreeWork, ClientTreeLocked
<1>11. ASSUME NEW fallback \in BOOLEAN, Shutdown(fallback)
       PROVE  Goal
  <2>1. /\ UNCHANGED <<client_tree, pending_tree, mode, refbuf, todo, listeners>>
        /\ pc' \in {"moving", "clear"}
        /\ mover' = "none" => mover = "none"
    BY <1>11 DEF Shutdown, clientVars, countVars
  <2> QED
    BY <1>0, <2>1 DEF OnlyServedListenersRead, ListenersExact, TreeWork, ClientTreeLocked
<1>12. ASSUME NEW limit \in QueueLimits, NEW burst \in BurstSizes,
              NEW max \in MaxListeners, Restart(limit, burst, max)
       PROVE  Goal
  <2>1. /\ UNCHANGED <<client_tree, pending_tree, mode, refbuf, todo, mover>>
        /\ pc = "stopped" /\ pc' = "get" /\ listeners' = 0
    BY <1>12 DEF Restart, clientVars
  <2>2. client_tree' = {}
    BY <1>0, <2>1 DEF TreeWork
  <2>3. ListenersExact'
    BY <1>a, <1>c, <2>1, <2>2 DEF ListenersExact
  <2> QED BY <1>0, <2>1, <2>3 DEF OnlyServedListenersRead, TreeWork, ClientTreeLocked
<1>13. CASE /\ UNCHANGED <<clientVars, todo, listeners, mover>>
            /\ pc' = pc \/ pc' \in {"get", "burst", "release", "check", "lock"}
  BY <1>0, <1>13 DEF clientVars, OnlyServedListenersRead, ListenersExact, TreeWork,
     ClientTreeLocked
<1> QED
  BY <1>1, <1>2, <1>3, <1>4, <1>5, <1>6, <1>7, <1>8, <1>9, <1>10, <1>11, <1>12, <1>13,
     TreeFrame

-----------------------------------------------------------------------------
\* The conjunction holds in every reachable state.
THEOREM Invariance == Spec => []IInv
<1>1. IInv /\ [Next]_vars => IInv'
  BY TypeStep, QueueStep, CountStep, TreeStep DEF IInv
<1> QED BY <1>1, InitIInv, PTL DEF Spec

\* Every variable of the source, its queue and its listeners has its type.
THEOREM TypeCorrect == Spec => []TypeOK
<1>1. IInv => TypeOK
  BY DEF IInv
<1> QED BY <1>1, Invariance, PTL

\* queue_size and burst_offset, which source_main adjusts buffer by buffer,
\* are the lengths of the queue and of its burst, for all buffer lengths.
THEOREM AccountingCorrect == Spec => []QueueAccounting
<1>1. IInv => QueueAccounting
  BY DEF IInv
<1> QED BY <1>1, Invariance, PTL

\* No stream buffer that the queue, the burst or a listener refers to is
\* freed, although refbuf_release is not atomic in the burst loop.
THEOREM NoUseAfterFree == Spec => []NothingFreedInUse
<1>1. IInv => NothingFreedInUse
  BY DEF IInv
<1> QED BY <1>1, Invariance, PTL

\* The branch of the trim loop marked "this should not happen" is dead code.
THEOREM UnexpectedNeverHappens == Spec => []QueueStateExpected
<1>1. IInv => QueueStateExpected
  BY DEF IInv
<1> QED BY <1>1, Invariance, PTL

\* The three together: what source_main keeps of its queue is sound.
THEOREM QueueCorrect == Spec => []QueueSound
<1> QED BY TypeCorrect, AccountingCorrect, UnexpectedNeverHappens, PTL DEF QueueSound

\* A listener that joins client_tree leaves it within the limit: only the walk
\* of pending_tree adds one, and it trusts source->listeners.
LEMMA AcceptedWithinLimit ==
  IInv /\ [Next]_vars =>
    (client_tree' \ client_tree # {} =>
       max_listeners = -1 \/ Cardinality(client_tree') <= max_listeners)
<1> SUFFICES ASSUME IInv, [Next]_vars, client_tree' \ client_tree # {},
                    max_listeners # -1
             PROVE  Cardinality(client_tree') <= max_listeners
  OBVIOUS
<1>0. TypeOK /\ ListenersExact /\ TreeWork
  BY DEF IInv
<1>1. PICK c \in Clients : AcceptPending(c)
  <2>1. \/ \E c \in Clients : SendToListener(c) \/ RemoveListener(c) \/ MoveClient(c)
        \/ \E c \in Clients, m \in {"http", "wait"}, o \in -1..IntroLen : AddPending(c, m, o)
        => client_tree' \subseteq client_tree
    BY DEF SendToListener, RemoveListener, MoveClient, AddPending
  <2>2. \/ LockTrees \/ AllSent \/ UpdateStats \/ BeginMove \/ EndMove \/ Clear \/ Free
        \/ \E fallback \in BOOLEAN : Shutdown(fallback)
        \/ \E limit \in QueueLimits, burst \in BurstSizes, max \in MaxListeners :
             Restart(limit, burst, max)
        \/ UNCHANGED clientVars
        => client_tree' \subseteq client_tree
    BY DEF LockTrees, AllSent, UpdateStats, BeginMove, EndMove, Clear, Free, Shutdown,
       Restart, clientVars
  <2> QED BY <2>1, <2>2, TreeFrame
<1>2. /\ pc = "accept" /\ c \in pending_tree /\ mover = "none"
  BY <1>0, <1>1 DEF AcceptPending, TreeWork, ClientTreeLocked
<1>3. ~Full /\ client_tree' = client_tree \cup {c}
  BY <1>1 DEF AcceptPending
<1>4. IsFiniteSet(client_tree) /\ Cardinality(client_tree) \in Nat
  BY <1>0, TreesFinite
<1>5. Cardinality(client_tree') = Cardinality(client_tree) + 1
  <2>1. c \notin client_tree
    BY <1>0, <1>2 DEF TreeWork
  <2> QED BY <1>3, <1>4, <2>1, FS_AddElement
<1>6. max_listeners \in Int
  BY <1>0, ListenersAssumption DEF TypeOK, MaxListeners
<1> QED BY <1>0, <1>2, <1>3, <1>4, <1>5, <1>6 DEF Full, ListenersExact

\* source->listeners is the number of clients in client_tree whenever no thread
\* is inside source_move_clients, and a listener is only accepted within the
\* limit in force, however the configuration changes it.
THEOREM ListenersCorrect == Spec => ListenersCounted
<1>1. IInv /\ IInv' /\ [Next]_vars =>
        [/\ ListenersExact'
         /\ client_tree' \ client_tree # {} =>
              max_listeners = -1 \/ Cardinality(client_tree') <= max_listeners]_vars
  BY AcceptedWithinLimit DEF IInv
<1> QED BY <1>1, Invariance, PTL DEF Spec, ListenersCounted
=============================================================================
