-------------------------- MODULE HttpServerProofs --------------------------
(***************************************************************************)
(* The HTTP server closes every descriptor once, for any number of clients *)
(* and any size of the send queue: the theorems of HttpServer, from the    *)
(* inductive invariant IndInv.                                             *)
(***************************************************************************)
EXTENDS HttpServer, TLAPS, FiniteSetTheorems

USE ClientsAssumption, QueueMaxAssumption

(***************************************************************************)
(* The ring buffer.                                                        *)
(***************************************************************************)
\* The remainder of a number that is below twice the divisor.
LEMMA ModOnce ==
    \A n \in 0 .. 2 * QueueMax - 1 :
        n % QueueMax = IF n < QueueMax THEN n ELSE n - QueueMax
<1> SUFFICES ASSUME NEW n \in 0 .. 2 * QueueMax - 1
             PROVE  n % QueueMax = IF n < QueueMax THEN n ELSE n - QueueMax
  OBVIOUS
<1>1. CASE n < QueueMax
  BY <1>1
<1>2. CASE n >= QueueMax
  <2>1. n % QueueMax = n - QueueMax
    BY <1>2
  <2> QED  BY <1>2, <2>1
<1> QED  BY <1>1, <1>2

\* The slot after a slot.
LEMMA NextSlotIs ==
    ASSUME NEW n \in Slots
    PROVE  NextSlot(n) \in Slots /\ NextSlot(n) = IF n = QueueMax - 1 THEN 0 ELSE n + 1
BY ModOnce DEF NextSlot, Slots

\* The slots between tail and head, going round.
Between(tail, head) ==
    {n \in Slots : IF tail <= head THEN tail <= n /\ n < head
                   ELSE tail <= n \/ n < head}

\* What the property OneOwner calls queued.
LEMMA QueuedIs ==
    ASSUME queue.head \in Slots, queue.tail \in Slots
    PROVE  Queued = Between(queue.tail, queue.head)
<1> DEFINE h == queue.head
           t == queue.tail
           len == (h + QueueMax - t) % QueueMax
<1>1. len = IF t <= h THEN h - t ELSE h + QueueMax - t
  BY ModOnce DEF Slots
<1>2. Queued = {(t + n) % QueueMax : n \in 0 .. len - 1}
  BY DEF Queued
<1> HIDE DEF len
<1>3. ASSUME NEW n \in 0 .. len - 1
      PROVE  (t + n) % QueueMax = IF t + n < QueueMax THEN t + n ELSE t + n - QueueMax
  <2> DEFINE m == t + n
  <2>1. m \in 0 .. 2 * QueueMax - 1
    BY <1>1 DEF Slots
  <2> HIDE DEF m
  <2>2. m % QueueMax = IF m < QueueMax THEN m ELSE m - QueueMax
    BY <2>1, ModOnce
  <2> QED  BY <1>1, <2>1, <2>2 DEF m, Slots
<1>4. ASSUME NEW m \in Queued
      PROVE  m \in Between(t, h)
  <2>1. PICK n \in 0 .. len - 1 : m = (t + n) % QueueMax
    BY <1>2
  <2>2. m = IF t + n < QueueMax THEN t + n ELSE t + n - QueueMax
    BY <1>3, <2>1
  <2> QED  BY <1>1, <2>1, <2>2 DEF Between, Slots
<1>5. ASSUME NEW m \in Between(t, h)
      PROVE  m \in Queued
  <2> DEFINE n == IF t <= m THEN m - t ELSE m + QueueMax - t
  <2>1. n \in 0 .. len - 1
    BY <1>1 DEF Between, Slots
  <2>2. m = IF t + n < QueueMax THEN t + n ELSE t + n - QueueMax
    BY <2>1 DEF Between, Slots
  <2> HIDE DEF n
  <2>3. m = (t + n) % QueueMax
    BY <1>3, <2>1, <2>2
  <2> QED  BY <1>2, <2>1, <2>3
<1> QED  BY <1>4, <1>5

\* Posting adds the slot at the head, which was not in use.
LEMMA PostSlot ==
    ASSUME NEW t \in Slots, NEW h \in Slots, NextSlot(h) # t
    PROVE  /\ Between(t, NextSlot(h)) = Between(t, h) \union {h}
           /\ h \notin Between(t, h)
<1>1. NextSlot(h) \in Slots /\ NextSlot(h) = IF h = QueueMax - 1 THEN 0 ELSE h + 1
  BY NextSlotIs
<1> QED  BY <1>1 DEF Between, Slots

\* Taking the message at the tail frees its slot.
LEMMA TakeSlot ==
    ASSUME NEW t \in Slots, NEW h \in Slots, h # t
    PROVE  /\ Between(NextSlot(t), h) = Between(t, h) \ {t}
           /\ t \in Between(t, h)
<1>1. NextSlot(t) \in Slots /\ NextSlot(t) = IF t = QueueMax - 1 THEN 0 ELSE t + 1
  BY NextSlotIs
<1> QED  BY <1>1 DEF Between, Slots

\* The queue is empty when head and tail meet, and only then.
LEMMA EmptyQueue ==
    ASSUME NEW t \in Slots, NEW h \in Slots
    PROVE  Between(t, h) = {} <=> h = t
BY DEF Between, Slots
-----------------------------------------------------------------------------
(***************************************************************************)
(* Descriptors.                                                            *)
(***************************************************************************)
\* A set of numbers up to n that is not empty has a least element: otherwise the
\* numbers above one of its elements would be mapped into themselves, and not
\* onto n, by subtracting one.
LEMMA LeastNumber ==
    ASSUME NEW n \in Nat, NEW S \in SUBSET (0 .. n), S # {}
    PROVE  \E x \in S : \A y \in S : x <= y
<1> SUFFICES ASSUME \A x \in S : \E y \in S : y < x
             PROVE  FALSE
  OBVIOUS
<1> DEFINE U == {k \in 0 .. n : \E x \in S : x <= k}
           f == [k \in U |-> k - 1]
<1>1. ASSUME NEW k \in U
      PROVE  k - 1 \in U
  <2>1. PICK x \in S : x <= k
    OBVIOUS
  <2>2. PICK y \in S : y < x
    OBVIOUS
  <2> QED  BY <2>1, <2>2
<1>2. f \in Injection(U, U)
  BY <1>1 DEF Injection, IsInjective
<1>3. IsFiniteSet(U)
  <2>1. IsFiniteSet(0 .. n)
    BY FS_Interval
  <2> QED  BY <2>1, FS_Subset
<1>4. f \in Surjection(U, U)
  BY <1>2, <1>3, FS_Injection
<1>5. n \in U
  <2>1. PICK x \in S : x \in 0 .. n
    OBVIOUS
  <2> QED  BY <2>1
<1>6. PICK k \in U : f[k] = n
  BY <1>4, <1>5 DEF Surjection
<1> QED  BY <1>6

\* What a descriptor may be.
Files == {Closed, Listener, Other} \union Clients

\* A descriptor is free as long as fewer than all clients have one, or nobody
\* listens: no two descriptors are the same client's.
LEMMA FreeFdExists ==
    ASSUME files \in [Fds -> Files],
           \A m, n \in Fds : files[m] = files[n] /\ files[m] # Closed => m = n,
           NEW x \in {Listener} \union Clients, \A n \in Fds : files[n] # x
    PROVE  FreeFd \in Fds /\ files[FreeFd] = Closed
<1> DEFINE L == Clients \union {Listener}
           M == L \union {Other}
           T == M \ {x}
<1>1. /\ IsFiniteSet(M)
      /\ Cardinality(M) = Cardinality(Clients) + 2
  <2>1. Cardinality(Clients) \in Nat
    BY FS_CardinalityType
  <2>2. IsFiniteSet(L) /\ Cardinality(L) = Cardinality(Clients) + 1
    BY FS_AddElement DEF Listener
  <2>3. Other \notin L
    BY DEF Listener, Other
  <2> HIDE DEF L
  <2>4. IsFiniteSet(M) /\ Cardinality(M) = Cardinality(L) + 1
    BY <2>2, <2>3, FS_AddElement
  <2> QED  BY <2>1, <2>2, <2>4
<1>2. Cardinality(Clients) \in Nat
  BY FS_CardinalityType
<1>3. IsFiniteSet(T) /\ Cardinality(T) = Cardinality(Clients) + 1
  <2>1. x \in M
    OBVIOUS
  <2> HIDE DEF M
  <2> QED  BY <1>1, <1>2, <2>1, FS_RemoveElement
<1>4. Cardinality(Fds) = Cardinality(Clients) + 2 /\ IsFiniteSet(Fds)
  BY <1>2, FS_Interval DEF Fds
<1>5. \E n \in Fds : files[n] = Closed
  <2> SUFFICES ASSUME \A n \in Fds : files[n] # Closed
               PROVE  FALSE
    OBVIOUS
  <2>1. files \in Injection(Fds, T)
    BY DEF Injection, IsInjective, Files
  <2>2. Cardinality(Fds) <= Cardinality(T)
    BY <1>3, <2>1, FS_Injection
  <2> QED  BY <1>2, <1>3, <1>4, <2>2
<1>6. \E fd \in Fds : files[fd] = Closed /\ \A n \in Fds : files[n] = Closed => fd <= n
  <2> DEFINE S == {n \in Fds : files[n] = Closed}
  <2>1. S \in SUBSET (0 .. Cardinality(Clients) + 1) /\ S # {}
    BY <1>5 DEF Fds
  <2> HIDE DEF S
  <2>2. \E y \in S : \A z \in S : y <= z
    <3>1. Cardinality(Clients) + 1 \in Nat
      BY <1>2
    <3> QED  BY <2>1, <3>1, LeastNumber
  <2> QED  BY <2>2 DEF S
<1> QED  BY <1>6 DEF FreeFd
-----------------------------------------------------------------------------
(***************************************************************************)
(* The parts of the inductive invariant.                                   *)
(***************************************************************************)
Sockets == Fds \union {Invalid}
Slot == [sock : Sockets, conn : Clients \union {0}]
InQueue == Between(queue.tail, queue.head)

Client ==
    [state : {"idle", "pending", "open", "closed"},
     message : Messages \union {"none"}, sent : BOOLEAN, replies : Nat]

ServerLabels ==
    {"init", "loop", "accept", "connect", "recv", "received", "preflight",
     "preflight_close", "preflight_clear", "enqueue", "giveup", "close", "done",
     "exited"}

Connection == [sock : Sockets, dequeues : Nat]
Request == [conn : Clients, method : Messages \union {"none"}]
QueueState == [slots : [Slots -> Slot], head : Slots, tail : Slots]
ServerState ==
    [pc : ServerLabels, lsock : Sockets, conn : Clients \union {0}, sock : Sockets,
     retries : Nat, data : Messages \union {"none"}, ebadf : BOOLEAN]
SenderState == [pc : {"test", "get", "send", "exited"}, out : Slot]
MainState == [pc : {"stopped", "running", "dequeue", "join_server", "join_sender"},
              starts : Nat]

\* The application has descriptor 0 and the server the others.
FilesType(f) ==
    /\ f \in [Fds -> Files]
    /\ \A fd \in Fds : f[fd] = Other <=> fd = Zeroed

TypeOK ==
    /\ FilesType(files)
    /\ lock \in {"free", "main"}
    /\ should_run \in BOOLEAN /\ cache \in BOOLEAN
    /\ sock \in Sockets
    /\ DOMAIN conns \in SUBSET Clients
    /\ conns \in [DOMAIN conns -> Connection]
    /\ requests \in Seq(Request)
    /\ queue \in QueueState
    /\ server \in ServerState
    /\ sender \in SenderState
    /\ main \in MainState
    /\ client \in [Clients -> Client]

\* How far the threads are from one another: who has the mutex, who still runs.
ThreadsPlace ==
    /\ lock = "main" <=> main.pc = "dequeue"
    /\ should_run <=> main.pc \in {"running", "dequeue"}
    /\ main.pc \in {"join_sender", "stopped"} => server.pc = "exited"
    /\ main.pc = "stopped" =>
          sender.pc = "exited" /\ requests = <<>> /\ DOMAIN conns = {}
    /\ sender.pc = "exited" => ~ should_run /\ queue.head = queue.tail
    /\ server.pc = "done" => ~ should_run

\* Only srv->sock listens; what the server thread remembers of it is either that
\* socket or was closed by ecs_http_server_stop, after which nobody accepts.
ListenPlace ==
    /\ \A fd \in Fds : files[fd] = Listener => fd = sock
    /\ sock # Invalid => files[sock] = Listener /\ should_run
    /\ server.lsock # Invalid =>
          \/ server.lsock = sock
          \/ sock = Invalid /\ files[server.lsock] = Closed
    /\ server.pc \in {"init", "exited"} => sock = Invalid /\ server.lsock = Invalid

\* The file that the socket of a connection is: the server thread may just have
\* closed it.
FileOf(c) == IF Cleared(c) THEN Closed ELSE c

\* The sockets of connections, of messages in the queue and of the message that is
\* sent are open descriptors of their client.
ConnPlace ==
    \A c \in DOMAIN conns :
        /\ conns[c].sock # Invalid => files[conns[c].sock] = FileOf(c)
        /\ client[c].state \in {"open", "closed"}

QueuePlace ==
    \A n \in InQueue :
        /\ queue.slots[n].sock \in Fds /\ queue.slots[n].conn \in Clients
        /\ files[queue.slots[n].sock] = queue.slots[n].conn
        /\ queue.slots[n].conn \notin DOMAIN conns
        /\ \A m \in InQueue : queue.slots[m].conn = queue.slots[n].conn => m = n

SenderPlace ==
    sender.pc = "send" =>
        /\ sender.out.sock \in Fds /\ sender.out.conn \in Clients
        /\ files[sender.out.sock] = sender.out.conn
        /\ sender.out.conn \notin DOMAIN conns
        /\ \A n \in InQueue : queue.slots[n].conn # sender.out.conn

\* The connection that the server thread works on is nobody else's business,
\* except that the main thread may purge it.
Busy == {"connect", "recv", "received", "preflight", "preflight_close",
         "preflight_clear", "enqueue", "giveup", "close"}

ServerPlace ==
    server.pc \in Busy =>
        /\ server.conn \in Clients /\ server.sock \in Fds
        /\ client[server.conn].state \in {"open", "closed"}
        /\ server.pc \in {"connect", "close"} => files[server.sock] = server.conn
        /\ server.pc = "connect" => ~ IsAlive
        /\ IsAlive => conns[server.conn].sock =
                        IF server.pc = "close" THEN Invalid ELSE server.sock
        /\ \A n \in InQueue : queue.slots[n].conn # server.conn
        /\ sender.pc = "send" => sender.out.conn # server.conn
        /\ \A i \in DOMAIN requests : requests[i].conn # server.conn

\* A request has its own connection, whose socket is valid.
RequestPlace ==
    \A i \in DOMAIN requests :
        /\ requests[i].conn \in DOMAIN conns
        /\ conns[requests[i].conn].sock # Invalid
        /\ \A j \in DOMAIN requests : requests[j].conn = requests[i].conn => i = j

\* No descriptor is forgotten: somebody will close it.
Owned(fd) ==
    \/ \E c \in DOMAIN conns : conns[c].sock = fd /\ ~ Cleared(c)
    \/ \E n \in InQueue : queue.slots[n].sock = fd
    \/ sender.pc = "send" /\ sender.out.sock = fd
    \/ server.pc \in {"connect", "close"} /\ server.sock = fd

FilesPlace ==
    \A fd \in Fds : files[fd] \in Clients =>
        Owned(fd) /\ client[files[fd]].state = "open"

\* A client that was answered is closed, or about to be.
RepliesPlace ==
    \A c \in Clients :
        /\ client[c].replies <= 1
        /\ \/ client[c].replies = 0 \/ client[c].state = "closed"
           \/ server.pc = "preflight_close" /\ server.conn = c

\* No descriptor was misused but the one of the listening socket.
FewMisuses == misuse \subseteq {"listener"}

IndInv ==
    /\ TypeOK /\ ThreadsPlace /\ ListenPlace /\ ConnPlace /\ QueuePlace /\ SenderPlace
    /\ ServerPlace /\ RequestPlace /\ FilesPlace /\ RepliesPlace /\ FewMisuses
-----------------------------------------------------------------------------
(***************************************************************************)
(* What the inductive invariant says of descriptors, and what opening and  *)
(* closing one does.                                                       *)
(***************************************************************************)
\* -1 is no descriptor, and 0 is one.
LEMMA FdsAre == Invalid \notin Fds /\ Zeroed \in Fds
BY FS_CardinalityType DEF Fds, Invalid, Zeroed

\* The socket of a connection that has one is the descriptor of its client.
LEMMA ConnOf ==
    ASSUME IndInv, NEW c \in DOMAIN conns
    PROVE  /\ c \in Clients /\ client[c].state \in {"open", "closed"}
           /\ \/ conns[c].sock = Invalid
              \/ conns[c].sock \in Fds /\ files[conns[c].sock] = FileOf(c)
BY DEF IndInv, TypeOK, Connection, Sockets, ConnPlace

\* No client has two descriptors, and one descriptor listens.
LEMMA OneFile ==
    ASSUME IndInv
    PROVE  \A m, n \in Fds : files[m] = files[n] /\ files[m] # Closed => m = n
<1> SUFFICES ASSUME NEW m \in Fds, NEW n \in Fds, files[m] = files[n], files[m] # Closed
             PROVE  m = n
  OBVIOUS
<1>0. CASE files[m] = Other
  BY <1>0 DEF IndInv, TypeOK, FilesType
<1>1. CASE files[m] = Listener
  BY <1>1 DEF IndInv, ListenPlace
<1>2. CASE files[m] \in Clients
  <2>1. Owned(m) /\ Owned(n)
    BY <1>2 DEF IndInv, FilesPlace
  <2>2. -1 \notin Fds
    BY FS_CardinalityType DEF Fds
  <2>3. CASE \E c \in DOMAIN conns : conns[c].sock = m /\ ~ Cleared(c)
    BY <2>1, <2>2, <2>3
       DEF IndInv, Owned, ConnPlace, QueuePlace, SenderPlace, ServerPlace, Busy,
           IsAlive, Invalid, FileOf
  <2>4. CASE \E k \in InQueue : queue.slots[k].sock = m
    BY <2>1, <2>2, <2>4
       DEF IndInv, Owned, ConnPlace, QueuePlace, SenderPlace, ServerPlace, Busy,
           IsAlive, Invalid, FileOf
  <2>5. CASE sender.pc = "send" /\ sender.out.sock = m
    BY <2>1, <2>2, <2>5
       DEF IndInv, Owned, ConnPlace, QueuePlace, SenderPlace, ServerPlace, Busy,
           IsAlive, Invalid, FileOf
  <2>6. CASE server.pc \in {"connect", "close"} /\ server.sock = m
    BY <2>1, <2>2, <2>6
       DEF IndInv, Owned, ConnPlace, QueuePlace, SenderPlace, ServerPlace, Busy,
           IsAlive, Invalid, FileOf
  <2> QED  BY <2>1, <2>3, <2>4, <2>5, <2>6 DEF Owned
<1> QED  BY <1>0, <1>1, <1>2 DEF IndInv, TypeOK, FilesType, Files

\* The descriptor fd is opened for x.
Opens(fd, x) ==
    /\ fd \in Fds /\ files[fd] = Closed
    /\ FilesType(files')
    /\ files'[fd] = x
    /\ \A n \in Fds : n # fd => files'[n] = files[n]

\* There is a descriptor for whoever has none.
LEMMA Opening ==
    ASSUME IndInv, NEW x \in {Listener} \union Clients, \A n \in Fds : files[n] # x,
           files' = [files EXCEPT ![FreeFd] = x]
    PROVE  Opens(FreeFd, x)
<1>1. FreeFd \in Fds /\ files[FreeFd] = Closed
  BY OneFile, FreeFdExists DEF IndInv, TypeOK, FilesType, Files
<1>2. FreeFd # Zeroed /\ x \in Files /\ x # Other
  BY <1>1, FdsAre DEF IndInv, TypeOK, FilesType, Files, Closed, Listener, Other
<1> QED  BY <1>1, <1>2 DEF Opens, IndInv, TypeOK, FilesType

\* Replying to and closing clients changes two fields of theirs.
LEMMA ToldClients ==
    ASSUME IndInv, NEW replied, NEW closed, client' = Told(replied, closed)
    PROVE  /\ client' \in [Clients -> Client]
           /\ \A x \in Clients :
                 /\ client'[x].state = IF x \in closed
                        THEN "closed" ELSE client[x].state
                 /\ client'[x].replies =
                       IF x \in replied THEN client[x].replies + 1
                           ELSE client[x].replies
<1>1. ASSUME NEW x \in Clients
      PROVE  /\ client'[x] \in Client
             /\ client'[x].state = IF x \in closed THEN "closed" ELSE client[x].state
             /\ client'[x].replies =
                   IF x \in replied THEN client[x].replies + 1 ELSE client[x].replies
  <2> DEFINE n == IF x \in replied THEN client[x].replies + 1 ELSE client[x].replies
             s == IF x \in closed THEN "closed" ELSE client[x].state
  <2>1. client[x] \in Client
    BY DEF IndInv, TypeOK
  <2>2. client'[x] = [client[x] EXCEPT !.replies = n, !.state = s]
    BY DEF Told
  <2>3. n \in Nat /\ s \in {"idle", "pending", "open", "closed"}
    BY <2>1 DEF Client
  <2> HIDE DEF n, s
  <2>4. client'[x] \in Client
    BY <2>1, <2>2, <2>3 DEF Client
  <2>5. client'[x].state = s /\ client'[x].replies = n
    BY <2>1, <2>2
  <2> QED  BY <2>4, <2>5 DEF n, s
<1>2. client' \in [Clients -> Client]
  BY <1>1 DEF Told
<1> QED  BY <1>1, <1>2

\* The descriptor fd of the client c is closed; of the clients only c notices.
Closes(fd, c, replied) ==
    /\ fd \in Fds /\ c \in Clients /\ files[fd] = c
    /\ FilesType(files')
    /\ files'[fd] = Closed
    /\ \A n \in Fds : n # fd => files'[n] = files[n] /\ files[n] # c
    /\ client' \in [Clients -> Client]
    /\ client'[c].state = "closed"
    /\ client'[c].replies =
           IF c \in replied THEN client[c].replies + 1 ELSE client[c].replies
    /\ \A x \in Clients : x # c =>
          client'[x].state = client[x].state /\ client'[x].replies = client[x].replies
    /\ FewMisuses'

\* A descriptor is closed by who may close it.
LEMMA Closing ==
    ASSUME IndInv, NEW c \in Clients, NEW fd \in Fds, files[fd] = c, NEW replied,
           CloseConn(fd, c, replied)
    PROVE  Closes(fd, c, replied)
<1>1. FileAt(fd) = c /\ c # Listener /\ c # Closed
  BY DEF FileAt, Listener, Closed
<1>2. /\ files' = ClosedFile(fd)
      /\ client' = Told(replied \intersect {c}, {c})
      /\ FewMisuses'
  <2>1. Refused(fd) = {c}
    BY <1>1 DEF Refused
  <2>2. FewMisuses'
    BY <1>1 DEF CloseConn, Stray, IndInv, FewMisuses
  <2> QED  BY <1>1, <2>1, <2>2 DEF CloseConn
<1>3. \A n \in Fds : n # fd => files[n] # c
  BY <1>1, OneFile
<1>4. /\ client' \in [Clients -> Client]
      /\ client'[c].state = "closed"
      /\ client'[c].replies =
             IF c \in replied THEN client[c].replies + 1 ELSE client[c].replies
      /\ \A x \in Clients : x # c =>
            client'[x].state = client[x].state /\ client'[x].replies = client[x].replies
  <2> DEFINE r == replied \intersect {c}
  <2>1. client' = Told(r, {c})
    BY <1>2
  <2> HIDE DEF r
  <2>2. /\ client' \in [Clients -> Client]
        /\ \A x \in Clients :
              /\ client'[x].state = IF x \in {c} THEN "closed" ELSE client[x].state
              /\ client'[x].replies =
                     IF x \in r THEN client[x].replies + 1 ELSE client[x].replies
    BY <2>1, ToldClients
  <2> QED  BY <2>2 DEF r
<1>5. /\ FilesType(files')
      /\ files'[fd] = Closed
      /\ \A n \in Fds : n # fd => files'[n] = files[n]
  BY <1>2 DEF ClosedFile, IndInv, TypeOK, FilesType, Files, Closed, Other
<1> QED  BY <1>2, <1>3, <1>4, <1>5 DEF Closes

\* The listening socket, or one that is closed already, is closed; clients that
\* wait to be accepted are refused.
Unlistens(fd) ==
    /\ FilesType(files')
    /\ \A n \in Fds : files'[n] = IF n = fd THEN Closed ELSE files[n]
    /\ \A n \in Fds : files[n] \in Clients => files'[n] = files[n]
    /\ client' \in [Clients -> Client]
    /\ \A x \in Clients :
          /\ \/ client'[x].state = client[x].state
             \/ client[x].state = "pending" /\ client'[x].state = "closed"
          /\ client'[x].replies = client[x].replies

\* Closing what is not the descriptor of a client.
LEMMA Unlistening ==
    ASSUME IndInv, NEW fd \in Sockets, fd \in Fds => files[fd] \in {Listener, Closed},
           files' = ClosedFile(fd), client' = Told({}, Refused(fd))
    PROVE  Unlistens(fd)
<1>1. FilesType(files')
      /\ \A n \in Fds : files'[n] = IF n = fd THEN Closed ELSE files[n]
  BY FdsAre DEF ClosedFile, IndInv, TypeOK, FilesType, Files, Closed, Listener, Other
<1>2. \A x \in Clients : x \in Refused(fd) => client[x].state = "pending"
  BY DEF Refused, FileAt, Closed
<1>3. /\ client' \in [Clients -> Client]
      /\ \A x \in Clients :
           /\ client'[x].state = IF x \in Refused(fd) THEN "closed" ELSE client[x].state
           /\ client'[x].replies = client[x].replies
  BY ToldClients
<1>4. \A n \in Fds : files[n] \in Clients => files'[n] = files[n]
  BY <1>1 DEF Listener
<1> QED  BY <1>1, <1>2, <1>3, <1>4 DEF Unlistens

\* Connections are freed: their sockets and nothing else are closed.
Frees(gone) ==
    /\ gone \in SUBSET DOMAIN conns
    /\ \A c \in gone : ~ Cleared(c)
    /\ FilesType(files')
    /\ \A fd \in Fds : files'[fd] =
           IF \E c \in gone : conns[c].sock = fd THEN Closed ELSE files[fd]
    /\ client' \in [Clients -> Client]
    /\ \A x \in Clients :
          /\ client'[x].state = IF x \in gone /\ conns[x].sock # Invalid
                                THEN "closed" ELSE client[x].state
          /\ client'[x].replies = client[x].replies
    /\ FewMisuses'

\* A connection with a valid socket frees the descriptor of its own client, unless
\* the server thread just closed it.
LEMMA Freeing ==
    ASSUME IndInv, NEW gone \in SUBSET DOMAIN conns, FreeConns(gone),
           "preflight" \notin misuse'
    PROVE  Frees(gone)
<1>1. ASSUME NEW c \in gone, conns[c].sock # Invalid
      PROVE  Stray(conns[c].sock, c) \subseteq misuse'
  BY <1>1 DEF FreeConns
<1>2. ASSUME NEW c \in gone
      PROVE  ~ Cleared(c)
  <2> SUFFICES ASSUME Cleared(c)
               PROVE  FALSE
    OBVIOUS
  <2>1. server.pc = "preflight_clear" /\ server.conn = c
    BY DEF Cleared, Server
  <2>2. conns[c].sock \in Fds /\ conns[c].sock # Invalid
    BY <2>1, FdsAre DEF IndInv, ServerPlace, Busy, IsAlive
  <2>3. FileAt(conns[c].sock) # c
    BY <2>2 DEF IndInv, ConnPlace, FileOf, FileAt, TypeOK, Closed
  <2>4. PurgedWhileAnswered(c)
    BY <2>1 DEF PurgedWhileAnswered
  <2> QED  BY <1>1, <2>2, <2>3, <2>4 DEF Stray
<1>3. ASSUME NEW c \in gone, conns[c].sock # Invalid
      PROVE  conns[c].sock \in Fds /\ files[conns[c].sock] = c
  BY <1>2, <1>3, ConnOf DEF FileOf
<1>4. /\ FilesType(files')
      /\ \A fd \in Fds : files'[fd] =
             IF \E c \in gone : conns[c].sock = fd THEN Closed ELSE files[fd]
  <2>1. files \in [Fds -> Files] /\ \A fd \in Fds : files[fd] = Other <=> fd = Zeroed
    BY DEF IndInv, TypeOK, FilesType
  <2>2. /\ files' \in [Fds -> Files]
        /\ \A fd \in Fds : files'[fd] =
               IF \E c \in gone : conns[c].sock = fd THEN Closed ELSE files[fd]
    BY <2>1 DEF FreeConns, PurgedFiles, Files
  <2>3. \A c \in gone : conns[c].sock # Zeroed
    BY <1>3, <2>1, FdsAre DEF IndInv, TypeOK, Invalid, Zeroed, Other
  <2> QED  BY <2>1, <2>2, <2>3 DEF FilesType, Closed, Other
<1>5. /\ client' \in [Clients -> Client]
      /\ \A x \in Clients :
           /\ client'[x].state = IF x \in gone /\ conns[x].sock # Invalid
                                 THEN "closed" ELSE client[x].state
           /\ client'[x].replies = client[x].replies
  BY ToldClients DEF FreeConns
<1>6. FewMisuses'
  <2>1. \A c \in {x \in gone : conns[x].sock # Invalid} : Stray(conns[c].sock, c) = {}
    BY <1>3 DEF Stray, FileAt
  <2>2. misuse' = misuse
    BY <2>1 DEF FreeConns
  <2> QED  BY <2>2 DEF IndInv, FewMisuses
<1> QED  BY <1>2, <1>4, <1>5, <1>6 DEF Frees

\* The socket of a connection goes to the send queue.
Posts(c) ==
    /\ should_run
    /\ queue' \in QueueState
    /\ queue.head \in Slots /\ queue.head \notin InQueue
    /\ InQueue' = InQueue \union {queue.head}
    /\ queue'.slots[queue.head].sock = conns[c].sock
    /\ queue'.slots[queue.head].conn = c
    /\ \A n \in InQueue : queue'.slots[n] = queue.slots[n]
    /\ UNCHANGED <<files, client, misuse>>

\* A reply is posted, or it is sent at once and the socket is closed.
LEMMA Replying ==
    ASSUME IndInv, NEW c \in DOMAIN conns, conns[c].sock # Invalid, ~ Cleared(c),
           SendReply(c)
    PROVE  \/ Posts(c)
           \/ Closes(conns[c].sock, c, {c}) /\ UNCHANGED queue
<1>1. c \in Clients /\ conns[c].sock \in Fds /\ files[conns[c].sock] = c
  BY ConnOf DEF FileOf
<1>2. CASE PostAccepted /\ queue' = Post(c) /\ UNCHANGED <<files, client, misuse>>
  <2> DEFINE m == [sock |-> conns[c].sock, conn |-> c]
             h == queue.head
  <2>1. queue \in QueueState /\ h \in Slots /\ queue.tail \in Slots
    BY DEF IndInv, TypeOK, QueueState
  <2>2. m \in Slot
    BY <1>1 DEF Slot, Sockets
  <2>3. NextSlot(h) \in Slots /\ NextSlot(h) # queue.tail /\ should_run
    BY <1>2, <2>1, NextSlotIs DEF PostAccepted
  <2>4. queue' = [queue EXCEPT !.slots[h] = m, !.head = NextSlot(h)]
    BY <1>2 DEF Post
  <2>5. m.sock = conns[c].sock /\ m.conn = c
    OBVIOUS
  <2> HIDE DEF m
  <2>6. queue' \in QueueState
    BY <2>1, <2>2, <2>3, <2>4 DEF QueueState
  <2>7. queue'.head = NextSlot(h) /\ queue'.tail = queue.tail
        /\ queue'.slots = [queue.slots EXCEPT ![h] = m]
    BY <2>1, <2>4
  <2>8. queue'.slots[h] = m /\ \A n \in Slots : n # h
            => queue'.slots[n] = queue.slots[n]
    BY <2>1, <2>7 DEF QueueState
  <2>9. InQueue' = InQueue \union {h} /\ h \notin InQueue
    BY <2>1, <2>3, <2>7, PostSlot DEF InQueue
  <2>10. InQueue \subseteq Slots
    BY DEF InQueue, Between
  <2> QED  BY <1>2, <2>1, <2>3, <2>5, <2>6, <2>8, <2>9, <2>10 DEF Posts
<1>3. CASE CloseConn(conns[c].sock, c, {c}) /\ UNCHANGED queue
  BY <1>1, <1>3, Closing
<1> QED  BY <1>2, <1>3 DEF SendReply

\* The socket is taken out of a connection.
CutSocket(c) ==
    /\ c \in DOMAIN conns
    /\ DOMAIN conns' = DOMAIN conns
    /\ conns' \in [DOMAIN conns' -> Connection]
    /\ conns'[c].sock = Invalid
    /\ \A x \in DOMAIN conns : x # c => conns'[x] = conns[x]

\* The field sock of one connection is set to HTTP_SOCKET_INVALID.
LEMMA CuttingSocket ==
    ASSUME IndInv, NEW c \in DOMAIN conns,
           conns' = [x \in DOMAIN conns |->
                        IF x = c THEN [conns[x] EXCEPT !.sock = Invalid] ELSE conns[x]]
    PROVE  CutSocket(c)
<1>1. \A x \in DOMAIN conns : conns[x] \in Connection
  BY DEF IndInv, TypeOK
<1>2. [conns[c] EXCEPT !.sock = Invalid] \in Connection
      /\ [conns[c] EXCEPT !.sock = Invalid].sock = Invalid
  BY <1>1 DEF Connection, Sockets
<1> QED  BY <1>1, <1>2 DEF CutSocket
-----------------------------------------------------------------------------
(***************************************************************************)
(* The invariant holds initially and every step of every thread keeps it.  *)
(***************************************************************************)
\* The server thread could not listen: it ends.
LEMMA ServerListenFailsInv ==
    ASSUME IndInv, ServerListenFails
    PROVE  IndInv'
<1>1. /\ server.pc = "init" /\ server'.pc = "exited"
      /\ server'.conn = server.conn /\ server'.sock = server.sock
         /\ server'.lsock = server.lsock
      /\ UNCHANGED <<files, lock, should_run, sock, conns, requests, cache, queue,
                     sender, main, client, misuse>>
  BY DEF IndInv, ServerListenFails, ServerGo, Server
<1>2. TypeOK'
  <2>1. server' \in ServerState
    BY DEF IndInv, TypeOK, ServerState, ServerLabels, ServerListenFails,
           ServerGo
  <2> QED  BY <1>1, <2>1 DEF IndInv, TypeOK
<1>3. ThreadsPlace'
  BY <1>1 DEF IndInv, ThreadsPlace
<1>4. ListenPlace'
  BY <1>1 DEF IndInv, ListenPlace
<1>5. ServerPlace'
  BY <1>1 DEF IndInv, ServerPlace, Busy, IsAlive
<1>6. FilesPlace'
  BY <1>1 DEF IndInv, FilesPlace, Owned, InQueue, FileOf, Cleared, Server
<1>7. RepliesPlace'
  BY <1>1 DEF IndInv, RepliesPlace
<1>8. ConnPlace' /\ QueuePlace' /\ SenderPlace' /\ RequestPlace' /\ FewMisuses'
  BY <1>1
     DEF IndInv, ConnPlace, QueuePlace, InQueue, SenderPlace, RequestPlace, FileOf,
         Cleared, Server, FewMisuses
<1> QED  BY <1>2, <1>3, <1>4, <1>5, <1>6, <1>7, <1>8 DEF IndInv

\* The condition of the loop of the server thread.
LEMMA ServerLoopInv ==
    ASSUME IndInv, ServerLoop
    PROVE  IndInv'
<1>1. /\ server.pc = "loop" /\ server'.pc = (IF should_run THEN "accept" ELSE "done")
      /\ server'.conn = server.conn /\ server'.sock = server.sock
         /\ server'.lsock = server.lsock
      /\ UNCHANGED <<files, lock, should_run, sock, conns, requests, cache, queue,
                     sender, main, client, misuse>>
  BY DEF IndInv, ServerLoop, ServerGo, Server
<1>2. TypeOK'
  <2>1. server' \in ServerState
    BY DEF IndInv, TypeOK, ServerState, ServerLabels, ServerLoop, ServerGo
  <2> QED  BY <1>1, <2>1 DEF IndInv, TypeOK
<1>3. ThreadsPlace'
  BY <1>1 DEF IndInv, ThreadsPlace
<1>4. ListenPlace'
  BY <1>1 DEF IndInv, ListenPlace
<1>5. ServerPlace'
  BY <1>1 DEF IndInv, ServerPlace, Busy, IsAlive
<1>6. FilesPlace'
  BY <1>1 DEF IndInv, FilesPlace, Owned, InQueue, FileOf, Cleared, Server
<1>7. RepliesPlace'
  BY <1>1 DEF IndInv, RepliesPlace
<1>8. ConnPlace' /\ QueuePlace' /\ SenderPlace' /\ RequestPlace' /\ FewMisuses'
  BY <1>1
     DEF IndInv, ConnPlace, QueuePlace, InQueue, SenderPlace, RequestPlace, FileOf,
         Cleared, Server, FewMisuses
<1> QED  BY <1>2, <1>3, <1>4, <1>5, <1>6, <1>7, <1>8 DEF IndInv

\* Nobody was accepted.
LEMMA AcceptFailsInv ==
    ASSUME IndInv, AcceptFails
    PROVE  IndInv'
<1>1. /\ server.pc = "accept" /\ server'.pc = "loop"
      /\ server'.conn = server.conn /\ server'.sock = server.sock
         /\ server'.lsock = server.lsock
      /\ UNCHANGED <<files, lock, should_run, sock, conns, requests, cache, queue,
                     sender, main, client, misuse>>
  BY DEF IndInv, AcceptFails, Server
<1>2. TypeOK'
  <2>1. server' \in ServerState
    <3>1. PICK ebadf \in BOOLEAN : server' = [server EXCEPT !.pc = "loop", !.ebadf = ebadf]
      BY DEF AcceptFails
    <3> QED  BY <3>1 DEF IndInv, TypeOK, ServerState, ServerLabels
  <2> QED  BY <1>1, <2>1 DEF IndInv, TypeOK
<1>3. ThreadsPlace'
  BY <1>1 DEF IndInv, ThreadsPlace
<1>4. ListenPlace'
  BY <1>1 DEF IndInv, ListenPlace
<1>5. ServerPlace'
  BY <1>1 DEF IndInv, ServerPlace, Busy, IsAlive
<1>6. FilesPlace'
  BY <1>1 DEF IndInv, FilesPlace, Owned, InQueue, FileOf, Cleared, Server
<1>7. RepliesPlace'
  BY <1>1 DEF IndInv, RepliesPlace
<1>8. ConnPlace' /\ QueuePlace' /\ SenderPlace' /\ RequestPlace' /\ FewMisuses'
  BY <1>1
     DEF IndInv, ConnPlace, QueuePlace, InQueue, SenderPlace, RequestPlace, FileOf,
         Cleared, Server, FewMisuses
<1> QED  BY <1>2, <1>3, <1>4, <1>5, <1>6, <1>7, <1>8 DEF IndInv

\* A message is read; a client that hung up leaves its connection to be purged.
LEMMA RecvInv ==
    ASSUME IndInv, Recv
    PROVE  IndInv'
<1>1. /\ server.pc = "recv" /\ server'.pc \in {"recv", "received", "giveup", "loop"}
      /\ server'.pc # "loop" => server'.conn = server.conn /\ server'.sock = server.sock
      /\ server'.lsock = server.lsock
      /\ server' \in ServerState
      /\ client' \in [Clients -> Client]
      /\ \A c \in Clients : client'[c].state = client[c].state
         /\ client'[c].replies = client[c].replies
      /\ UNCHANGED <<files, lock, should_run, sock, conns, requests, cache, queue,
                     sender, main, misuse>>
  <2> DEFINE s == server.conn
  <2>1. server.pc = "recv" /\ s \in Clients /\ client[s] \in Client
    BY DEF IndInv, TypeOK, ServerPlace, Busy, Recv, Server
  <2>2. \/ /\ server' = [server EXCEPT !.pc = "received", !.data = client[s].message]
           /\ client' = [client EXCEPT ![s].message = "none"]
        \/ server' = NextAccept /\ UNCHANGED client
        \/ /\ server' = [server EXCEPT
                 !.retries = server.retries + 1,
                 !.pc = IF server.retries + 1 < RecvRetries THEN "recv" ELSE "giveup"]
           /\ UNCHANGED client
    BY DEF Recv
  <2>3. UNCHANGED <<files, lock, should_run, sock, conns, requests, cache, queue,
                    sender, main, misuse>>
    BY DEF Recv
  <2>4. CASE /\ server' = [server EXCEPT !.pc = "received", !.data = client[s].message]
             /\ client' = [client EXCEPT ![s].message = "none"]
    <3>1. server' \in ServerState /\ server'.pc = "received"
          /\ server'.conn = server.conn /\ server'.sock = server.sock
             /\ server'.lsock = server.lsock
      BY <2>1, <2>4 DEF IndInv, TypeOK, ServerState, ServerLabels, Client
    <3>2. client' \in [Clients -> Client]
      BY <2>1, <2>4 DEF IndInv, TypeOK, Client
    <3>3. \A c \in Clients : client'[c].state = client[c].state
          /\ client'[c].replies = client[c].replies
      BY <2>1, <2>4 DEF IndInv
    <3> QED  BY <2>1, <2>3, <3>1, <3>2, <3>3
  <2>5. CASE server' = NextAccept /\ UNCHANGED client
    BY <2>1, <2>3, <2>5
       DEF IndInv, TypeOK, ServerState, ServerLabels, NextAccept, Sockets
  <2>6. CASE /\ server' = [server EXCEPT
                   !.retries = server.retries + 1,
                   !.pc = IF server.retries + 1 < RecvRetries THEN "recv" ELSE "giveup"]
             /\ UNCHANGED client
    <3> DEFINE p == IF server.retries + 1 < RecvRetries THEN "recv" ELSE "giveup"
               r == server.retries + 1
    <3>1. p \in {"recv", "giveup"} /\ r \in Nat
      BY DEF IndInv, TypeOK, ServerState
    <3>2. server' = [server EXCEPT !.retries = r, !.pc = p]
      BY <2>6
    <3> HIDE DEF p, r
    <3>3. server \in ServerState
      BY DEF IndInv, TypeOK
    <3>4. server' \in ServerState
      BY <3>1, <3>2, <3>3 DEF ServerState, ServerLabels
    <3>5. server'.pc = p /\ server'.conn = server.conn
          /\ server'.sock = server.sock /\ server'.lsock = server.lsock
      BY <3>2, <3>3
    <3> QED  BY <2>1, <2>3, <2>6, <3>1, <3>4, <3>5 DEF IndInv, TypeOK
  <2> QED  BY <2>2, <2>4, <2>5, <2>6
<1>2. TypeOK'
  BY <1>1 DEF IndInv, TypeOK
<1>3. ThreadsPlace'
  BY <1>1 DEF IndInv, ThreadsPlace
<1>4. ListenPlace'
  BY <1>1 DEF IndInv, ListenPlace
<1>5. ConnPlace'
  BY <1>1 DEF IndInv, ConnPlace, TypeOK, FileOf, Cleared, Server
<1>6. ServerPlace'
  BY <1>1 DEF IndInv, ServerPlace, InQueue, Busy, IsAlive
<1>7. FilesPlace'
  BY <1>1 DEF IndInv, FilesPlace, Owned, InQueue, FileOf, Cleared, Server
<1>8. RepliesPlace'
  BY <1>1 DEF IndInv, RepliesPlace
<1>9. QueuePlace' /\ SenderPlace' /\ RequestPlace' /\ FewMisuses'
  BY <1>1 DEF IndInv, QueuePlace, InQueue, SenderPlace, RequestPlace, FewMisuses
<1> QED  BY <1>2, <1>3, <1>4, <1>5, <1>6, <1>7, <1>8, <1>9 DEF IndInv

\* A message was received.
LEMMA ParseInv ==
    ASSUME IndInv, Parse
    PROVE  IndInv'
<1>1. /\ server.pc = "received" /\ server'.pc \in {"loop", "preflight", "enqueue"}
      /\ server'.pc # "loop" => server'.conn = server.conn /\ server'.sock = server.sock
      /\ server'.lsock = server.lsock
      /\ server'.pc = "preflight" => IsAlive
      /\ UNCHANGED <<files, lock, should_run, sock, conns, requests, cache, queue,
                     sender, main, client, misuse>>
  BY DEF IndInv, Parse, Server, NextAccept
<1>2. TypeOK'
  <2>1. server' \in ServerState
    <3>1. \/ server' = NextAccept
          \/ \E pc \in {"preflight", "enqueue"} : server' = [server EXCEPT !.pc = pc]
      BY DEF Parse
    <3>2. NextAccept \in ServerState
      BY DEF IndInv, TypeOK, ServerState, ServerLabels, NextAccept, Sockets
    <3>3. \A pc \in {"preflight", "enqueue"} : [server EXCEPT !.pc = pc] \in ServerState
      BY DEF IndInv, TypeOK, ServerState, ServerLabels
    <3> QED  BY <3>1, <3>2, <3>3
  <2> QED  BY <1>1, <2>1 DEF IndInv, TypeOK
<1>3. ThreadsPlace'
  BY <1>1 DEF IndInv, ThreadsPlace
<1>4. ListenPlace'
  BY <1>1 DEF IndInv, ListenPlace
<1>5. ServerPlace'
  BY <1>1 DEF IndInv, ServerPlace, InQueue, Busy, IsAlive
<1>6. FilesPlace'
  BY <1>1 DEF IndInv, FilesPlace, Owned, InQueue, FileOf, Cleared, Server
<1>7. RepliesPlace'
  BY <1>1 DEF IndInv, RepliesPlace
<1>8. ConnPlace' /\ QueuePlace' /\ SenderPlace' /\ RequestPlace' /\ FewMisuses'
  BY <1>1
     DEF IndInv, ConnPlace, QueuePlace, InQueue, SenderPlace, RequestPlace, FileOf,
         Cleared, Server, FewMisuses
<1> QED  BY <1>2, <1>3, <1>4, <1>5, <1>6, <1>7, <1>8 DEF IndInv

\* The request is not valid, or its connection was purged.
LEMMA EnqueueIgnoredInv ==
    ASSUME IndInv, EnqueueIgnored
    PROVE  IndInv'
<1>1. /\ server.pc = "enqueue" /\ server'.pc = "loop"
      /\ server'.lsock = server.lsock
      /\ UNCHANGED <<files, lock, should_run, sock, conns, requests, cache, queue,
                     sender, main, client, misuse>>
  BY DEF IndInv, EnqueueIgnored, Server, NextAccept
<1>2. TypeOK'
  <2>1. server' \in ServerState
    BY DEF IndInv, TypeOK, ServerState, ServerLabels, EnqueueIgnored,
           NextAccept, Sockets
  <2> QED  BY <1>1, <2>1 DEF IndInv, TypeOK
<1>3. ThreadsPlace'
  BY <1>1 DEF IndInv, ThreadsPlace
<1>4. ListenPlace'
  BY <1>1 DEF IndInv, ListenPlace
<1>5. ServerPlace'
  BY <1>1 DEF IndInv, ServerPlace, Busy, IsAlive
<1>6. FilesPlace'
  BY <1>1 DEF IndInv, FilesPlace, Owned, InQueue, FileOf, Cleared, Server
<1>7. RepliesPlace'
  BY <1>1 DEF IndInv, RepliesPlace
<1>8. ConnPlace' /\ QueuePlace' /\ SenderPlace' /\ RequestPlace' /\ FewMisuses'
  BY <1>1
     DEF IndInv, ConnPlace, QueuePlace, InQueue, SenderPlace, RequestPlace, FileOf,
         Cleared, Server, FewMisuses
<1> QED  BY <1>2, <1>3, <1>4, <1>5, <1>6, <1>7, <1>8 DEF IndInv

\* The condition of the loop of the send thread.
LEMMA SenderTestInv ==
    ASSUME IndInv, SenderTest
    PROVE  IndInv'
<1>1. /\ sender.pc = "test" /\
         sender'.pc = (IF should_run \/ queue.head # queue.tail THEN "get" ELSE "exited")
      /\ UNCHANGED <<files, lock, should_run, sock, conns, requests, cache, queue,
                     server, main, client, misuse>>
  BY DEF IndInv, SenderState, QueueState, SenderTest, SenderUnchanged,
         SenderContinues
<1>2. TypeOK'
  <2>1. sender' \in SenderState
    BY DEF IndInv, TypeOK, SenderTest, SenderState
  <2> QED  BY <1>1, <2>1 DEF IndInv, TypeOK
<1>3. ThreadsPlace'
  BY <1>1 DEF IndInv, ThreadsPlace
<1>4. SenderPlace'
  BY <1>1 DEF IndInv, SenderPlace
<1>5. ServerPlace'
  BY <1>1 DEF IndInv, ServerPlace, InQueue, IsAlive
<1>6. FilesPlace'
  BY <1>1 DEF IndInv, FilesPlace, Owned, InQueue, FileOf, Cleared, Server
<1>7. ListenPlace' /\ ConnPlace' /\ QueuePlace' /\ RequestPlace' /\ RepliesPlace'
      /\ FewMisuses'
  BY <1>1
     DEF IndInv, ListenPlace, ConnPlace, QueuePlace, InQueue, RequestPlace,
         RepliesPlace, FileOf, Cleared, Server, FewMisuses
<1> QED  BY <1>2, <1>3, <1>4, <1>5, <1>6, <1>7 DEF IndInv

\* Both threads are started.
LEMMA StartInv ==
    ASSUME IndInv, Start
    PROVE  IndInv'
<1>1. /\ main.pc = "stopped" /\ main'.pc = "running" /\ should_run' = TRUE
      /\ server.pc = "exited" /\ server'.pc = "init"
      /\ server'.conn = server.conn /\ server'.sock = server.sock
         /\ server'.lsock = server.lsock
      /\ sender.pc = "exited" /\ sender'.pc = "test"
      /\ UNCHANGED <<files, lock, sock, conns, requests, cache, queue, client, misuse>>
  BY DEF IndInv, Start, Main, ThreadsPlace
<1>2. TypeOK'
  <2>1. server' \in ServerState
    BY DEF IndInv, TypeOK, ServerState, ServerLabels, Start
  <2>2. sender' \in SenderState
    BY DEF IndInv, TypeOK, Start, SenderState
  <2>3. main' \in MainState
    BY DEF IndInv, TypeOK, Start, MainState
  <2> QED  BY <1>1, <2>1, <2>2, <2>3 DEF IndInv, TypeOK
<1>3. ThreadsPlace'
  BY <1>1 DEF IndInv, ThreadsPlace
<1>4. ListenPlace'
  BY <1>1 DEF IndInv, ListenPlace
<1>5. SenderPlace'
  BY <1>1 DEF IndInv, SenderPlace
<1>6. ServerPlace'
  BY <1>1 DEF IndInv, ServerPlace, Busy, IsAlive
<1>7. FilesPlace'
  BY <1>1 DEF IndInv, FilesPlace, Owned, InQueue, FileOf, Cleared, Server
<1>8. RepliesPlace'
  BY <1>1 DEF IndInv, RepliesPlace
<1>9. ConnPlace' /\ QueuePlace' /\ RequestPlace' /\ FewMisuses'
  BY <1>1
     DEF IndInv, ConnPlace, QueuePlace, InQueue, RequestPlace, FileOf, Cleared,
         Server, FewMisuses
<1> QED  BY <1>2, <1>3, <1>4, <1>5, <1>6, <1>7, <1>8, <1>9 DEF IndInv

\* The main thread takes the mutex.
LEMMA DequeueInv ==
    ASSUME IndInv, Dequeue
    PROVE  IndInv'
<1>1. /\ lock = "free" /\ lock' = "main"
      /\ main.pc = "running" /\ main'.pc = "dequeue"
      /\ UNCHANGED <<files, should_run, sock, conns, requests, cache, queue, server,
                     sender, client, misuse>>
  BY DEF IndInv, Dequeue, Main, MainGo
<1>2. TypeOK'
  <2>1. main' \in MainState
    BY DEF IndInv, TypeOK, Dequeue, MainGo, MainState
  <2> QED  BY <1>1, <2>1 DEF IndInv, TypeOK
<1>3. ThreadsPlace'
  BY <1>1 DEF IndInv, ThreadsPlace
<1>4. ListenPlace' /\ ConnPlace' /\ QueuePlace' /\ SenderPlace' /\ ServerPlace'
      /\ RequestPlace' /\ FilesPlace' /\ RepliesPlace' /\ FewMisuses'
  BY <1>1
     DEF IndInv, ListenPlace, ConnPlace, QueuePlace, InQueue, SenderPlace,
         ServerPlace, IsAlive, RequestPlace, FilesPlace, Owned, RepliesPlace, FileOf,
         Cleared, Server, FewMisuses
<1> QED  BY <1>2, <1>3, <1>4 DEF IndInv

\* The server thread has ended.
LEMMA JoinServerInv ==
    ASSUME IndInv, JoinServer
    PROVE  IndInv'
<1>1. /\ server.pc = "exited"
      /\ main.pc = "join_server" /\ main'.pc = "join_sender"
      /\ UNCHANGED <<files, lock, should_run, sock, conns, requests, cache, queue,
                     server, sender, client, misuse>>
  BY DEF IndInv, JoinServer, Main, MainGo, Server
<1>2. TypeOK'
  <2>1. main' \in MainState
    BY DEF IndInv, TypeOK, JoinServer, MainGo, MainState
  <2> QED  BY <1>1, <2>1 DEF IndInv, TypeOK
<1>3. ThreadsPlace'
  BY <1>1 DEF IndInv, ThreadsPlace
<1>4. ListenPlace' /\ ConnPlace' /\ QueuePlace' /\ SenderPlace' /\ ServerPlace'
      /\ RequestPlace' /\ FilesPlace' /\ RepliesPlace' /\ FewMisuses'
  BY <1>1
     DEF IndInv, ListenPlace, ConnPlace, QueuePlace, InQueue, SenderPlace,
         ServerPlace, IsAlive, RequestPlace, FilesPlace, Owned, RepliesPlace, FileOf,
         Cleared, Server, FewMisuses
<1> QED  BY <1>2, <1>3, <1>4 DEF IndInv

\* A request of the application.
LEMMA EmulatedRequestInv ==
    ASSUME IndInv, EmulatedRequest
    PROVE  IndInv'
<1>1. /\ cache' = TRUE
      /\ UNCHANGED <<files, lock, should_run, sock, conns, requests, queue, server,
                     sender, main, client, misuse>>
  BY DEF IndInv, EmulatedRequest
<1>2. TypeOK'
  BY <1>1 DEF IndInv, TypeOK
<1>3. ThreadsPlace' /\ ListenPlace' /\ ConnPlace' /\ QueuePlace' /\ SenderPlace'
      /\ ServerPlace' /\ RequestPlace' /\ FilesPlace' /\ RepliesPlace' /\ FewMisuses'
  BY <1>1
     DEF IndInv, ThreadsPlace, ListenPlace, ConnPlace, QueuePlace, InQueue,
         SenderPlace, ServerPlace, IsAlive, RequestPlace, FilesPlace, Owned,
         RepliesPlace, FileOf, Cleared, Server, FewMisuses
<1> QED  BY <1>2, <1>3 DEF IndInv

\* The reply in the cache gets too old.
LEMMA CacheExpiresInv ==
    ASSUME IndInv, CacheExpires
    PROVE  IndInv'
<1>1. /\ cache' = FALSE
      /\ UNCHANGED <<files, lock, should_run, sock, conns, requests, queue, server,
                     sender, main, client, misuse>>
  BY DEF CacheExpires
<1>2. TypeOK'
  BY <1>1 DEF IndInv, TypeOK
<1>3. ThreadsPlace' /\ ListenPlace' /\ ConnPlace' /\ QueuePlace' /\ SenderPlace'
      /\ ServerPlace' /\ RequestPlace' /\ FilesPlace' /\ RepliesPlace' /\ FewMisuses'
  BY <1>1
     DEF IndInv, ThreadsPlace, ListenPlace, ConnPlace, QueuePlace, InQueue,
         SenderPlace, ServerPlace, IsAlive, RequestPlace, FilesPlace, Owned,
         RepliesPlace, FileOf, Cleared, Server, FewMisuses
<1> QED  BY <1>2, <1>3 DEF IndInv

\* A client connects to the listening socket.
LEMMA ConnectInv ==
    ASSUME IndInv, NEW c \in Clients, Connect(c)
    PROVE  IndInv'
<1>1. /\ client[c].state = "idle" /\ client'[c].state = "pending"
      /\ client'[c].replies = client[c].replies
      /\ \A x \in Clients : x # c => client'[x] = client[x]
      /\ UNCHANGED <<files, lock, should_run, sock, conns, requests, cache, queue,
                     server, sender, main, misuse>>
  BY DEF IndInv, TypeOK, Connect
<1>2. TypeOK'
  <2>1. client' \in [Clients -> Client]
    <3>1. client[c] \in Client
      BY DEF IndInv, TypeOK
    <3>2. [client[c] EXCEPT !.state = "pending"] \in Client
      BY <3>1 DEF Client
    <3> QED  BY <3>2 DEF IndInv, TypeOK, Connect
  <2> QED  BY <1>1, <2>1 DEF IndInv, TypeOK
<1>3. ConnPlace'
  BY <1>1 DEF IndInv, ConnPlace, TypeOK, FileOf, Cleared, Server
<1>4. ServerPlace'
  BY <1>1 DEF IndInv, ServerPlace, InQueue, Busy, IsAlive
<1>5. FilesPlace'
  <2>1. \A fd \in Fds : Owned(fd) => Owned(fd)'
    BY <1>1 DEF Owned, InQueue, Cleared, Server
  <2> QED  BY <1>1, <2>1 DEF IndInv, FilesPlace
<1>6. RepliesPlace'
  BY <1>1 DEF IndInv, RepliesPlace
<1>7. ThreadsPlace' /\ ListenPlace' /\ QueuePlace' /\ SenderPlace'
      /\ RequestPlace' /\ FewMisuses'
  BY <1>1
     DEF IndInv, ThreadsPlace, ListenPlace, QueuePlace, InQueue, SenderPlace,
         RequestPlace, FewMisuses
<1> QED  BY <1>2, <1>3, <1>4, <1>5, <1>6, <1>7 DEF IndInv

\* A client sends its message.
LEMMA SendInv ==
    ASSUME IndInv, NEW c \in Clients, Send(c)
    PROVE  IndInv'
<1>1. /\ \A x \in Clients : client'[x].state = client[x].state
         /\ client'[x].replies = client[x].replies
      /\ UNCHANGED <<files, lock, should_run, sock, conns, requests, cache, queue,
                     server, sender, main, misuse>>
  BY DEF IndInv, TypeOK, Send
<1>2. TypeOK'
  <2>1. client' \in [Clients -> Client]
    <3>1. PICK m \in Messages :
             client' = [client EXCEPT ![c].message = m, ![c].sent = TRUE]
      BY DEF Send
    <3>2. client[c] \in Client
      BY DEF IndInv, TypeOK
    <3>3. [client[c] EXCEPT !.message = m, !.sent = TRUE] \in Client
      BY <3>2 DEF Client
    <3> QED  BY <3>1, <3>3 DEF IndInv, TypeOK
  <2> QED  BY <1>1, <2>1 DEF IndInv, TypeOK
<1>3. ConnPlace'
  BY <1>1 DEF IndInv, ConnPlace, TypeOK, FileOf, Cleared, Server
<1>4. ServerPlace'
  BY <1>1 DEF IndInv, ServerPlace, InQueue, Busy, IsAlive
<1>5. FilesPlace'
  BY <1>1 DEF IndInv, FilesPlace, Owned, InQueue, FileOf, Cleared, Server
<1>6. RepliesPlace'
  BY <1>1 DEF IndInv, RepliesPlace
<1>7. ThreadsPlace' /\ ListenPlace' /\ QueuePlace' /\ SenderPlace'
      /\ RequestPlace' /\ FewMisuses'
  BY <1>1
     DEF IndInv, ThreadsPlace, ListenPlace, QueuePlace, InQueue, SenderPlace,
         RequestPlace, FewMisuses
<1> QED  BY <1>2, <1>3, <1>4, <1>5, <1>6, <1>7 DEF IndInv

\* The listening socket is opened, unless the server was stopped already.
LEMMA ServerListenInv ==
    ASSUME IndInv, ServerListen
    PROVE  IndInv'
<1>1. /\ server.pc = "init" /\ server'.pc = "loop" /\ server' \in ServerState
      /\ server'.conn = server.conn /\ server'.sock = server.sock
      /\ \/ /\ should_run /\ Opens(FreeFd, Listener)
            /\ sock' = FreeFd /\ server'.lsock = FreeFd
         \/ ~ should_run /\ UNCHANGED <<files, sock>> /\ server'.lsock = Invalid
      /\ UNCHANGED <<lock, should_run, conns, requests, cache, queue, sender, main,
                     client, misuse>>
  <2>1. server.pc = "init" /\ server \in ServerState /\ Invalid \in Sockets
    BY DEF IndInv, TypeOK, ServerListen, Server, Sockets
  <2>2. CASE should_run
    <3>1. \A n \in Fds : files[n] # Listener
      BY <2>1, FdsAre DEF IndInv, ListenPlace
    <3>2. Opens(FreeFd, Listener)
      BY <2>2, <3>1, Opening DEF ServerListen
    <3>3. /\ server' = [server EXCEPT !.pc = "loop", !.lsock = FreeFd]
          /\ FreeFd \in Sockets
      BY <2>2, <3>2 DEF ServerListen, Opens, Sockets
    <3>4. /\ server' \in ServerState /\ server'.pc = "loop" /\ server'.lsock = FreeFd
          /\ server'.conn = server.conn /\ server'.sock = server.sock
      BY <2>1, <3>3 DEF ServerState, ServerLabels
    <3> QED  BY <2>1, <2>2, <3>2, <3>4 DEF ServerListen
  <2>3. CASE ~ should_run
    BY <2>1, <2>3 DEF ServerListen, ServerState, ServerLabels
  <2> QED  BY <2>2, <2>3
<1>2. TypeOK'
  BY <1>1 DEF IndInv, TypeOK, Opens, Sockets
<1>3. ThreadsPlace'
  BY <1>1 DEF IndInv, ThreadsPlace
<1>4. ListenPlace'
  BY <1>1, FdsAre DEF IndInv, ListenPlace, Opens
<1>5. ConnPlace'
  BY <1>1
     DEF IndInv, ConnPlace, TypeOK, Opens, Closed, Connection, Sockets, FileOf,
         Cleared, Server
<1>6. QueuePlace'
  BY <1>1 DEF IndInv, QueuePlace, InQueue, Opens, Closed
<1>7. SenderPlace'
  BY <1>1 DEF IndInv, SenderPlace, InQueue, Opens, Closed
<1>8. ServerPlace'
  BY <1>1 DEF IndInv, ServerPlace, Busy, IsAlive, Opens, Listener
<1>9. FilesPlace'
  BY <1>1
     DEF IndInv, FilesPlace, Owned, InQueue, Opens, Closed, Listener, FileOf, Cleared,
         Server
<1>10. RepliesPlace'
  BY <1>1 DEF IndInv, RepliesPlace
<1>11. RequestPlace' /\ FewMisuses'
  BY <1>1 DEF IndInv, RequestPlace, FewMisuses
<1> QED  BY <1>2, <1>3, <1>4, <1>5, <1>6, <1>7, <1>8, <1>9, <1>10, <1>11
            DEF IndInv

\* A client is accepted; the server thread has its descriptor.
LEMMA AcceptInv ==
    ASSUME IndInv, NEW c \in Clients, Accept(c)
    PROVE  IndInv'
<1>1. /\ server.pc = "accept" /\ server'.pc = "connect" /\ server' \in ServerState
      /\ server'.conn = c /\ server'.sock = FreeFd /\ server'.lsock = server.lsock
      /\ Opens(FreeFd, c) /\ \A n \in Fds : files[n] # c
      /\ sock # Invalid
      /\ client[c].state = "pending" /\ client'[c].state = "open"
      /\ client' \in [Clients -> Client]
      /\ client'[c].replies = client[c].replies
      /\ \A x \in Clients : x # c => client'[x] = client[x]
      /\ UNCHANGED <<lock, should_run, sock, conns, requests, cache, queue, sender,
                     main, misuse>>
  <2>1. server.pc = "accept" /\ server \in ServerState /\ client \in [Clients -> Client]
        /\ client[c].state = "pending" /\ sock # Invalid
    BY FdsAre DEF IndInv, TypeOK, Accept, Server, FileAt, Closed, Listener
  <2>2. \A n \in Fds : files[n] # c
    BY <2>1 DEF IndInv, FilesPlace
  <2>3. Opens(FreeFd, c)
    BY <2>2, Opening DEF Accept
  <2>4. /\ client'[c].state = "open" /\ client'[c].replies = client[c].replies
        /\ client' \in [Clients -> Client]
        /\ \A x \in Clients : x # c => client'[x] = client[x]
    BY <2>1 DEF Accept, Client
  <2>5. /\ server'.pc = "connect" /\ server'.conn = c /\ server'.sock = FreeFd
        /\ server'.lsock = server.lsock /\ server' \in ServerState
    BY <2>1, <2>3 DEF Accept, ServerState, ServerLabels, Opens, Sockets
  <2> QED  BY <2>1, <2>2, <2>3, <2>4, <2>5 DEF Accept
<1>2. TypeOK'
  BY <1>1 DEF IndInv, TypeOK, Opens
<1>3. ThreadsPlace'
  BY <1>1 DEF IndInv, ThreadsPlace
<1>4. ListenPlace'
  BY <1>1, FdsAre
     DEF IndInv, ListenPlace, Opens, Closed, Listener, TypeOK, Connection, Sockets,
         ServerState, FilesType, Files
<1>5. ConnPlace'
  <2> SUFFICES ASSUME NEW x \in DOMAIN conns'
               PROVE  /\ conns'[x].sock # Invalid => files'[conns'[x].sock] = FileOf(x)'
                      /\ client'[x].state \in {"open", "closed"}
    BY DEF ConnPlace
  <2>1. /\ x \in Clients /\ client[x].state \in {"open", "closed"}
        /\ \/ conns[x].sock = Invalid
           \/ conns[x].sock \in Fds /\ files[conns[x].sock] = FileOf(x)
    BY <1>1, ConnOf
  <2>2. FileOf(x)' = x /\ FileOf(x) = x
    BY <1>1 DEF FileOf, Cleared, Server
  <2>3. conns[x].sock = Invalid \/ (conns[x].sock \in Fds /\ files'[conns[x].sock] = x)
    BY <1>1, <2>1, <2>2 DEF Opens, Closed
  <2> QED  BY <1>1, <2>1, <2>2, <2>3
<1>6. QueuePlace'
  BY <1>1 DEF IndInv, QueuePlace, InQueue, Opens, Closed
<1>7. SenderPlace'
  BY <1>1 DEF IndInv, SenderPlace, InQueue, Opens, Closed
<1>8. ServerPlace'
  <2>1. c \notin DOMAIN conns
    BY <1>1, ConnOf
  <2>2. \A n \in InQueue : queue.slots[n].conn # c
    BY <1>1 DEF IndInv, QueuePlace
  <2>3. sender.pc = "send" => sender.out.conn # c
    BY <1>1 DEF IndInv, SenderPlace
  <2>4. \A i \in DOMAIN requests : requests[i].conn # c
    BY <2>1 DEF IndInv, RequestPlace
  <2> QED  BY <1>1, <2>1, <2>2, <2>3, <2>4
              DEF ServerPlace, InQueue, IsAlive, Opens
<1>9. FilesPlace'
  BY <1>1 DEF IndInv, FilesPlace, Owned, InQueue, Opens, TypeOK, FileOf, Cleared, Server
<1>10. RepliesPlace'
  BY <1>1 DEF IndInv, RepliesPlace
<1>11. RequestPlace' /\ FewMisuses'
  BY <1>1 DEF IndInv, RequestPlace, FewMisuses
<1> QED  BY <1>2, <1>3, <1>4, <1>5, <1>6, <1>7, <1>8, <1>9, <1>10, <1>11
            DEF IndInv

\* The connection gets the descriptor of the server thread.
LEMMA InitConnectionInv ==
    ASSUME IndInv, InitConnection
    PROVE  IndInv'
<1>1. /\ server.pc = "connect" /\ server'.pc = "recv" /\ server' \in ServerState
      /\ server'.conn = server.conn /\ server'.sock = server.sock
         /\ server'.lsock = server.lsock
      /\ DOMAIN conns' = DOMAIN conns \union {server.conn}
      /\ server.conn \in Clients /\ server.sock \in Fds
      /\ conns' \in [DOMAIN conns' -> Connection]
      /\ conns'[server.conn].sock = server.sock
      /\ \A x \in DOMAIN conns : x # server.conn /\ conns'[x] = conns[x]
      /\ UNCHANGED <<files, lock, should_run, sock, requests, cache, queue, sender,
                     main, client, misuse>>
  <2>1. server.pc = "connect" /\ server.conn \in Clients /\ server.sock \in Fds
        /\ ~ IsAlive
    BY DEF IndInv, InitConnection, Server, ServerPlace, Busy
  <2>2. server' \in ServerState /\ server'.pc = "recv"
        /\ server'.conn = server.conn /\ server'.sock = server.sock
           /\ server'.lsock = server.lsock
    BY DEF IndInv, TypeOK, InitConnection, ServerGo, ServerState, ServerLabels
  <2>3. /\ DOMAIN conns' = DOMAIN conns \union {server.conn}
        /\ conns'[server.conn] = [sock |-> server.sock, dequeues |-> 0]
        /\ \A x \in DOMAIN conns : x # server.conn /\ conns'[x] = conns[x]
    BY <2>1 DEF InitConnection, IsAlive
  <2>4. conns' \in [DOMAIN conns' -> Connection]
    BY <2>1, <2>3 DEF InitConnection, IndInv, TypeOK, Connection, Sockets
  <2> QED  BY <2>1, <2>2, <2>3, <2>4 DEF InitConnection
<1>2. TypeOK'
  BY <1>1 DEF IndInv, TypeOK
<1>3. ThreadsPlace'
  BY <1>1 DEF IndInv, ThreadsPlace
<1>4. ListenPlace'
  BY <1>1 DEF IndInv, ListenPlace
<1>5. ConnPlace'
  BY <1>1 DEF IndInv, ConnPlace, ServerPlace, Busy, IsAlive, FileOf, Cleared, Server
<1>6. QueuePlace'
  BY <1>1 DEF IndInv, QueuePlace, InQueue, ServerPlace, Busy, IsAlive
<1>7. SenderPlace'
  BY <1>1 DEF IndInv, SenderPlace, InQueue, ServerPlace, Busy, IsAlive
<1>8. ServerPlace'
  BY <1>1 DEF IndInv, ServerPlace, InQueue, Busy, IsAlive
<1>9. RequestPlace'
  BY <1>1 DEF IndInv, RequestPlace
<1>10. FilesPlace'
  BY <1>1 DEF IndInv, FilesPlace, Owned, InQueue, FileOf, Cleared, Server
<1>11. RepliesPlace'
  BY <1>1 DEF IndInv, RepliesPlace
<1>12. FewMisuses'
  BY <1>1 DEF IndInv, FewMisuses
<1> QED  BY <1>2, <1>3, <1>4, <1>5, <1>6, <1>7, <1>8, <1>9, <1>10, <1>11, <1>12
            DEF IndInv

\* A connection that was purged while its preflight request is answered: its socket
\* reads as zero.
LEMMA PurgedConn ==
    ASSUME IndInv, server.pc \in {"preflight", "preflight_close"}, ~ IsAlive
    PROVE  "preflight" \in Stray(ConnSock, server.conn)
<1>1. ConnSock = Zeroed /\ server.conn \in Clients
  BY DEF ConnSock, IndInv, ServerPlace, Busy
<1>2. FileAt(Zeroed) # server.conn
  BY <1>1, FdsAre DEF FileAt, IndInv, TypeOK, FilesType, Other
<1>3. PurgedWhileAnswered(server.conn)
  BY DEF PurgedWhileAnswered, IsAlive
<1> QED  BY <1>1, <1>2, <1>3 DEF Stray

\* A preflight request is answered; if its connection was purged descriptor 0 is
\* used.
LEMMA PreflightSendInv ==
    ASSUME IndInv, PreflightSend, "preflight" \notin misuse'
    PROVE  IndInv'
<1>1. /\ server.pc = "preflight" /\ server'.pc = "preflight_close"
         /\ server' \in ServerState
      /\ server'.conn = server.conn /\ server'.sock = server.sock
         /\ server'.lsock = server.lsock
      /\ client' \in [Clients -> Client]
      /\ server.conn \in Clients /\ client[server.conn].state = "open"
      /\ \A x \in Clients : client'[x].state = client[x].state
      /\ \A x \in Clients : client'[x].replies =
             IF x = server.conn THEN client[x].replies + 1 ELSE client[x].replies
      /\ FewMisuses'
      /\ UNCHANGED <<files, lock, should_run, sock, conns, requests, cache, queue,
                     sender, main>>
  <2>1. /\ server.pc = "preflight" /\ server.conn \in Clients /\ server.sock \in Fds
        /\ IsAlive /\ conns[server.conn].sock = server.sock
    <3>1. /\ server.pc = "preflight" /\ server.conn \in Clients /\ server.sock \in Fds
          /\ IsAlive => conns[server.conn].sock = server.sock
      BY DEF IndInv, PreflightSend, Server, ServerPlace, Busy
    <3>2. Stray(ConnSock, server.conn) \subseteq misuse'
      BY DEF PreflightSend
    <3> QED  BY <3>1, <3>2, PurgedConn
  <2>2. files[server.sock] = server.conn /\ client[server.conn].state = "open"
    BY <2>1, FdsAre DEF IndInv, ConnPlace, FilesPlace, IsAlive, FileOf, Cleared, Server
  <2>3. FileAt(ConnSock) = server.conn
    BY <2>1, <2>2 DEF ConnSock, FileAt
  <2>4. client' = Told({server.conn}, {}) /\ FewMisuses'
    BY <2>1, <2>3 DEF PreflightSend, Stray, IndInv, FewMisuses
  <2>5. /\ client' \in [Clients -> Client]
        /\ \A x \in Clients :
              /\ client'[x].state = client[x].state
              /\ client'[x].replies =
                    IF x \in {server.conn}
                        THEN client[x].replies + 1 ELSE client[x].replies
    <3> DEFINE r == {server.conn}
               d == {}
    <3>1. client' = Told(r, d)
      BY <2>4
    <3> HIDE DEF r, d
    <3>2. client' \in [Clients -> Client]
          /\ \A x \in Clients :
                /\ client'[x].state = IF x \in d THEN "closed" ELSE client[x].state
                /\ client'[x].replies =
                       IF x \in r THEN client[x].replies + 1 ELSE client[x].replies
      BY <3>1, ToldClients
    <3> QED  BY <3>2 DEF r, d
  <2>6. server' \in ServerState /\ server'.pc = "preflight_close"
        /\ server'.conn = server.conn /\ server'.sock = server.sock
           /\ server'.lsock = server.lsock
    BY DEF IndInv, TypeOK, PreflightSend, ServerGo, ServerState, ServerLabels
  <2> QED  BY <2>1, <2>2, <2>4, <2>5, <2>6 DEF PreflightSend
<1>2. TypeOK'
  BY <1>1 DEF IndInv, TypeOK
<1>3. ThreadsPlace'
  BY <1>1 DEF IndInv, ThreadsPlace
<1>4. ListenPlace'
  BY <1>1 DEF IndInv, ListenPlace
<1>5. ConnPlace'
  BY <1>1 DEF IndInv, ConnPlace, TypeOK, FileOf, Cleared, Server
<1>6. ServerPlace'
  BY <1>1 DEF IndInv, ServerPlace, InQueue, Busy, IsAlive
<1>7. FilesPlace'
  BY <1>1 DEF IndInv, FilesPlace, Owned, InQueue, FileOf, Cleared, Server
<1>8. RepliesPlace'
  BY <1>1 DEF IndInv, RepliesPlace, TypeOK, Client
<1>9. FewMisuses'
  BY <1>1 DEF FewMisuses
<1>10. QueuePlace' /\ SenderPlace' /\ RequestPlace'
  BY <1>1 DEF IndInv, QueuePlace, InQueue, SenderPlace, RequestPlace
<1> QED  BY <1>2, <1>3, <1>4, <1>5, <1>6, <1>7, <1>8, <1>9, <1>10 DEF IndInv

\* The socket of the connection is closed, which the connection does not say yet.
LEMMA PreflightCloseInv ==
    ASSUME IndInv, PreflightClose, "preflight" \notin misuse'
    PROVE  IndInv'
<1>1. /\ server.pc = "preflight_close" /\ server'.pc = "preflight_clear"
      /\ server' \in ServerState
      /\ server'.conn = server.conn /\ server'.sock = server.sock
         /\ server'.lsock = server.lsock
      /\ server.conn \in DOMAIN conns /\ conns[server.conn].sock = server.sock
      /\ Closes(server.sock, server.conn, {})
      /\ UNCHANGED <<lock, should_run, sock, conns, requests, cache, queue, sender, main>>
  <2>1. /\ server.pc = "preflight_close" /\ server.conn \in Clients
           /\ server.sock \in Fds
        /\ IsAlive /\ conns[server.conn].sock = server.sock
    <3>1. /\ server.pc = "preflight_close" /\ server.conn \in Clients
             /\ server.sock \in Fds
          /\ IsAlive => conns[server.conn].sock = server.sock
      BY DEF IndInv, PreflightClose, Server, ServerPlace, Busy
    <3>2. Stray(ConnSock, server.conn) \subseteq misuse'
      BY DEF PreflightClose, CloseConn
    <3> QED  BY <3>1, <3>2, PurgedConn
  <2>2. files[server.sock] = server.conn /\ ConnSock = server.sock
    BY <2>1, FdsAre DEF IndInv, ConnPlace, FileOf, Cleared, Server, IsAlive, ConnSock
  <2>3. Closes(server.sock, server.conn, {})
    BY <2>1, <2>2, Closing DEF PreflightClose
  <2>4. server' \in ServerState /\ server'.pc = "preflight_clear"
        /\ server'.conn = server.conn /\ server'.sock = server.sock
           /\ server'.lsock = server.lsock
    BY DEF IndInv, TypeOK, PreflightClose, ServerGo, ServerState, ServerLabels
  <2> QED  BY <2>1, <2>3, <2>4 DEF PreflightClose, IsAlive
<1>2. TypeOK'
  BY <1>1 DEF IndInv, TypeOK, Closes
<1>3. ThreadsPlace'
  BY <1>1 DEF IndInv, ThreadsPlace
<1>4. ListenPlace'
  <2>1. sock # server.sock \/ sock = Invalid
    BY <1>1 DEF IndInv, ListenPlace, Closes, Listener
  <2>2. sock \in Sockets /\ server.lsock \in Sockets
    BY DEF IndInv, TypeOK, ServerState
  <2> QED  BY <1>1, <2>1, <2>2, FdsAre
           DEF IndInv, ListenPlace, Closes, Closed, Listener, Sockets
<1>5. ConnPlace'
  <2> SUFFICES ASSUME NEW x \in DOMAIN conns'
               PROVE  /\ conns'[x].sock # Invalid => files'[conns'[x].sock] = FileOf(x)'
                      /\ client'[x].state \in {"open", "closed"}
    BY DEF ConnPlace
  <2>1. /\ x \in Clients /\ client[x].state \in {"open", "closed"}
        /\ \/ conns[x].sock = Invalid
           \/ conns[x].sock \in Fds /\ files[conns[x].sock] = FileOf(x)
    BY <1>1, ConnOf
  <2>2. FileOf(x) = x /\ FileOf(x)' = IF x = server.conn THEN Closed ELSE x
    BY <1>1 DEF FileOf, Cleared, Server
  <2> QED  BY <1>1, <2>1, <2>2 DEF Closes
<1>6. QueuePlace'
  BY <1>1 DEF IndInv, QueuePlace, InQueue, Closes
<1>7. SenderPlace'
  BY <1>1 DEF IndInv, SenderPlace, InQueue, Closes
<1>8. ServerPlace'
  BY <1>1 DEF IndInv, ServerPlace, Busy, IsAlive, InQueue, Closes
<1>9. RequestPlace'
  BY <1>1 DEF IndInv, RequestPlace
<1>10. FilesPlace'
  <2> SUFFICES ASSUME NEW n \in Fds, files'[n] \in Clients
               PROVE  Owned(n)' /\ client'[files'[n]].state = "open"
    BY DEF FilesPlace
  <2>1. n # server.sock /\ files'[n] = files[n] /\ files[n] # server.conn
    BY <1>1 DEF Closes, Closed
  <2>2. Owned(n) /\ client[files[n]].state = "open"
    BY <2>1 DEF IndInv, FilesPlace
  <2>3. Owned(n)'
    BY <1>1, <2>1, <2>2 DEF Owned, Cleared, Server, InQueue
  <2>4. client'[files'[n]].state = "open"
    BY <1>1, <2>1, <2>2 DEF Closes
  <2> QED  BY <2>3, <2>4
<1>11. RepliesPlace'
  BY <1>1 DEF IndInv, RepliesPlace, Closes
<1>12. FewMisuses'
  BY <1>1 DEF Closes
<1> QED  BY <1>2, <1>3, <1>4, <1>5, <1>6, <1>7, <1>8, <1>9, <1>10, <1>11, <1>12
            DEF IndInv

\* The answer to a preflight request is complete: the connection, if it is still
\* there, has no socket from now on.
LEMMA PreflightClearInv ==
    ASSUME IndInv, PreflightClear
    PROVE  IndInv'
<1>1. /\ server.pc = "preflight_clear" /\ server'.pc = "loop" /\ server' \in ServerState
      /\ server'.lsock = server.lsock
      /\ DOMAIN conns' = DOMAIN conns
      /\ conns' \in [DOMAIN conns' -> Connection]
      /\ \A x \in DOMAIN conns : IF x = server.conn THEN conns'[x].sock = Invalid
                                ELSE conns'[x] = conns[x]
      /\ UNCHANGED <<files, lock, should_run, sock, requests, cache, queue, sender, main,
                     client, misuse>>
  <2>1. server' \in ServerState /\ server'.pc = "loop" /\ server'.lsock = server.lsock
    BY DEF IndInv, TypeOK, PreflightClear, NextAccept, ServerState, ServerLabels, Sockets
  <2>2. CASE IsAlive
    <3>1. CutSocket(server.conn)
      BY <2>2, CuttingSocket DEF PreflightClear, IsAlive
    <3> QED  BY <2>1, <3>1 DEF PreflightClear, Server, CutSocket
  <2>3. CASE ~ IsAlive
    <3>1. conns' = conns
      BY <2>3 DEF PreflightClear, IsAlive, IndInv, TypeOK
    <3> QED  BY <2>1, <2>3, <3>1 DEF PreflightClear, Server, IsAlive, IndInv, TypeOK
  <2> QED  BY <2>2, <2>3
<1>2. TypeOK'
  BY <1>1 DEF IndInv, TypeOK
<1>3. ThreadsPlace'
  BY <1>1 DEF IndInv, ThreadsPlace
<1>4. ListenPlace'
  BY <1>1 DEF IndInv, ListenPlace
<1>5. ConnPlace'
  BY <1>1 DEF IndInv, ConnPlace, FileOf, Cleared, Server
<1>6. QueuePlace' /\ SenderPlace'
  BY <1>1 DEF IndInv, QueuePlace, SenderPlace, InQueue
<1>7. ServerPlace'
  BY <1>1 DEF ServerPlace, Busy
<1>8. RequestPlace'
  BY <1>1 DEF IndInv, RequestPlace, ServerPlace, Busy
<1>9. FilesPlace'
  BY <1>1 DEF IndInv, FilesPlace, Owned, Cleared, Server, InQueue
<1>10. RepliesPlace' /\ FewMisuses'
  BY <1>1 DEF IndInv, RepliesPlace, FewMisuses
<1> QED  BY <1>2, <1>3, <1>4, <1>5, <1>6, <1>7, <1>8, <1>9, <1>10 DEF IndInv

\* The socket moves from the connection, if it is still there, to the server thread.
LEMMA GiveUpInv ==
    ASSUME IndInv, GiveUp
    PROVE  IndInv'
<1>1. /\ server.pc = "giveup" /\ server' \in ServerState
      /\ server'.lsock = server.lsock
      /\ \/ /\ server'.pc = "close" /\ server'.conn = server.conn
               /\ server'.sock = server.sock
            /\ IsAlive /\ CutSocket(server.conn)
         \/ server'.pc = "loop" /\ ~ IsAlive /\ UNCHANGED conns
      /\ UNCHANGED <<files, lock, should_run, sock, requests, cache, queue, sender,
                     main, client, misuse>>
  <2>1. server.pc = "giveup" /\ server.conn \in Clients /\ server.sock \in Fds
    BY DEF IndInv, GiveUp, Server, ServerPlace, Busy
  <2>2. CASE IsAlive
    <3>1. CutSocket(server.conn)
      BY <2>1, <2>2, CuttingSocket DEF GiveUp, IsAlive
    <3>2. server' \in ServerState /\ server'.pc = "close"
          /\ server'.conn = server.conn /\ server'.sock = server.sock
             /\ server'.lsock = server.lsock
      BY <2>2 DEF IndInv, TypeOK, GiveUp, ServerState, ServerLabels
    <3> QED  BY <2>1, <2>2, <3>1, <3>2 DEF GiveUp
  <2>3. CASE ~ IsAlive
    <3>1. conns' = conns
      BY <2>3 DEF GiveUp, IsAlive, IndInv, TypeOK
    <3>2. server' \in ServerState /\ server'.pc = "loop" /\ server'.lsock = server.lsock
      BY <2>3
         DEF IndInv, TypeOK, GiveUp, NextAccept, ServerState, ServerLabels,
             Sockets
    <3> QED  BY <2>1, <2>3, <3>1, <3>2 DEF GiveUp
  <2> QED  BY <2>2, <2>3
<1>2. TypeOK'
  BY <1>1 DEF IndInv, TypeOK, CutSocket
<1>3. ThreadsPlace'
  BY <1>1 DEF IndInv, ThreadsPlace, CutSocket
<1>4. ListenPlace'
  BY <1>1 DEF IndInv, ListenPlace
<1>5. ConnPlace'
  BY <1>1 DEF IndInv, ConnPlace, CutSocket, FileOf, Cleared, Server
<1>6. QueuePlace'
  BY <1>1 DEF IndInv, QueuePlace, InQueue, CutSocket
<1>7. SenderPlace'
  BY <1>1 DEF IndInv, SenderPlace, InQueue, CutSocket
<1>8. ServerPlace'
  BY <1>1, FdsAre
     DEF IndInv, ServerPlace, InQueue, Busy, IsAlive, CutSocket, ConnPlace, FileOf,
         Cleared, Server
<1>9. RequestPlace'
  BY <1>1 DEF IndInv, RequestPlace, CutSocket, ServerPlace, Busy, IsAlive
<1>10. FilesPlace'
  BY <1>1
     DEF IndInv, FilesPlace, Owned, InQueue, CutSocket, ServerPlace, Busy,
         IsAlive, FileOf, Cleared, Server
<1>11. RepliesPlace'
  BY <1>1 DEF IndInv, RepliesPlace
<1>12. FewMisuses'
  BY <1>1 DEF IndInv, FewMisuses
<1> QED  BY <1>2, <1>3, <1>4, <1>5, <1>6, <1>7, <1>8, <1>9, <1>10, <1>11, <1>12
            DEF IndInv

\* The server thread closes the socket it took.
LEMMA GiveUpCloseInv ==
    ASSUME IndInv, GiveUpClose
    PROVE  IndInv'
<1>1. /\ server.pc = "close" /\ server'.pc = "loop" /\ server' \in ServerState
      /\ server'.lsock = server.lsock
      /\ Closes(server.sock, server.conn, {})
      /\ server.conn \in DOMAIN conns => conns[server.conn].sock = Invalid
      /\ UNCHANGED <<lock, should_run, sock, conns, requests, cache, queue, sender,
                     main>>
  <2>1. /\ server.pc = "close" /\ server.conn \in Clients /\ server.sock \in Fds
        /\ files[server.sock] = server.conn
           /\ (IsAlive => conns[server.conn].sock = Invalid)
    BY DEF IndInv, GiveUpClose, Server, ServerPlace, Busy
  <2>2. Closes(server.sock, server.conn, {})
    BY <2>1, Closing DEF GiveUpClose
  <2>3. server' \in ServerState /\ server'.pc = "loop" /\ server'.lsock = server.lsock
    BY DEF IndInv, TypeOK, GiveUpClose, NextAccept, ServerState, ServerLabels,
           Sockets
  <2> QED  BY <2>1, <2>2, <2>3 DEF GiveUpClose, IsAlive
<1>2. TypeOK'
  BY <1>1 DEF IndInv, TypeOK, Closes
<1>3. ThreadsPlace'
  BY <1>1 DEF IndInv, ThreadsPlace
<1>4. ListenPlace'
  BY <1>1, FdsAre
     DEF IndInv, ListenPlace, Closes, Closed, Listener, TypeOK, Sockets, ServerState,
         FilesType, Files
<1>5. ConnPlace'
  <2> SUFFICES ASSUME NEW x \in DOMAIN conns'
               PROVE  /\ conns'[x].sock # Invalid => files'[conns'[x].sock] = FileOf(x)'
                      /\ client'[x].state \in {"open", "closed"}
    BY DEF ConnPlace
  <2>1. /\ x \in Clients /\ client[x].state \in {"open", "closed"}
        /\ \/ conns[x].sock = Invalid
           \/ conns[x].sock \in Fds /\ files[conns[x].sock] = FileOf(x)
    BY <1>1, ConnOf
  <2>2. FileOf(x)' = x /\ FileOf(x) = x
    BY <1>1 DEF FileOf, Cleared, Server
  <2> QED  BY <1>1, <2>1, <2>2, FdsAre DEF Closes, Closed
<1>6. QueuePlace'
  BY <1>1 DEF IndInv, QueuePlace, InQueue, Closes, ServerPlace, Busy
<1>7. SenderPlace'
  BY <1>1 DEF IndInv, SenderPlace, InQueue, Closes, ServerPlace, Busy
<1>8. ServerPlace'
  BY <1>1 DEF IndInv, ServerPlace, Busy, IsAlive
<1>9. FilesPlace'
  <2> SUFFICES ASSUME NEW n \in Fds, files'[n] \in Clients
               PROVE  Owned(n)' /\ client'[files'[n]].state = "open"
    BY DEF FilesPlace
  <2>1. n # server.sock /\ files'[n] = files[n] /\ files[n] # server.conn
    BY <1>1 DEF Closes, Closed
  <2>2. Owned(n) /\ client[files[n]].state = "open"
    BY <2>1 DEF IndInv, FilesPlace
  <2>3. Owned(n)'
    BY <1>1, <2>1, <2>2 DEF IndInv, Owned, InQueue, FileOf, Cleared, Server
  <2>4. client'[files'[n]].state = "open"
    BY <1>1, <2>1, <2>2 DEF Closes
  <2> QED  BY <2>3, <2>4
<1>10. RepliesPlace'
  BY <1>1 DEF IndInv, RepliesPlace, Closes
<1>11. FewMisuses'
  BY <1>1 DEF Closes, FewMisuses
<1>12. RequestPlace'
  BY <1>1 DEF IndInv, RequestPlace
<1> QED  BY <1>2, <1>3, <1>4, <1>5, <1>6, <1>7, <1>8, <1>9, <1>10, <1>11, <1>12
            DEF IndInv

\* A request is queued for the connection.
LEMMA EnqueueInv ==
    ASSUME IndInv, Enqueue
    PROVE  IndInv'
<1>1. /\ server.pc = "enqueue" /\ server'.pc = "loop" /\ server' \in ServerState
      /\ server'.lsock = server.lsock
      /\ IsAlive /\ server.conn \in Clients
      /\ requests' \in Seq(Request)
         /\ DOMAIN requests' = DOMAIN requests \union {Len(requests) + 1}
      /\ Len(requests) + 1 \notin DOMAIN requests
         /\ requests'[Len(requests) + 1].conn = server.conn
      /\ \A i \in DOMAIN requests : requests'[i] = requests[i]
      /\ UNCHANGED <<files, lock, should_run, sock, conns, cache, queue, sender,
                     main, client, misuse>>
  <2>1. server.pc = "enqueue" /\ IsAlive /\ server.conn \in Clients
    BY DEF IndInv, Enqueue, Server, Enqueueable, ServerPlace, Busy
  <2>2. server' \in ServerState /\ server'.pc = "loop" /\ server'.lsock = server.lsock
    BY DEF IndInv, TypeOK, Enqueue, NextAccept, ServerState, ServerLabels,
           Sockets
  <2> DEFINE r == [conn |-> server.conn, method |-> server.data]
  <2>3. r \in Request /\ r.conn = server.conn
    BY <2>1 DEF IndInv, TypeOK, ServerState, Request
  <2>4. requests' = Append(requests, r) /\ requests \in Seq(Request)
    BY DEF Enqueue, IndInv, TypeOK
  <2> HIDE DEF r
  <2>5. /\ requests' \in Seq(Request)
           /\ DOMAIN requests' = DOMAIN requests \union {Len(requests) + 1}
        /\ Len(requests) + 1 \notin DOMAIN requests /\ requests'[Len(requests) + 1] = r
        /\ \A i \in DOMAIN requests : requests'[i] = requests[i]
    BY <2>3, <2>4
  <2> QED  BY <2>1, <2>2, <2>3, <2>5 DEF Enqueue
<1>2. TypeOK'
  BY <1>1 DEF IndInv, TypeOK, Request
<1>3. ThreadsPlace'
  BY <1>1 DEF IndInv, ThreadsPlace
<1>4. ListenPlace'
  BY <1>1 DEF IndInv, ListenPlace
<1>5. ServerPlace'
  BY <1>1 DEF IndInv, ServerPlace, Busy, IsAlive
<1>6. RequestPlace'
  BY <1>1, FdsAre DEF IndInv, RequestPlace, ServerPlace, Busy, IsAlive
<1>7. FilesPlace'
  BY <1>1 DEF IndInv, FilesPlace, Owned, InQueue, FileOf, Cleared, Server
<1>8. RepliesPlace'
  BY <1>1 DEF IndInv, RepliesPlace
<1>9. ConnPlace' /\ QueuePlace' /\ SenderPlace' /\ FewMisuses'
  BY <1>1
     DEF IndInv, ConnPlace, QueuePlace, InQueue, SenderPlace, FileOf, Cleared, Server,
         FewMisuses
<1> QED  BY <1>2, <1>3, <1>4, <1>5, <1>6, <1>7, <1>8, <1>9 DEF IndInv

\* The server thread ends; ecs_http_server_stop closed the listening socket.
LEMMA ServerDoneInv ==
    ASSUME IndInv, ServerDone
    PROVE  IndInv'
<1>1. /\ server.pc = "done" /\ server'.pc = "exited" /\ server' \in ServerState
      /\ server'.lsock = Invalid
      /\ sock = Invalid /\ sock' = Invalid
      /\ \/ server.lsock # Invalid /\ Unlistens(server.lsock)
         \/ UNCHANGED <<files, client>>
      /\ misuse' \subseteq misuse \union {"listener"}
      /\ UNCHANGED <<lock, should_run, conns, requests, cache, queue, sender, main>>
  <2>1. server.pc = "done" /\ server \in ServerState /\ sock = Invalid
    BY DEF IndInv, TypeOK, ServerDone, Server, ThreadsPlace, ListenPlace
  <2>2. server'.pc = "exited" /\ server' \in ServerState /\ server'.lsock = Invalid
    BY <2>1 DEF ServerDone, ServerState, ServerLabels, Sockets
  <2>3. CASE server.lsock # Invalid /\ ~ server.ebadf
    <3>1. server.lsock \in Sockets /\ files[server.lsock] = Closed
      BY <2>1, <2>3 DEF IndInv, ListenPlace, ServerState
    <3>2. Unlistens(server.lsock)
      BY <2>3, <3>1, Unlistening DEF ServerDone
    <3> QED  BY <2>1, <2>2, <2>3, <3>2 DEF ServerDone
  <2>4. CASE server.lsock = Invalid \/ server.ebadf
    BY <2>1, <2>2, <2>4 DEF ServerDone
  <2> QED  BY <2>3, <2>4 DEF ServerDone
<1>2. TypeOK'
  BY <1>1 DEF IndInv, TypeOK, Unlistens
<1>3. ThreadsPlace'
  BY <1>1 DEF IndInv, ThreadsPlace
<1>4. ListenPlace'
  BY <1>1 DEF IndInv, ListenPlace, Unlistens
<1>5. ConnPlace'
  <2> SUFFICES ASSUME NEW x \in DOMAIN conns'
               PROVE  /\ conns'[x].sock # Invalid => files'[conns'[x].sock] = FileOf(x)'
                      /\ client'[x].state \in {"open", "closed"}
    BY DEF ConnPlace
  <2>1. /\ x \in Clients /\ client[x].state \in {"open", "closed"}
        /\ \/ conns[x].sock = Invalid
           \/ conns[x].sock \in Fds /\ files[conns[x].sock] = FileOf(x)
    BY <1>1, ConnOf
  <2>2. FileOf(x)' = x /\ FileOf(x) = x
    BY <1>1 DEF FileOf, Cleared, Server
  <2>3. conns'[x].sock # Invalid => files'[conns'[x].sock] = x
    BY <1>1, <2>1, <2>2 DEF Unlistens
  <2>4. client'[x].state \in {"open", "closed"}
    BY <1>1, <2>1 DEF Unlistens
  <2> QED  BY <2>2, <2>3, <2>4
<1>6. QueuePlace'
  BY <1>1 DEF IndInv, QueuePlace, InQueue, Unlistens
<1>7. SenderPlace'
  BY <1>1 DEF IndInv, SenderPlace, InQueue, Unlistens
<1>8. ServerPlace'
  BY <1>1 DEF IndInv, ServerPlace, Busy, IsAlive
<1>9. FilesPlace'
  BY <1>1
     DEF IndInv, FilesPlace, Owned, InQueue, Unlistens, Closed, FileOf, Cleared,
         Server
<1>10. RepliesPlace'
  BY <1>1 DEF IndInv, RepliesPlace, Unlistens, TypeOK
<1>11. RequestPlace' /\ FewMisuses'
  BY <1>1 DEF IndInv, RequestPlace, FewMisuses
<1> QED  BY <1>2, <1>3, <1>4, <1>5, <1>6, <1>7, <1>8, <1>9, <1>10, <1>11
            DEF IndInv

\* ecs_http_server_stop closes the listening socket.
LEMMA StopInv ==
    ASSUME IndInv, Stop
    PROVE  IndInv'
<1>1. /\ main.pc = "running" /\ main'.pc = "join_server" /\ main' \in MainState
      /\ should_run' = FALSE /\ sock' = Invalid
      /\ Unlistens(sock)
      /\ UNCHANGED <<lock, conns, requests, cache, queue, server, sender, misuse>>
  <2>1. sock \in Sockets /\ (sock \in Fds => files[sock] = Listener)
    BY FdsAre DEF IndInv, TypeOK, ListenPlace
  <2>2. Unlistens(sock)
    BY <2>1, Unlistening DEF Stop
  <2>3. main.pc = "running" /\ main'.pc = "join_server" /\ main' \in MainState
    BY DEF IndInv, TypeOK, Stop, Main, MainGo, MainState
  <2> QED  BY <2>2, <2>3 DEF Stop
<1>2. TypeOK'
  BY <1>1 DEF IndInv, TypeOK, Unlistens, Sockets
<1>3. ThreadsPlace'
  BY <1>1 DEF IndInv, ThreadsPlace
<1>4. ListenPlace'
  BY <1>1, FdsAre
     DEF IndInv, ListenPlace, Unlistens, TypeOK, Sockets, ServerState, Closed,
         Listener, FilesType, Files
<1>5. ConnPlace'
  <2> SUFFICES ASSUME NEW x \in DOMAIN conns'
               PROVE  /\ conns'[x].sock # Invalid => files'[conns'[x].sock] = FileOf(x)'
                      /\ client'[x].state \in {"open", "closed"}
    BY DEF ConnPlace
  <2>1. /\ x \in Clients /\ client[x].state \in {"open", "closed"}
        /\ \/ conns[x].sock = Invalid
           \/ conns[x].sock \in Fds /\ files[conns[x].sock] = FileOf(x)
    BY <1>1, ConnOf
  <2>2. FileOf(x)' = FileOf(x) /\ FileOf(x) \in {x, Closed}
    BY <1>1 DEF FileOf, Cleared, Server
  <2>3. CASE FileOf(x) = x
    BY <1>1, <2>1, <2>2, <2>3 DEF Unlistens
  <2>4. CASE FileOf(x) = Closed
    BY <1>1, <2>1, <2>2, <2>4 DEF Unlistens
  <2> QED  BY <2>2, <2>3, <2>4
<1>6. QueuePlace'
  BY <1>1 DEF IndInv, QueuePlace, InQueue, Unlistens
<1>7. SenderPlace'
  BY <1>1 DEF IndInv, SenderPlace, InQueue, Unlistens
<1>8. ServerPlace'
  BY <1>1 DEF IndInv, ServerPlace, InQueue, IsAlive, Unlistens, TypeOK
<1>9. FilesPlace'
  BY <1>1
     DEF IndInv, FilesPlace, Owned, InQueue, Unlistens, TypeOK, Closed, FileOf,
         Cleared, Server
<1>10. RepliesPlace'
  BY <1>1 DEF IndInv, RepliesPlace, Unlistens, TypeOK
<1>11. RequestPlace' /\ FewMisuses'
  BY <1>1 DEF IndInv, RequestPlace, FewMisuses
<1> QED  BY <1>2, <1>3, <1>4, <1>5, <1>6, <1>7, <1>8, <1>9, <1>10, <1>11
            DEF IndInv

\* The send thread takes a message, and with it the socket, from the queue.
LEMMA SenderGetInv ==
    ASSUME IndInv, SenderGet
    PROVE  IndInv'
<1>1. /\ sender.pc = "get" /\ sender' \in SenderState /\ queue' \in QueueState
      /\ \/ sender'.pc = "test" /\ UNCHANGED queue /\ InQueue' = InQueue
         \/ /\ sender'.pc = "send" /\ sender'.out = queue.slots[queue.tail]
            /\ queue.tail \in InQueue /\ InQueue' = InQueue \ {queue.tail}
            /\ queue'.slots = queue.slots /\ queue.head # queue.tail
      /\ UNCHANGED <<files, lock, should_run, sock, conns, requests, cache, server,
                     main, client, misuse>>
  <2>1. sender.pc = "get" /\ sender \in SenderState /\ queue \in QueueState
        /\ queue.head \in Slots /\ queue.tail \in Slots
    BY DEF IndInv, TypeOK, SenderGet, QueueState
  <2>2. CASE queue.head = queue.tail
    BY <2>1, <2>2 DEF SenderGet, SenderUnchanged, SenderState, InQueue
  <2>3. CASE queue.head # queue.tail
    <3>1. sender' = [pc |-> "send", out |-> queue.slots[queue.tail]]
          /\ queue' = [queue EXCEPT !.tail = NextSlot(queue.tail)]
      BY <2>3 DEF SenderGet
    <3>2. NextSlot(queue.tail) \in Slots
      BY <2>1, NextSlotIs
    <3>3. queue' \in QueueState /\ queue'.tail = NextSlot(queue.tail)
          /\ queue'.head = queue.head /\ queue'.slots = queue.slots
      BY <2>1, <3>1, <3>2 DEF QueueState
    <3>4. sender' \in SenderState
      BY <2>1, <3>1 DEF SenderState, QueueState
    <3>5. queue.tail \in InQueue /\ InQueue' = InQueue \ {queue.tail}
      BY <2>1, <2>3, <3>3, TakeSlot DEF InQueue
    <3> QED  BY <2>1, <2>3, <3>1, <3>3, <3>4, <3>5
                DEF SenderGet, SenderUnchanged
  <2> QED  BY <2>2, <2>3
<1>2. TypeOK'
  BY <1>1 DEF IndInv, TypeOK
<1>3. ThreadsPlace'
  BY <1>1 DEF IndInv, ThreadsPlace
<1>4. QueuePlace'
  BY <1>1 DEF IndInv, QueuePlace
<1>5. SenderPlace'
  BY <1>1 DEF IndInv, QueuePlace, SenderPlace
<1>6. ServerPlace'
  BY <1>1 DEF IndInv, QueuePlace, ServerPlace, IsAlive
<1>7. FilesPlace'
  BY <1>1 DEF IndInv, FilesPlace, Owned, FileOf, Cleared, Server
<1>8. ListenPlace' /\ ConnPlace' /\ RequestPlace' /\ RepliesPlace' /\ FewMisuses'
  BY <1>1
     DEF IndInv, ListenPlace, ConnPlace, RequestPlace, RepliesPlace, FileOf, Cleared,
         Server, FewMisuses
<1> QED  BY <1>2, <1>3, <1>4, <1>5, <1>6, <1>7, <1>8 DEF IndInv

\* The send thread sends the reply and closes the socket.
LEMMA SenderSendInv ==
    ASSUME IndInv, SenderSend
    PROVE  IndInv'
<1>1. /\ sender.pc = "send" /\ sender'.pc = "test" /\ sender' \in SenderState
      /\ Closes(sender.out.sock, sender.out.conn, {sender.out.conn})
      /\ sender.out.conn \notin DOMAIN conns
      /\ UNCHANGED <<lock, should_run, sock, conns, requests, cache, queue, server,
                     main>>
  <2>1. /\ sender.pc = "send" /\ sender.out.conn \in Clients /\ sender.out.sock \in Fds
        /\ files[sender.out.sock] = sender.out.conn
           /\ sender.out.conn \notin DOMAIN conns
    BY DEF IndInv, SenderSend, SenderPlace
  <2>2. Closes(sender.out.sock, sender.out.conn, {sender.out.conn})
    BY <2>1, Closing DEF SenderSend
  <2>3. sender' \in SenderState /\ sender'.pc = "test"
    BY DEF SenderSend, SenderState, NoSlot, Slot, Sockets
  <2> QED  BY <2>1, <2>2, <2>3 DEF SenderSend, SenderUnchanged
<1>2. TypeOK'
  BY <1>1 DEF IndInv, TypeOK, Closes
<1>3. ThreadsPlace'
  BY <1>1 DEF IndInv, ThreadsPlace
<1>4. ListenPlace'
  BY <1>1
     DEF IndInv, ListenPlace, Closes, Closed, Listener, TypeOK, Sockets,
         ServerState, FilesType, Files
<1>5. ConnPlace'
  <2> SUFFICES ASSUME NEW x \in DOMAIN conns'
               PROVE  /\ conns'[x].sock # Invalid => files'[conns'[x].sock] = FileOf(x)'
                      /\ client'[x].state \in {"open", "closed"}
    BY DEF ConnPlace
  <2>1. /\ x \in Clients /\ client[x].state \in {"open", "closed"}
        /\ \/ conns[x].sock = Invalid
           \/ conns[x].sock \in Fds /\ files[conns[x].sock] = FileOf(x)
    BY <1>1, ConnOf
  <2>2. FileOf(x)' = FileOf(x) /\ FileOf(x) \in {x, Closed}
    BY <1>1 DEF FileOf, Cleared, Server
  <2> QED  BY <1>1, <2>1, <2>2, FdsAre DEF Closes, Closed
<1>6. QueuePlace'
  BY <1>1 DEF IndInv, QueuePlace, InQueue, Closes, SenderPlace
<1>7. SenderPlace'
  BY <1>1 DEF IndInv, SenderPlace
<1>8. ServerPlace'
  BY <1>1 DEF IndInv, ServerPlace, InQueue, Busy, IsAlive, Closes, Closed
<1>9. FilesPlace'
  <2> SUFFICES ASSUME NEW n \in Fds, files'[n] \in Clients
               PROVE  Owned(n)' /\ client'[files'[n]].state = "open"
    BY DEF FilesPlace
  <2>1. n # sender.out.sock /\ files'[n] = files[n] /\ files[n] # sender.out.conn
    BY <1>1 DEF Closes, Closed
  <2>2. Owned(n) /\ client[files[n]].state = "open"
    BY <2>1 DEF IndInv, FilesPlace
  <2>3. Owned(n)'
    BY <1>1, <2>1, <2>2 DEF IndInv, Owned, InQueue, FileOf, Cleared, Server
  <2>4. client'[files'[n]].state = "open"
    BY <1>1, <2>1, <2>2 DEF Closes
  <2> QED  BY <2>3, <2>4
<1>10. RepliesPlace'
  <2>1. client[sender.out.conn].state = "open"
    BY <1>1 DEF Closes, IndInv, FilesPlace
  <2>2. ~ (server.pc = "preflight_close" /\ server.conn = sender.out.conn)
    BY <1>1 DEF IndInv, ServerPlace, Busy
  <2>3. client[sender.out.conn].replies = 0
    BY <1>1, <2>1, <2>2 DEF Closes, IndInv, RepliesPlace
  <2> QED  BY <1>1, <2>3 DEF Closes, IndInv, RepliesPlace
<1>11. FewMisuses'
  BY <1>1 DEF Closes, FewMisuses
<1>12. RequestPlace'
  BY <1>1 DEF IndInv, RequestPlace
<1> QED  BY <1>2, <1>3, <1>4, <1>5, <1>6, <1>7, <1>8, <1>9, <1>10, <1>11, <1>12
            DEF IndInv

\* A reply to the connection c: its socket leaves for the send queue or is closed,
\* and the connection is freed.  Neither a request nor the server thread refers to
\* it any longer.
Replies(c) ==
    /\ c \in DOMAIN conns /\ conns[c].sock # Invalid /\ ~ Cleared(c)
    /\ Posts(c) \/ (Closes(conns[c].sock, c, {c}) /\ UNCHANGED queue)
    /\ DOMAIN conns' = DOMAIN conns \ {c}
    /\ conns' \in [DOMAIN conns' -> Connection]
    /\ \A x \in DOMAIN conns' : conns'[x] = conns[x]
    /\ requests' \in Seq(Request)
    /\ \A i \in DOMAIN requests' :
          i \in DOMAIN requests /\ requests'[i] = requests[i] /\ requests'[i].conn # c
    /\ server' \in ServerState /\ server'.lsock = server.lsock
    /\ \/ UNCHANGED server /\ (server.pc \in Busy => server.conn # c)
       \/ server.pc = "enqueue" /\ server'.pc = "loop"
    /\ cache' \in BOOLEAN
    /\ UNCHANGED <<lock, should_run, sock, sender, main>>

\* A reply of either thread: the socket changes its owner or is closed.
LEMMA RepliesInv ==
    ASSUME IndInv, NEW c, Replies(c)
    PROVE  IndInv'
<1> DEFINE fd == conns[c].sock
<1>1. c \in Clients /\ fd \in Fds /\ files[fd] = c /\ client[c].state = "open"
  BY ConnOf DEF Replies, FileOf, IndInv, FilesPlace
<1>2. \A n \in InQueue : queue.slots[n].conn # c
  BY DEF IndInv, QueuePlace, Replies
<1>3. sender.pc = "send" => sender.out.conn # c
  BY DEF IndInv, SenderPlace, Replies
<1>4. \A x \in DOMAIN conns' : x \in DOMAIN conns /\ x # c /\ conns'[x] = conns[x]
  BY DEF Replies
<1>5. ~ (server.pc = "preflight_close" /\ server.conn = c)
  BY DEF Replies, Busy
<1>6. ~ (server.pc \in {"connect", "close"} /\ server.sock = fd)
  BY <1>1 DEF Replies, Busy, IndInv, ServerPlace
<1>7. \A x \in DOMAIN conns' :
         /\ x \in Clients /\ client[x].state \in {"open", "closed"}
         /\ \/ conns[x].sock = Invalid
            \/ conns[x].sock \in Fds /\ files[conns[x].sock] = FileOf(x)
  BY <1>4, ConnOf
<1>8. \A x : FileOf(x)' = FileOf(x) /\ FileOf(x) \in {x, Closed}
  BY DEF Replies, FileOf, Cleared, Server
<1>9. CASE Posts(c)
  <2>1. TypeOK'
    BY <1>9 DEF IndInv, TypeOK, Replies, Posts
  <2>2. ThreadsPlace'
    BY <1>9 DEF IndInv, ThreadsPlace, Replies, Posts
  <2>3. ListenPlace'
    BY <1>9 DEF IndInv, ListenPlace, Replies, Posts
  <2>4. ConnPlace'
    BY <1>4, <1>7, <1>9, <1>8 DEF ConnPlace, Posts
  <2>5. QueuePlace'
    <3>1. \A n \in InQueue' : n = queue.head \/ n \in InQueue
      BY <1>9 DEF Posts
    <3>2. /\ queue'.slots[queue.head].sock = fd /\ queue'.slots[queue.head].conn = c
          /\ \A n \in InQueue : queue'.slots[n] = queue.slots[n]
          /\ UNCHANGED files
      BY <1>9 DEF Posts
    <3> QED  BY <1>1, <1>2, <1>4, <3>1, <3>2 DEF IndInv, QueuePlace
  <2>6. SenderPlace'
    BY <1>3, <1>4, <1>9 DEF IndInv, SenderPlace, Posts, Replies
  <2>7. ServerPlace'
    BY <1>4, <1>9 DEF IndInv, ServerPlace, Busy, IsAlive, Posts, Replies
  <2>8. RequestPlace'
    BY DEF IndInv, RequestPlace, Replies
  <2>9. FilesPlace'
    BY <1>9 DEF IndInv, FilesPlace, Owned, Posts, Replies, FileOf, Cleared, Server
  <2>10. RepliesPlace' /\ FewMisuses'
    BY <1>5, <1>9 DEF IndInv, RepliesPlace, Posts, Replies, FewMisuses
  <2> QED  BY <2>1, <2>2, <2>3, <2>4, <2>5, <2>6, <2>7, <2>8, <2>9, <2>10
              DEF IndInv
<1>10. CASE Closes(fd, c, {c}) /\ UNCHANGED queue
  <2>1. TypeOK'
    BY <1>10 DEF IndInv, TypeOK, Replies, Closes
  <2>2. ThreadsPlace'
    BY <1>10 DEF IndInv, ThreadsPlace, Replies
  <2>3. ListenPlace'
    BY <1>1, <1>10, FdsAre
       DEF IndInv, TypeOK, ServerState, Sockets, ListenPlace, Replies, Closes,
           Closed, Listener, FilesType, Files
  <2>4. ConnPlace'
    <3> SUFFICES ASSUME NEW x \in DOMAIN conns'
                 PROVE  /\ conns'[x].sock # Invalid => files'[conns'[x].sock] = FileOf(x)'
                        /\ client'[x].state \in {"open", "closed"}
      BY DEF ConnPlace
    <3>1. conns[x].sock = Invalid
          \/ (conns[x].sock \in Fds /\ conns[x].sock # fd /\ files[conns[x].sock] = FileOf(x))
      BY <1>1, <1>4, <1>7, <1>8 DEF Closed
    <3> QED  BY <1>4, <1>7, <1>10, <1>8, <3>1 DEF Closes
  <2>5. QueuePlace'
    BY <1>2, <1>4, <1>10 DEF IndInv, QueuePlace, InQueue, Closes
  <2>6. SenderPlace'
    BY <1>3, <1>4, <1>10 DEF IndInv, SenderPlace, InQueue, Closes, Replies
  <2>7. ServerPlace'
    BY <1>4, <1>6, <1>10
       DEF IndInv, ServerPlace, Busy, IsAlive, InQueue, Closes, Replies
  <2>8. RequestPlace'
    BY DEF IndInv, RequestPlace, Replies
  <2>9. FilesPlace'
    <3> SUFFICES ASSUME NEW n \in Fds, files'[n] \in Clients
                 PROVE  Owned(n)' /\ client'[files'[n]].state = "open"
      BY DEF FilesPlace
    <3>1. n # fd /\ files'[n] = files[n] /\ files[n] # c
      BY <1>10 DEF Closes, Closed
    <3>2. Owned(n) /\ client[files[n]].state = "open"
      BY <3>1 DEF IndInv, FilesPlace
    <3>3. Owned(n)'
      BY <1>10, <3>1, <3>2 DEF Owned, InQueue, Replies, FileOf, Cleared, Server
    <3>4. client'[files'[n]].state = "open"
      BY <1>10, <3>1, <3>2 DEF Closes
    <3> QED  BY <3>3, <3>4
  <2>10. RepliesPlace'
    <3>1. client[c].replies = 0
      BY <1>1, <1>5 DEF IndInv, RepliesPlace
    <3> QED  BY <1>5, <1>10, <3>1 DEF Closes, IndInv, RepliesPlace, Replies
  <2>11. FewMisuses'
    BY <1>10 DEF Closes, FewMisuses
  <2> QED  BY <2>1, <2>2, <2>3, <2>4, <2>5, <2>6, <2>7, <2>8, <2>9, <2>10, <2>11
              DEF IndInv
<1> QED  BY <1>9, <1>10 DEF Replies

\* A connection is freed.
LEMMA WithoutConn ==
    ASSUME IndInv, NEW c, conns' = Without(conns, c)
    PROVE  /\ DOMAIN conns' = DOMAIN conns \ {c}
           /\ conns' \in [DOMAIN conns' -> Connection]
           /\ \A x \in DOMAIN conns' : conns'[x] = conns[x]
BY DEF IndInv, TypeOK, Without

\* The server thread answers from the cache.
LEMMA ReplyFromCacheInv ==
    ASSUME IndInv, ReplyFromCache
    PROVE  IndInv'
<1> DEFINE c == server.conn
<1>1. /\ server.pc = "enqueue" /\ c \in DOMAIN conns /\ conns[c].sock # Invalid
      /\ ~ Cleared(c)
      /\ \A i \in DOMAIN requests : requests[i].conn # c
  BY FdsAre
     DEF IndInv, ReplyFromCache, Server, Enqueueable, IsAlive, ServerPlace, Busy, Cleared
<1>2. Posts(c) \/ (Closes(conns[c].sock, c, {c}) /\ UNCHANGED queue)
  BY <1>1, Replying DEF ReplyFromCache
<1>3. /\ DOMAIN conns' = DOMAIN conns \ {c}
      /\ conns' \in [DOMAIN conns' -> Connection]
      /\ \A x \in DOMAIN conns' : conns'[x] = conns[x]
  BY WithoutConn DEF ReplyFromCache
<1>4. server' \in ServerState /\ server'.lsock = server.lsock /\ server'.pc = "loop"
  BY DEF IndInv, TypeOK, ReplyFromCache, NextAccept, ServerState, ServerLabels,
         Sockets
<1>5. /\ requests' = requests /\ requests \in Seq(Request)
      /\ cache' \in BOOLEAN /\ UNCHANGED <<lock, should_run, sock, sender, main>>
  BY DEF IndInv, TypeOK, ReplyFromCache
<1>6. Replies(c)
  BY <1>1, <1>2, <1>3, <1>4, <1>5 DEF Replies
<1> QED  BY <1>6, RepliesInv

\* The main thread answers the last request.
LEMMA HandleRequestInv ==
    ASSUME IndInv, HandleRequest
    PROVE  IndInv'
<1> DEFINE k == Len(requests)
           c == requests[k].conn
<1>1. requests \in Seq(Request) /\ k \in DOMAIN requests /\ k \in Nat
  BY DEF IndInv, TypeOK, HandleRequest, RequestsLeft
<1>2. c \in DOMAIN conns /\ conns[c].sock # Invalid /\ ~ Cleared(c)
  BY <1>1 DEF IndInv, RequestPlace, ServerPlace, Busy, Cleared, Server
<1>3. SendReply(c) /\ conns' = Without(conns, c) /\ cache' \in BOOLEAN
  BY DEF HandleRequest, Last, IndInv, TypeOK
<1>4. /\ requests' \in Seq(Request)
      /\ DOMAIN requests' = 1 .. k - 1
      /\ \A i \in 1 .. k - 1 : requests'[i] = requests[i]
  BY <1>1 DEF HandleRequest, Front
<1>5. \A i \in DOMAIN requests' :
         i \in DOMAIN requests /\ requests'[i] = requests[i] /\ requests'[i].conn # c
  BY <1>1, <1>4 DEF IndInv, RequestPlace
<1>6. UNCHANGED <<lock, should_run, sock, server, sender, main>>
      /\ server \in ServerState
  BY DEF HandleRequest, IndInv, TypeOK
<1>7. server.pc \in Busy => server.conn # c
  BY <1>1 DEF IndInv, ServerPlace
<1>8. Posts(c) \/ (Closes(conns[c].sock, c, {c}) /\ UNCHANGED queue)
  BY <1>2, <1>3, Replying
<1>9. /\ DOMAIN conns' = DOMAIN conns \ {c}
      /\ conns' \in [DOMAIN conns' -> Connection]
      /\ \A x \in DOMAIN conns' : conns'[x] = conns[x]
  BY <1>3, WithoutConn
<1>10. Replies(c)
  BY <1>2, <1>3, <1>4, <1>5, <1>6, <1>7, <1>8, <1>9 DEF Replies
<1> QED  BY <1>10, RepliesInv

\* Connections that were not heard from are freed.
LEMMA PurgeConnectionsInv ==
    ASSUME IndInv, PurgeConnections, "preflight" \notin misuse'
    PROVE  IndInv'
<1>1. PICK gone \in SUBSET DOMAIN conns :
         /\ FreeConns(gone)
         /\ conns' = [c \in DOMAIN conns \ gone |-> [conns[c] EXCEPT !.dequeues = Waited(c)]]
  BY DEF PurgeConnections
<1>2. Frees(gone)
  BY <1>1, Freeing
<1>3. \A x \in DOMAIN conns : conns[x] \in Connection /\ Waited(x) \in Nat
  BY PurgeAssumption DEF IndInv, TypeOK, Connection, Waited
<1>4. /\ DOMAIN conns' = DOMAIN conns \ gone
      /\ conns' \in [DOMAIN conns' -> Connection]
      /\ \A x \in DOMAIN conns \ gone : conns'[x].sock = conns[x].sock
  BY <1>1, <1>3 DEF Connection
<1>5. /\ main.pc = "dequeue" /\ main'.pc = "running" /\ main' \in MainState
         /\ lock' = "free"
      /\ requests = <<>>
      /\ UNCHANGED <<should_run, sock, requests, cache, queue, server, sender>>
  <2>1. requests = <<>>
    BY DEF PurgeConnections, RequestsLeft, IndInv
  <2> QED  BY <2>1 DEF PurgeConnections, Main, MainGo, IndInv, TypeOK, MainState
<1>6. \A c \in gone : ~ Cleared(c)
  BY <1>2 DEF Frees
<1>7. \A x \in DOMAIN conns :
         /\ x \in Clients /\ client[x].state \in {"open", "closed"}
         /\ \/ conns[x].sock = Invalid
            \/ conns[x].sock \in Fds /\ files[conns[x].sock] = FileOf(x)
  BY ConnOf
<1>8. \A x \in gone : conns[x].sock \in Fds => files[conns[x].sock] = x
  BY <1>6, <1>7, FdsAre DEF FileOf
<1>9. gone \subseteq Clients
  BY <1>7
\* The descriptors of others stay open.
<1>10. \A n \in Fds : files[n] \notin gone => files'[n] = files[n]
  BY <1>2, <1>8 DEF Frees
<1>11. TypeOK'
  BY <1>2, <1>4, <1>5 DEF IndInv, TypeOK, Frees
<1>12. ThreadsPlace'
  BY <1>4, <1>5 DEF IndInv, ThreadsPlace
<1>13. ListenPlace'
  <2>1. \A n \in Fds : files[n] = Listener => files'[n] = Listener
    BY <1>10, <1>9 DEF Listener
  <2>2. \A n \in Fds : files[n] = Closed => files'[n] = Closed
    BY <1>2 DEF Frees
  <2>3. \A n \in Fds : files'[n] = Listener => files[n] = Listener
    BY <1>2 DEF Frees, Closed, Listener
  <2> QED  BY <1>5, <2>1, <2>2, <2>3
           DEF IndInv, TypeOK, ServerState, Sockets, ListenPlace
<1>14. ConnPlace'
  <2> SUFFICES ASSUME NEW x \in DOMAIN conns \ gone
               PROVE  /\ conns'[x].sock # Invalid => files'[conns'[x].sock] = FileOf(x)'
                      /\ client'[x].state \in {"open", "closed"}
    BY <1>4 DEF ConnPlace
  <2>1. FileOf(x)' = FileOf(x) /\ FileOf(x) \in {x, Closed}
    BY <1>5 DEF FileOf, Cleared, Server
  <2>2. Closed \notin gone
    BY <1>9 DEF Closed
  <2>3. client'[x].state \in {"open", "closed"}
    BY <1>2, <1>7 DEF Frees
  <2> QED  BY <1>4, <1>7, <1>10, <2>1, <2>2, <2>3
<1>15. QueuePlace'
  BY <1>4, <1>5, <1>10 DEF IndInv, QueuePlace, InQueue
<1>16. SenderPlace'
  BY <1>4, <1>5, <1>10 DEF IndInv, SenderPlace, InQueue
<1>17. ServerPlace'
  <2> SUFFICES ASSUME server.pc \in Busy
               PROVE  ServerPlace'
    BY <1>5 DEF ServerPlace
  <2>1. server.pc \in {"connect", "close"} => files'[server.sock] = server.conn
    <3> SUFFICES ASSUME server.pc \in {"connect", "close"}
                 PROVE  files'[server.sock] = server.conn
      OBVIOUS
    <3>1. /\ server.sock \in Fds /\ files[server.sock] = server.conn
          /\ IsAlive => conns[server.conn].sock = Invalid
      BY DEF IndInv, ServerPlace, Busy
    <3>2. \A c \in gone : conns[c].sock # server.sock
      BY <1>8, <3>1, FdsAre DEF IsAlive
    <3> QED  BY <1>2, <3>1, <3>2 DEF Frees
  <2>2. IsAlive' => IsAlive /\ conns'[server.conn].sock = conns[server.conn].sock
    BY <1>4, <1>5 DEF IsAlive
  <2>3. client'[server.conn].state \in {"open", "closed"}
    BY <1>2 DEF IndInv, ServerPlace, Frees
  <2> QED  BY <1>5, <2>1, <2>2, <2>3 DEF IndInv, ServerPlace, InQueue
<1>18. RequestPlace'
  BY <1>5 DEF RequestPlace
<1>19. FilesPlace'
  <2> SUFFICES ASSUME NEW n \in Fds, files'[n] \in Clients
               PROVE  Owned(n)' /\ client'[files'[n]].state = "open"
    BY DEF FilesPlace
  <2>1. files'[n] = files[n] /\ \A c \in gone : conns[c].sock # n
    BY <1>2 DEF Frees, Closed
  <2>2. Owned(n) /\ client[files[n]].state = "open"
    BY <2>1 DEF IndInv, FilesPlace
  <2>3. Owned(n)'
    BY <1>4, <1>5, <2>1, <2>2 DEF Owned, InQueue, FileOf, Cleared, Server
  <2>4. ~ (files[n] \in gone /\ conns[files[n]].sock # Invalid)
    BY <1>7, <1>8, <2>1, OneFile, FdsAre DEF Closed
  <2>5. client'[files'[n]].state = "open"
    BY <1>2, <2>1, <2>2, <2>4 DEF Frees
  <2> QED  BY <2>3, <2>5
<1>20. RepliesPlace' /\ FewMisuses'
  BY <1>2, <1>5 DEF IndInv, RepliesPlace, Frees, FewMisuses
<1> QED  BY <1>11, <1>12, <1>13, <1>14, <1>15, <1>16, <1>17, <1>18, <1>19, <1>20
            DEF IndInv

\* Both threads have ended: what is left is cleaned up.
LEMMA JoinSenderInv ==
    ASSUME IndInv, JoinSender
    PROVE  IndInv'
<1> DEFINE gone == DOMAIN conns
<1>1. Frees(gone)
  <2>1. server.pc = "exited"
    BY DEF JoinSender, Main, IndInv, ThreadsPlace
  <2>2. "preflight" \notin misuse'
    BY <2>1 DEF JoinSender, FreeConns, Stray, PurgedWhileAnswered, IndInv, FewMisuses
  <2> QED  BY <2>2, Freeing DEF JoinSender
<1>2. /\ DOMAIN conns' = {} /\ conns' \in [DOMAIN conns' -> Connection]
      /\ requests' = <<>> /\ requests' \in Seq(Request)
  BY DEF JoinSender, NoConns
<1>3. /\ main.pc = "join_sender" /\ main'.pc = "stopped" /\ main' \in MainState
      /\ sender.pc = "exited" /\ server.pc = "exited"
      /\ UNCHANGED <<lock, should_run, sock, cache, queue, server, sender>>
  BY DEF JoinSender, Main, MainGo, IndInv, TypeOK, MainState, ThreadsPlace
<1>4. \A x \in DOMAIN conns :
         /\ x \in Clients
         /\ \/ conns[x].sock = Invalid
            \/ conns[x].sock \in Fds /\ files[conns[x].sock] = FileOf(x)
  BY ConnOf
<1>5. InQueue = {} /\ InQueue' = {}
  BY <1>3, EmptyQueue DEF IndInv, TypeOK, QueueState, ThreadsPlace, InQueue
<1>6. TypeOK'
  BY <1>1, <1>2, <1>3 DEF IndInv, TypeOK, Frees
<1>7. ThreadsPlace'
  BY <1>2, <1>3 DEF IndInv, ThreadsPlace
<1>8. ListenPlace'
  BY <1>1, <1>3 DEF IndInv, ListenPlace, Frees, Closed, Listener
<1>9. ConnPlace' /\ RequestPlace'
  BY <1>2 DEF ConnPlace, RequestPlace
<1>10. QueuePlace' /\ SenderPlace'
  BY <1>3, <1>5 DEF QueuePlace, SenderPlace
<1>11. ServerPlace'
  BY <1>3 DEF ServerPlace, Busy
<1>12. FilesPlace'
  <2> SUFFICES ASSUME NEW n \in Fds, files'[n] \in Clients
               PROVE  FALSE
    BY DEF FilesPlace
  <2>1. files'[n] = files[n] /\ \A c \in gone : conns[c].sock # n
    BY <1>1 DEF Frees, Closed
  <2>2. Owned(n)
    BY <2>1 DEF IndInv, FilesPlace
  <2> QED  BY <1>3, <1>5, <2>1, <2>2 DEF Owned
<1>13. RepliesPlace' /\ FewMisuses'
  BY <1>1, <1>3 DEF IndInv, RepliesPlace, Frees, FewMisuses
<1> QED  BY <1>6, <1>7, <1>8, <1>9, <1>10, <1>11, <1>12, <1>13 DEF IndInv

\* Nothing runs at first.
LEMMA InitInv == Init => IndInv
<1> SUFFICES ASSUME Init
             PROVE  IndInv
  OBVIOUS
<1>1. InQueue = {}
  BY EmptyQueue DEF Init, InQueue, Slots
<1>2. TypeOK
  <2>1. FilesType(files)
        /\ client \in [Clients -> Client]
    BY FdsAre DEF Init, Client, FilesType, Files, Closed, Other
  <2>2. queue \in QueueState /\ sender \in SenderState
    BY DEF Init, QueueState, SenderState, Slots, Slot, NoSlot, Sockets
  <2>3. server \in ServerState /\ main \in MainState
    BY DEF Init, ServerState, ServerLabels, MainState, Sockets
  <2>4. DOMAIN conns = {} /\ conns \in [DOMAIN conns -> Connection]
        /\ requests \in Seq(Request)
    BY DEF Init, NoConns
  <2> QED  BY <2>1, <2>2, <2>3, <2>4 DEF Init, TypeOK, Sockets
<1>3. ThreadsPlace /\ ListenPlace /\ ConnPlace /\ RequestPlace
  BY DEF Init, NoConns, ThreadsPlace, ListenPlace, ConnPlace, RequestPlace, Closed,
         Listener, Other
<1>4. QueuePlace /\ SenderPlace /\ ServerPlace /\ FilesPlace /\ RepliesPlace /\ FewMisuses
  BY <1>1
     DEF Init, QueuePlace, SenderPlace, ServerPlace, Busy, FilesPlace,
         RepliesPlace, Closed, Other, FewMisuses
<1> QED  BY <1>2, <1>3, <1>4 DEF IndInv

\* Every step of every thread and of the clients, unless it is the one that uses
\* the descriptor of a connection that was purged during its preflight request.
LEMMA NextInv ==
    ASSUME IndInv, Next, "preflight" \notin misuse'
    PROVE  IndInv'
<1>1. CASE ServerThread
  BY <1>1, ServerListenInv, ServerListenFailsInv, ServerLoopInv, AcceptInv,
     AcceptFailsInv, InitConnectionInv, RecvInv, ParseInv, PreflightSendInv,
     PreflightCloseInv, PreflightClearInv, EnqueueInv, EnqueueIgnoredInv,
     ReplyFromCacheInv,
     GiveUpInv, GiveUpCloseInv, ServerDoneInv
     DEF ServerThread
<1>2. CASE SenderThread
  BY <1>2, SenderTestInv, SenderGetInv, SenderSendInv DEF SenderThread
<1>3. CASE MainThread
  BY <1>3, StartInv, DequeueInv, HandleRequestInv, PurgeConnectionsInv, StopInv,
     JoinServerInv, JoinSenderInv, EmulatedRequestInv
     DEF MainThread
<1>4. CASE Environment
  BY <1>4, CacheExpiresInv, ConnectInv, SendInv DEF Environment
<1> QED  BY <1>1, <1>2, <1>3, <1>4 DEF Next

\* A step that changes nothing.
LEMMA StutterInv ==
    ASSUME IndInv, UNCHANGED vars
    PROVE  IndInv'
BY DEF IndInv, vars, TypeOK, ThreadsPlace, ListenPlace, ConnPlace, QueuePlace,
       SenderPlace, ServerPlace, IsAlive, RequestPlace, FilesPlace, Owned,
       RepliesPlace, InQueue, FileOf, Cleared, Server, FilesType, FewMisuses
-----------------------------------------------------------------------------
(***************************************************************************)
(* The theorems.  A connection that is purged while its preflight request  *)
(* is answered makes the server use a descriptor of the application, since *)
(* http_send_reply works on the connection without the mutex; nothing is   *)
(* promised after that.                                                    *)
(***************************************************************************)
Inv == PreflightPurged \/ IndInv

\* What was misused stays misused.
LEMMA MisuseGrows == Next => misuse \subseteq misuse'
<1> SUFFICES ASSUME Next
             PROVE  misuse \subseteq misuse'
  OBVIOUS
<1>1. CASE ServerThread
  BY <1>1
     DEF ServerThread, ServerListen, ServerListenFails, ServerLoop, Accept, AcceptFails,
         InitConnection, Recv, Parse, PreflightSend, PreflightClose, PreflightClear,
         Enqueue, EnqueueIgnored, ReplyFromCache, SendReply, CloseConn, GiveUp,
         GiveUpClose, ServerDone
<1>2. CASE SenderThread
  BY <1>2 DEF SenderThread, SenderTest, SenderGet, SenderSend, CloseConn
<1>3. CASE MainThread
  BY <1>3
     DEF MainThread, Start, Dequeue, HandleRequest, SendReply, CloseConn,
         PurgeConnections, FreeConns, Stop, JoinServer, JoinSender, EmulatedRequest
<1>4. CASE Environment
  BY <1>4 DEF Environment, CacheExpires, Connect, Send
<1> QED  BY <1>1, <1>2, <1>3, <1>4 DEF Next

\* Inv holds in every state of every behaviour of the server.
THEOREM Invariance == Spec => []Inv
<1>1. Init => Inv
  BY InitInv DEF Inv
<1>2. Inv /\ [Next]_vars => Inv'
  <2> SUFFICES ASSUME Inv, [Next]_vars
               PROVE  Inv'
    OBVIOUS
  <2>1. CASE PreflightPurged
    <3>1. misuse \subseteq misuse'
      BY MisuseGrows DEF vars
    <3> QED  BY <2>1, <3>1 DEF Inv, PreflightPurged
  <2>2. CASE IndInv
    BY <2>2, NextInv, StutterInv DEF Inv, PreflightPurged
  <2> QED  BY <2>1, <2>2 DEF Inv
<1> QED  BY <1>1, <1>2, PTL DEF Spec

\* NoStrayClose: no thread sends to or closes a descriptor that is not the socket
\* of the connection it means.
THEOREM NoStrayCloses == Spec => []NoStrayClose
<1>1. Inv => NoStrayClose
  BY DEF Inv, IndInv, FewMisuses, NoStrayClose
<1>2. Spec => []Inv
  BY Invariance
<1> QED  BY <1>1, <1>2, PTL

\* RequestHasConnection: a request that waits has its own connection, whose socket is
\* open.
THEOREM RequestsHaveConnections == Spec => []RequestHasConnection
<1>1. ASSUME Inv
      PROVE  RequestHasConnection
  <2> SUFFICES ASSUME IndInv
               PROVE  RequestHasConnection
    BY <1>1 DEF Inv, RequestHasConnection
  <2> SUFFICES ASSUME NEW i \in DOMAIN requests
               PROVE  /\ requests[i].conn \in DOMAIN conns
                      /\ FileAt(conns[requests[i].conn].sock) = requests[i].conn
                      /\ \A j \in DOMAIN requests : requests[j].conn = requests[i].conn => i = j
    BY DEF RequestHasConnection
  <2>1. /\ requests[i].conn \in DOMAIN conns /\ conns[requests[i].conn].sock # Invalid
        /\ \A j \in DOMAIN requests : requests[j].conn = requests[i].conn => i = j
    BY <1>1 DEF IndInv, RequestPlace
  <2>2. ~ Cleared(requests[i].conn)
    BY DEF IndInv, ServerPlace, Busy, Cleared, Server
  <2> QED  BY <2>1, <2>2, ConnOf DEF FileAt, FileOf
<1>2. Spec => []Inv
  BY Invariance
<1> QED  BY <1>1, <1>2, PTL

\* StoppedClean: ecs_http_server_stop leaves no request, connection, reply or open
\* descriptor behind, and nobody was answered twice.
THEOREM StopsClean == Spec => []StoppedClean
<1>1. ASSUME Inv
      PROVE  StoppedClean
  <2> SUFFICES ASSUME IndInv, main.pc = "stopped"
               PROVE  StoppedClean
    BY <1>1 DEF Inv, StoppedClean, Main
  <2>1. /\ requests = <<>> /\ DOMAIN conns = {} /\ queue.head = queue.tail
        /\ sender.pc = "exited" /\ server.pc = "exited" /\ sock = Invalid
    BY <1>1 DEF IndInv, ThreadsPlace, ListenPlace
  <2>2. InQueue = {}
    BY <1>1, <2>1, EmptyQueue DEF IndInv, TypeOK, QueueState, InQueue
  <2>3. \A fd \in Fds : files[fd] \notin Clients
    BY <1>1, <2>1, <2>2 DEF IndInv, FilesPlace, Owned
  <2>4. \A fd \in Fds : files[fd] # Listener
    BY <1>1, <2>1, FdsAre DEF IndInv, ListenPlace
  <2>5. \A fd \in Fds : files[fd] \in {Closed, Other}
    BY <1>1, <2>3, <2>4 DEF IndInv, TypeOK, FilesType, Files
  <2> QED  BY <1>1, <2>1, <2>5 DEF StoppedClean, IndInv, RepliesPlace
<1>2. Spec => []Inv
  BY Invariance
<1> QED  BY <1>1, <1>2, PTL

\* OneOwner: a descriptor of a client has exactly one owner, and no other descriptor
\* has one.
THEOREM DescriptorsHaveOneOwner == Spec => []OneOwner
<1>1. ASSUME IndInv, NEW fd \in Fds
      PROVE  Cardinality(Owners(fd)) = IF files[fd] \in Clients THEN 1 ELSE 0
  <2> DEFINE A == {x \in DOMAIN conns : conns[x].sock = fd /\ ~ Cleared(x)}
             B == {x \in Queued : queue.slots[x].sock = fd}
             C == {y \in {sender.pc} : y = "send" /\ sender.out.sock = fd}
             D == {y \in {server.pc} : y \in {"connect", "close"} /\ server.sock = fd}
             c == files[fd]
  <2>1. Queued = InQueue
    BY <1>1, QueuedIs DEF IndInv, TypeOK, QueueState, InQueue
  <2>2. Owners(fd) = {<<"connection", x>> : x \in A} \union {<<"queue", n>> : n \in B}
                     \union {<<"sender", 0>> : x \in C} \union {<<"server",
                                                                  0>> : x \in D}
    BY DEF Owners
  <2>3. A = {c} \/ A = {}
    BY <1>1, ConnOf, FdsAre DEF FileOf
  <2>4. \A n \in B : c = queue.slots[n].conn /\ n \in InQueue /\ c \notin DOMAIN conns
    BY <1>1, <2>1 DEF IndInv, QueuePlace
  <2>5. \A n \in B : B = {n}
    <3>1. \A m, n \in B : m = n
      BY <1>1, <2>4 DEF IndInv, QueuePlace
    <3> HIDE DEF B
    <3> QED  BY <3>1
  <2>6. C # {} => /\ C = {"send"} /\ c \notin DOMAIN conns
                  /\ \A n \in InQueue : queue.slots[n].conn # c
    BY <1>1 DEF IndInv, SenderPlace
  <2>7. D # {} => /\ D = {server.pc}
                  /\ c \in DOMAIN conns => conns[c].sock # fd
                  /\ \A n \in InQueue : queue.slots[n].conn # c
                  /\ C = {}
    <3>1. D # {} => D = {server.pc} /\ server.pc \in {"connect", "close"}
          /\ server.sock = fd
      OBVIOUS
    <3>2. C # {} => sender.pc = "send" /\ sender.out.sock = fd
      OBVIOUS
    <3> HIDE DEF C, D
    <3> QED  BY <1>1, <3>1, <3>2, FdsAre
                DEF IndInv, ServerPlace, SenderPlace, Busy, IsAlive
  <2>8. A # {} => c \in DOMAIN conns /\ conns[c].sock = fd
    BY <1>1, ConnOf, FdsAre DEF FileOf
  <2>9. c \in Clients <=> A # {} \/ B # {} \/ C # {} \/ D # {}
    <3>1. c \in Clients => Owned(fd)
      BY <1>1 DEF IndInv, FilesPlace
    <3>2. Owned(fd) => A # {} \/ B # {} \/ C # {} \/ D # {}
      BY <2>1 DEF Owned
    <3>3. A # {} => c \in Clients
      BY <1>1, ConnOf, FdsAre DEF FileOf
    <3>4. B # {} => c \in Clients
      BY <1>1, <2>1 DEF IndInv, QueuePlace
    <3>5. C # {} => c \in Clients
      BY <1>1 DEF IndInv, SenderPlace
    <3>6. D # {} => c \in Clients
      BY <1>1 DEF IndInv, ServerPlace, Busy
    <3> QED  BY <3>1, <3>2, <3>3, <3>4, <3>5, <3>6
  <2> HIDE DEF A, B, C, D
  <2>10. CASE c \in Clients
    <3>1. CASE A # {}
      <4>1. A = {c} /\ B = {} /\ C = {} /\ D = {}
        BY <2>3, <2>4, <2>6, <2>7, <2>8, <3>1
      <4>2. Owners(fd) = {<<"connection", c>>}
        BY <2>2, <4>1
      <4> QED  BY <2>10, <4>2, FS_Singleton
    <3>2. CASE A = {} /\ B # {}
      <4>1. C = {} /\ D = {}
        BY <2>4, <2>6, <2>7, <3>2
      <4>2. PICK n : B = {n}
        BY <2>5, <3>2
      <4>3. Owners(fd) = {<<"queue", n>>}
        BY <2>2, <3>2, <4>1, <4>2
      <4> QED  BY <2>10, <4>3, FS_Singleton
    <3>3. CASE A = {} /\ B = {} /\ C # {}
      <4>1. C = {"send"} /\ D = {}
        BY <2>6, <2>7, <3>3
      <4>2. Owners(fd) = {<<"sender", 0>>}
        BY <2>2, <3>3, <4>1
      <4> QED  BY <2>10, <4>2, FS_Singleton
    <3>4. CASE A = {} /\ B = {} /\ C = {} /\ D # {}
      <4>1. Owners(fd) = {<<"server", 0>>}
        BY <2>2, <2>7, <3>4
      <4> QED  BY <2>10, <4>1, FS_Singleton
    <3> QED  BY <2>9, <2>10, <3>1, <3>2, <3>3, <3>4
  <2>11. CASE c \notin Clients
    <3>1. Owners(fd) = {}
      BY <2>2, <2>9, <2>11
    <3> QED  BY <2>11, <3>1, FS_EmptySet
  <2> QED  BY <2>10, <2>11
<1>2. Inv => OneOwner
  BY <1>1 DEF Inv, OneOwner
<1>3. Spec => []Inv
  BY Invariance
<1> QED  BY <1>2, <1>3, PTL
=============================================================================
