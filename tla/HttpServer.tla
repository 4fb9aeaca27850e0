----------------------------- MODULE HttpServer ----------------------------
(***************************************************************************)
(* The HTTP server (addons/http/http.c): a server thread that accepts and  *)
(* receives, a thread that sends replies from a ring buffer, and the main  *)
(* thread that handles requests, purges connections, starts and stops the  *)
(* server.  The threads share the server behind one mutex; some steps look *)
(* at it without the mutex.                                                *)
(*                                                                         *)
(* A client connects once and sends one message.  files is the table of    *)
(* open descriptors of the process: a descriptor that was closed is handed *)
(* out again, so that a late close hits another connection.  A connection  *)
(* is named after its client, which stands for its id with generation.     *)
(* Threads are always created, and no other part of the process opens a    *)
(* file; descriptor 0 is open for the application.                         *)
(***************************************************************************)
EXTENDS Integers, Sequences, FiniteSets, SequencesExt

CONSTANTS
    Clients,         \* the clients, numbers
    Messages,        \* what a client may send
    QueueMax,        \* ECS_HTTP_SEND_QUEUE_MAX
    PurgeRetries,    \* ECS_HTTP_CONNECTION_PURGE_RETRY_COUNT
    PurgeSurely,     \* dequeues after which the purge timeout has passed
    MaxStarts,       \* bound: times the server is started
    RecvRetries      \* ECS_HTTP_REQUEST_RECV_RETRY

ASSUME ClientsAssumption == Clients \subseteq Nat \ {0} /\ IsFiniteSet(Clients)
ASSUME QueueMaxAssumption == QueueMax \in Nat \ {0, 1}
ASSUME PurgeAssumption == PurgeRetries \in Nat /\ PurgeSurely \in Nat /\ PurgeRetries < PurgeSurely
ASSUME MaxStartsAssumption == MaxStarts \in Nat
ASSUME RecvRetriesAssumption == RecvRetries \in Nat \ {0}
ASSUME MessagesAssumption == Messages \subseteq {"get", "put", "options", "partial", "invalid", "hangup"}

Invalid == -1     \* HTTP_SOCKET_INVALID
Zeroed == 0       \* the field of an element that was removed from the sparse set
Fds == 0 .. Cardinality(Clients) + 1
Closed == 0
Listener == -1
Other == -2       \* a file of the application
Slots == 0 .. QueueMax - 1

VARIABLES
    files,      \* descriptors: Closed, Listener, Other or the client
    lock,       \* who holds srv->lock
    should_run,
    sock,       \* srv->sock
    conns,      \* srv->connections: connection -> sock and dequeue_retries
    requests,   \* srv->requests
    cache,      \* has srv->request_cache a reply for the path that is young enough?
    queue,      \* srv->send_queue: slots, head and tail
    server,     \* the server thread: pc and local variables
    sender,     \* the send thread
    main,       \* what the main thread does
    client,     \* the clients: state, message not yet read and replies
    misuse      \* history: how a descriptor was used that is not the owner's

vars == <<files, lock, should_run, sock, conns, requests, cache, queue,
          server, sender, main, client, misuse>>
-----------------------------------------------------------------------------
(* Descriptors.                                                            *)

\* The lowest descriptor that is free, as POSIX has it.
FreeFd == CHOOSE fd \in Fds : files[fd] = Closed /\ \A n \in Fds : files[n] = Closed => fd <= n

FileAt(fd) == IF fd \in Fds THEN files[fd] ELSE Closed

\* Clients whose connection is closed, together with the listening socket.
Refused(fd) == IF FileAt(fd) = Listener THEN {c \in Clients : client[c].state = "pending"}
               ELSE {FileAt(fd)} \intersect Clients

ClosedFile(fd) == [n \in Fds |-> IF n = fd THEN Closed ELSE files[n]]

\* The client side of replying to and of closing descriptors.
Told(replied, closed) ==
    [c \in Clients |->
        [client[c] EXCEPT !.replies = IF c \in replied THEN @ + 1 ELSE @,
                          !.state = IF c \in closed THEN "closed" ELSE @]]

\* The connection was purged, or is being purged, while the server thread answers
\* its preflight request.
PurgedWhileAnswered(c) ==
    /\ server.conn = c
    /\ \/ server.pc \in {"preflight", "preflight_close"} /\ c \notin DOMAIN conns
       \/ server.pc = "preflight_clear"

\* A use of descriptor fd for connection c: is it another one's, and is that due
\* to a preflight request?
Stray(fd, c) == IF FileAt(fd) = c THEN {}
                ELSE IF PurgedWhileAnswered(c) THEN {"preflight"} ELSE {"connection"}

\* http_close of the socket of a connection; the socket may only be that one.
CloseConn(fd, c, replied) ==
    /\ files' = ClosedFile(fd)
    /\ client' = Told(replied \intersect {FileAt(fd)}, Refused(fd))
    /\ misuse' = misuse \union Stray(fd, c)
-----------------------------------------------------------------------------
(* The send queue.                                                         *)
NextSlot(n) == (n + 1) % QueueMax

\* Mutant: the test for a full queue is missing.
PostAccepted_NoTest == should_run

\* http_send_queue_post: neither full nor shutting down.
PostAccepted == NextSlot(queue.head) # queue.tail /\ should_run

Post(c) == [queue EXCEPT !.slots[queue.head] = [sock |-> conns[c].sock, conn |-> c],
                         !.head = NextSlot(@)]

\* http_send_reply followed by http_connection_free: the socket goes to the
\* send queue, or a busy reply is sent at once and the socket is closed.
SendReply(c) ==
    \/ /\ PostAccepted
       /\ queue' = Post(c)
       /\ UNCHANGED <<files, client, misuse>>
    \/ /\ ~ PostAccepted
       /\ CloseConn(conns[c].sock, c, {c})
       /\ UNCHANGED queue

Without(f, c) == [x \in DOMAIN f \ {c} |-> f[x]]
-----------------------------------------------------------------------------
(***************************************************************************)
(* The server thread.                                                      *)
(***************************************************************************)
Server(pc) == server.pc = pc
ServerGo(pc) == server' = [server EXCEPT !.pc = pc]

\* The next iteration of the loop, with nothing of this connection.
NextAccept == [server EXCEPT !.pc = "loop", !.conn = 0, !.sock = Invalid,
                             !.retries = 0, !.data = "none"]

\* http_accept_connections: create the listening socket.
ServerListen ==
    /\ Server("init") /\ lock = "free"
    /\ \/ /\ should_run
          /\ files' = [files EXCEPT ![FreeFd] = Listener]
          /\ sock' = FreeFd
          /\ server' = [server EXCEPT !.pc = "loop", !.lsock = FreeFd]
       \/ /\ ~ should_run
          /\ server' = [server EXCEPT !.pc = "loop", !.lsock = Invalid]
          /\ UNCHANGED <<files, sock>>
    /\ UNCHANGED <<lock, should_run, conns, requests, cache, queue, sender, main, client, misuse>>

\* The address is in use or the socket cannot be created: the thread ends.
ServerListenFails ==
    /\ Server("init") /\ lock = "free" /\ should_run
    /\ ServerGo("exited")
    /\ UNCHANGED <<files, lock, should_run, sock, conns, requests, cache, queue,
                   sender, main, client, misuse>>

\* Mutant: the loop does not end with the server.
ServerLoop_Forever ==
    /\ Server("loop")
    /\ ServerGo("accept")
    /\ UNCHANGED <<files, lock, should_run, sock, conns, requests, cache, queue,
                   sender, main, client, misuse>>

ServerLoop ==
    /\ Server("loop")
    /\ ServerGo(IF should_run THEN "accept" ELSE "done")
    /\ UNCHANGED <<files, lock, should_run, sock, conns, requests, cache, queue,
                   sender, main, client, misuse>>

Accept(c) ==
    /\ Server("accept") /\ FileAt(sock) = Listener
    /\ client[c].state = "pending"
    /\ files' = [files EXCEPT ![FreeFd] = c]
    /\ client' = [client EXCEPT ![c].state = "open"]
    /\ server' = [server EXCEPT !.pc = "connect", !.conn = c, !.sock = FreeFd, !.retries = 0]
    /\ UNCHANGED <<lock, should_run, sock, conns, requests, cache, queue, sender, main, misuse>>

\* accept fails: the socket is gone, or nobody connected in time.  What errno
\* says when the socket was closed during the call depends on the moment.
AcceptFails ==
    /\ Server("accept")
    /\ \E ebadf \in BOOLEAN :
          /\ ebadf => FileAt(sock) # Listener
          /\ ~ ebadf => \/ FileAt(sock) # Listener
                        \/ \A c \in Clients : client[c].state # "pending"
          /\ server' = [server EXCEPT !.pc = "loop", !.ebadf = ebadf]
    /\ UNCHANGED <<files, lock, should_run, sock, conns, requests, cache, queue,
                   sender, main, client, misuse>>

\* http_init_connection.
InitConnection ==
    /\ Server("connect") /\ lock = "free"
    /\ conns' = [c \in DOMAIN conns \union {server.conn} |->
                    IF c = server.conn THEN [sock |-> server.sock, dequeues |-> 0] ELSE conns[c]]
    /\ ServerGo("recv")
    /\ UNCHANGED <<files, lock, should_run, sock, requests, cache, queue, sender, main,
                   client, misuse>>

\* http_recv in http_recv_connection: a message, end of file, or nothing yet
\* (also when the main thread closed the socket), which is retried.
Recv ==
    /\ Server("recv")
    /\ LET mine == FileAt(server.sock) = server.conn
           sent == client[server.conn].message
       IN  \/ /\ mine /\ sent \notin {"none", "hangup"}
              /\ server' = [server EXCEPT !.pc = "received", !.data = sent]
              /\ client' = [client EXCEPT ![server.conn].message = "none"]
           \/ /\ mine /\ sent = "hangup"
              /\ server' = NextAccept
              /\ UNCHANGED client
           \/ /\ mine => sent = "none"
              /\ server' = [server EXCEPT
                    !.retries = @ + 1,
                    !.pc = IF server.retries + 1 < RecvRetries THEN "recv" ELSE "giveup"]
              /\ UNCHANGED client
    /\ UNCHANGED <<files, lock, should_run, sock, conns, requests, cache, queue,
                   sender, main, misuse>>

IsAlive == server.conn \in DOMAIN conns

\* Parse what was received, unless the connection has been purged.
Parse ==
    /\ Server("received")
    /\ server' = CASE ~ IsAlive \/ server.data = "partial" -> NextAccept
                   [] IsAlive /\ server.data = "options" -> [server EXCEPT !.pc = "preflight"]
                   [] OTHER -> [server EXCEPT !.pc = "enqueue"]
    /\ UNCHANGED <<files, lock, should_run, sock, conns, requests, cache, queue,
                   sender, main, client, misuse>>

\* http_send_reply for a preflight request, without the mutex: the socket is
\* read from the connection, which is zeroed once it was removed.  http_close
\* first closes it and then writes to the connection.
ConnSock == IF IsAlive THEN conns[server.conn].sock ELSE Zeroed

PreflightSend ==
    /\ Server("preflight")
    /\ client' = Told({FileAt(ConnSock)} \intersect Clients, {})
    /\ misuse' = misuse \union Stray(ConnSock, server.conn)
    /\ ServerGo("preflight_close")
    /\ UNCHANGED <<files, lock, should_run, sock, conns, requests, cache, queue, sender, main>>

PreflightClose ==
    /\ Server("preflight_close")
    /\ CloseConn(ConnSock, server.conn, {})
    /\ ServerGo("preflight_clear")
    /\ UNCHANGED <<lock, should_run, sock, conns, requests, cache, queue, sender, main>>

PreflightClear ==
    /\ Server("preflight_clear")
    /\ conns' = [c \in DOMAIN conns |->
                    IF c = server.conn THEN [conns[c] EXCEPT !.sock = Invalid] ELSE conns[c]]
    /\ server' = NextAccept
    /\ UNCHANGED <<files, lock, should_run, sock, requests, cache, queue, sender, main,
                   client, misuse>>

\* The request is valid and the connection was not purged.
Enqueueable == IsAlive /\ server.data # "invalid"

\* http_enqueue_request.
Enqueue ==
    /\ Server("enqueue") /\ lock = "free"
    /\ Enqueueable
    /\ ~ (server.data = "get" /\ cache)
    /\ requests' = Append(requests, [conn |-> server.conn, method |-> server.data])
    /\ server' = NextAccept
    /\ UNCHANGED <<files, lock, should_run, sock, conns, cache, queue, sender, main, client, misuse>>

EnqueueIgnored ==
    /\ Server("enqueue") /\ lock = "free"
    /\ ~ Enqueueable
    /\ server' = NextAccept
    /\ UNCHANGED <<files, lock, should_run, sock, conns, requests, cache, queue,
                   sender, main, client, misuse>>

\* The cache has a reply: it is sent by the server thread, which keeps the lock
\* that http_enqueue_request took.
ReplyFromCache ==
    /\ Server("enqueue") /\ lock = "free"
    /\ Enqueueable
    /\ server.data = "get" /\ cache
    /\ SendReply(server.conn)
    /\ conns' = Without(conns, server.conn)
    /\ server' = NextAccept
    /\ UNCHANGED <<lock, should_run, sock, requests, cache, sender, main>>

\* Mutant: the socket is closed whether or not the connection is still there.
GiveUp_Always ==
    /\ Server("giveup") /\ lock = "free"
    /\ conns' = [c \in DOMAIN conns |->
                    IF c = server.conn THEN [conns[c] EXCEPT !.sock = Invalid] ELSE conns[c]]
    /\ ServerGo("close")
    /\ UNCHANGED <<files, lock, should_run, sock, requests, cache, queue,
                   sender, main, client, misuse>>

\* Nothing was received: take the socket out of the connection, if it was not
\* purged, and close it.
GiveUp ==
    /\ Server("giveup") /\ lock = "free"
    /\ conns' = [c \in DOMAIN conns |->
                    IF c = server.conn THEN [conns[c] EXCEPT !.sock = Invalid] ELSE conns[c]]
    /\ server' = IF IsAlive THEN [server EXCEPT !.pc = "close"] ELSE NextAccept
    /\ UNCHANGED <<files, lock, should_run, sock, requests, cache, queue,
                   sender, main, client, misuse>>

GiveUpClose ==
    /\ Server("close")
    /\ CloseConn(server.sock, server.conn, {})
    /\ server' = NextAccept
    /\ UNCHANGED <<lock, should_run, sock, conns, requests, cache, queue, sender, main>>

\* The thread ends and closes the listening socket unless errno is EBADF, also
\* when ecs_http_server_stop closed it before.
ServerDone ==
    /\ Server("done") /\ lock = "free"
    /\ \/ /\ server.lsock # Invalid /\ ~ server.ebadf
          /\ files' = ClosedFile(server.lsock)
          /\ client' = Told({}, Refused(server.lsock))
          /\ misuse' = misuse \union (IF FileAt(server.lsock) = Listener THEN {}
                                      ELSE {"listener"})
          /\ sock' = Invalid
       \/ /\ server.lsock = Invalid \/ server.ebadf
          /\ UNCHANGED <<files, client, misuse, sock>>
    /\ server' = [server EXCEPT !.pc = "exited", !.lsock = Invalid]
    /\ UNCHANGED <<lock, should_run, conns, requests, cache, queue, sender, main>>

ServerThread ==
    \/ ServerListen \/ ServerListenFails \/ ServerLoop
    \/ (\E c \in Clients : Accept(c)) \/ AcceptFails \/ InitConnection
    \/ Recv \/ Parse \/ PreflightSend \/ PreflightClose \/ PreflightClear
    \/ Enqueue \/ EnqueueIgnored \/ ReplyFromCache
    \/ GiveUp \/ GiveUpClose \/ ServerDone
-----------------------------------------------------------------------------
(***************************************************************************)
(* The send thread.                                                        *)
(***************************************************************************)
SenderUnchanged == UNCHANGED <<lock, should_run, sock, conns, requests, cache, server, main>>

NoSlot == [sock |-> Invalid, conn |-> 0]

\* Mutant: the thread ends with the server, messages or not.
SenderContinues_Drops == should_run

\* The condition of the loop, read without the mutex.
SenderContinues == should_run \/ queue.head # queue.tail

SenderTest ==
    /\ sender.pc = "test"
    /\ sender' = [sender EXCEPT !.pc = IF SenderContinues THEN "get" ELSE "exited"]
    /\ SenderUnchanged /\ UNCHANGED <<files, queue, client, misuse>>

\* http_send_queue_get and the copy of the slot, under the mutex.
SenderGet ==
    /\ sender.pc = "get" /\ lock = "free"
    /\ \/ /\ queue.head = queue.tail
          /\ sender' = [sender EXCEPT !.pc = "test"]
          /\ UNCHANGED queue
       \/ /\ queue.head # queue.tail
          /\ sender' = [pc |-> "send", out |-> queue.slots[queue.tail]]
          /\ queue' = [queue EXCEPT !.tail = NextSlot(@)]
    /\ SenderUnchanged /\ UNCHANGED <<files, client, misuse>>

\* Headers and content are written and the socket is closed.
SenderSend ==
    /\ sender.pc = "send"
    /\ CloseConn(sender.out.sock, sender.out.conn, {sender.out.conn})
    /\ sender' = [pc |-> "test", out |-> NoSlot]
    /\ SenderUnchanged /\ UNCHANGED queue

SenderThread == SenderTest \/ SenderGet \/ SenderSend
-----------------------------------------------------------------------------
(***************************************************************************)
(* The main thread.                                                        *)
(***************************************************************************)
Main(pc) == main.pc = pc
MainGo(pc) == main' = [main EXCEPT !.pc = pc]

NoConns == [c \in {} |-> [sock |-> Invalid, dequeues |-> 0]]

\* ecs_http_server_start.
Start ==
    /\ Main("stopped") /\ main.starts < MaxStarts
    /\ should_run' = TRUE
    /\ server' = [server EXCEPT !.pc = "init", !.ebadf = FALSE]
    /\ sender' = [sender EXCEPT !.pc = "test"]
    /\ main' = [pc |-> "running", starts |-> main.starts + 1]
    /\ UNCHANGED <<files, lock, sock, conns, requests, cache, queue, client, misuse>>

\* ecs_http_server_dequeue: http_dequeue_requests takes the mutex.
Dequeue ==
    /\ Main("running") /\ lock = "free"
    /\ lock' = "main"
    /\ MainGo("dequeue")
    /\ UNCHANGED <<files, should_run, sock, conns, requests, cache, queue, server, sender,
                   client, misuse>>

\* Mutant: the loop over the requests ends one too early.
RequestsLeft_ButOne == Len(requests) > 1

\* Requests are handled from the last one to the first.
RequestsLeft == Len(requests) > 0

\* http_handle_request: the reply to a GET request is cached when it has a body.
HandleRequest ==
    /\ Main("dequeue") /\ RequestsLeft
    /\ LET req == Last(requests)
       IN  /\ \/ /\ req.method = "get"
                 /\ cache' = TRUE
              \/ UNCHANGED cache
           /\ SendReply(req.conn)
           /\ conns' = Without(conns, req.conn)
    /\ requests' = Front(requests)
    /\ UNCHANGED <<lock, should_run, sock, server, sender, main>>

\* http_connection_free of several connections: valid sockets are closed.
PurgedFiles(gone) ==
    [fd \in Fds |-> IF \E c \in gone : conns[c].sock = fd THEN Closed ELSE files[fd]]

FreeConns(gone) ==
    /\ files' = PurgedFiles(gone)
    /\ client' = Told({}, {c \in gone : conns[c].sock # Invalid})
    /\ misuse' = misuse \union
                   UNION {Stray(conns[c].sock, c) : c \in {x \in gone : conns[x].sock # Invalid}}

\* Mutant: dequeue_retries and dequeue_timeout are not advanced.
Waited_NotCounted(c) == conns[c].dequeues

\* conn->dequeue_retries, no further than it matters.
Waited(c) == IF conns[c].dequeues < PurgeSurely THEN conns[c].dequeues + 1 ELSE PurgeSurely

\* Every connection counts the dequeues it was not heard from; the purge timeout
\* passes somewhere between PurgeRetries and PurgeSurely.  The cache is purged
\* of replies that are too old to be found anyway.
PurgeConnections ==
    /\ Main("dequeue") /\ ~ RequestsLeft
    /\ \E gone \in SUBSET DOMAIN conns :
          /\ \A c \in gone : Waited(c) > PurgeRetries
          /\ \A c \in DOMAIN conns \ gone : Waited(c) < PurgeSurely
          /\ FreeConns(gone)
          /\ conns' = [c \in DOMAIN conns \ gone |->
                          [conns[c] EXCEPT !.dequeues = Waited(c)]]
    /\ lock' = "free"
    /\ MainGo("running")
    /\ UNCHANGED <<should_run, sock, requests, cache, queue, server, sender>>

\* ecs_http_server_stop: close the listening socket, if there is one.
Stop ==
    /\ Main("running") /\ lock = "free"
    /\ should_run' = FALSE
    /\ files' = ClosedFile(sock)
    /\ client' = Told({}, Refused(sock))
    /\ sock' = Invalid
    /\ MainGo("join_server")
    /\ UNCHANGED <<lock, conns, requests, cache, queue, server, sender, misuse>>

JoinServer ==
    /\ Main("join_server") /\ Server("exited")
    /\ MainGo("join_sender")
    /\ UNCHANGED <<files, lock, should_run, sock, conns, requests, cache, queue, server,
                   sender, client, misuse>>

\* Join the send thread, then clean up outstanding requests and connections.
JoinSender ==
    /\ Main("join_sender") /\ sender.pc = "exited"
    /\ requests' = <<>>
    /\ FreeConns(DOMAIN conns)
    /\ conns' = NoConns
    /\ MainGo("stopped")
    /\ UNCHANGED <<lock, should_run, sock, cache, queue, server, sender>>

\* ecs_http_server_http_request, a request of the application itself.
EmulatedRequest ==
    /\ main.pc \in {"stopped", "running"}
    /\ cache' = TRUE
    /\ UNCHANGED <<files, lock, should_run, sock, conns, requests, queue, server, sender,
                   main, client, misuse>>

MainThread ==
    \/ Start \/ Dequeue \/ HandleRequest \/ PurgeConnections
    \/ Stop \/ JoinServer \/ JoinSender \/ EmulatedRequest
-----------------------------------------------------------------------------
(* The environment: time passes and clients connect and send.              *)
CacheExpires ==
    /\ cache
    /\ cache' = FALSE
    /\ UNCHANGED <<files, lock, should_run, sock, conns, requests, queue, server, sender,
                   main, client, misuse>>

Connect(c) ==
    /\ client[c].state = "idle"
    /\ \E fd \in Fds : files[fd] = Listener
    /\ client' = [client EXCEPT ![c].state = "pending"]
    /\ UNCHANGED <<files, lock, should_run, sock, conns, requests, cache, queue, server,
                   sender, main, misuse>>

Send(c) ==
    /\ client[c].state \in {"pending", "open"} /\ ~ client[c].sent
    /\ \E m \in Messages : client' = [client EXCEPT ![c].message = m, ![c].sent = TRUE]
    /\ UNCHANGED <<files, lock, should_run, sock, conns, requests, cache, queue, server,
                   sender, main, misuse>>

Environment == CacheExpires \/ \E c \in Clients : Connect(c) \/ Send(c)
-----------------------------------------------------------------------------
Init ==
    /\ files = [fd \in Fds |-> IF fd = Zeroed THEN Other ELSE Closed]
    /\ lock = "free"
    /\ should_run = FALSE
    /\ sock = Invalid
    /\ conns = NoConns
    /\ requests = <<>>
    /\ cache = FALSE
    /\ queue = [slots |-> [n \in Slots |-> NoSlot], head |-> 0, tail |-> 0]
    /\ server = [pc |-> "exited", lsock |-> Invalid, conn |-> 0, sock |-> Invalid,
                 retries |-> 0, data |-> "none", ebadf |-> FALSE]
    /\ sender = [pc |-> "exited", out |-> NoSlot]
    /\ main = [pc |-> "stopped", starts |-> 0]
    /\ client = [c \in Clients |->
                    [state |-> "idle", message |-> "none", sent |-> FALSE, replies |-> 0]]
    /\ misuse = {}

Next == ServerThread \/ SenderThread \/ MainThread \/ Environment

\* A thread that waits for the mutex gets it: the main thread dequeues at most
\* every ECS_HTTP_MIN_DEQUEUE_INTERVAL and leaves it free in between.
TakesLock == InitConnection \/ Enqueue \/ EnqueueIgnored \/ ReplyFromCache \/ GiveUp

Fairness ==
    /\ WF_vars(ServerThread) /\ SF_vars(TakesLock)
    /\ WF_vars(SenderThread) /\ SF_vars(SenderGet)
    /\ WF_vars(Dequeue \/ HandleRequest \/ PurgeConnections \/ JoinServer \/ JoinSender)

Spec == Init /\ [][Next]_vars

FairSpec == Spec /\ Fairness
-----------------------------------------------------------------------------
\* A connection was purged while the server thread was answering its preflight
\* request, so that a descriptor of somebody else was used: nothing is promised
\* from then on.
PreflightPurged == "preflight" \in misuse

\* No step of any thread sends to or closes a descriptor that is not, at that
\* moment, the socket of the connection it means (http_send_reply,
\* http_connection_free, http_recv_connection, http_server_send_queue).  There are
\* two exceptions: the unlocked reply to a preflight request (http.c:906) and the
\* second close of the listening socket (http.c:1124).
NoStrayClose == PreflightPurged \/ misuse \subseteq {"listener"}

Queued == {(queue.tail + n) % QueueMax : n \in 0 .. ((queue.head + QueueMax - queue.tail) % QueueMax) - 1}

\* The socket of the connection was just closed by the server thread.
Cleared(c) == Server("preflight_clear") /\ server.conn = c

\* Who will close the descriptor.
Owners(fd) ==
    {<<"connection", c>> : c \in {x \in DOMAIN conns : conns[x].sock = fd /\ ~ Cleared(x)}}
    \union {<<"queue", n>> : n \in {x \in Queued : queue.slots[x].sock = fd}}
    \union {<<"sender", 0>> : x \in {y \in {sender.pc} : y = "send" /\ sender.out.sock = fd}}
    \union {<<"server", 0>> : x \in {y \in {server.pc} : y \in {"connect", "close"} /\ server.sock = fd}}

\* A descriptor of a client has exactly one owner, and an owner has an open
\* descriptor: ownership moves from the server thread to the connection, to the
\* send queue and to the send thread, and is never lost or held twice.
OneOwner ==
    PreflightPurged \/ \A fd \in Fds : Cardinality(Owners(fd)) = IF files[fd] \in Clients THEN 1 ELSE 0

\* A request that waits has its own connection with an open socket, which is what
\* the assertion of http_request_fini and the reply to it depend on.
RequestHasConnection ==
    PreflightPurged \/ \A i \in DOMAIN requests :
        /\ requests[i].conn \in DOMAIN conns
        /\ FileAt(conns[requests[i].conn].sock) = requests[i].conn
        /\ \A j \in DOMAIN requests : requests[j].conn = requests[i].conn => i = j

\* Once ecs_http_server_stop returned nothing is left: no request, connection,
\* reply in the queue, or open descriptor; and nobody was answered twice.
StoppedClean ==
    Main("stopped") => PreflightPurged \/
        /\ requests = <<>> /\ DOMAIN conns = {}
        /\ queue.head = queue.tail
        /\ \A fd \in Fds : files[fd] \in {Closed, Other}
        /\ \A c \in Clients : client[c].replies <= 1

\* Every connection that was accepted is closed in the end: answered, given up,
\* purged, or cleaned up by ecs_http_server_stop.
ConnectionsEnd == \A c \in Clients : client[c].state = "open" ~> client[c].state = "closed"

\* ecs_http_server_stop returns.
StopReturns == Main("join_server") ~> Main("stopped")
=============================================================================
