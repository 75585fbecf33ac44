------------------------------ MODULE HttpServer ------------------------------
(***************************************************************************)
(* The prefork web server of src/http_server/server.cpp: the dispatcher of *)
(* main, the worker processes, the logger process, and between them the    *)
(* socket pairs that carry descriptors and the System V message queue that *)
(* carries log lines.  msgsnd blocks when the queue is full, sendmsg when  *)
(* the socket pair is, SSL_accept, SSL_read and SSL_write for as long as   *)
(* the client likes.  A worker may die while it serves (std::stoul of a    *)
(* malformed Content-Length, server.cpp:250, and a path that               *)
(* filesystem::exists rejects, server.cpp:285, throw and nobody catches),  *)
(* the dispatcher may be killed, and what it does to restart a worker may  *)
(* fail.                                                                   *)
(***************************************************************************)
EXTENDS Integers, FiniteSets, Sequences

CONSTANTS
    MAX_WORKERS,
    MaxClients,       \* bound: connections that arrive
    SocketCapacity,   \* descriptors a socket pair holds
    LogCapacity,      \* messages the log queue holds
    LoggerStates,     \* "running", "gone": the logger exits on start-up
                      \* when it cannot open its queue or its file
    MaxCrashes,       \* bound: how many workers die
    MaxFailures,      \* bound: how many socketpairs and forks fail
    MainMayDie,       \* whether the dispatcher is killed in this instance
    HeaderSize,       \* units a request's headers take
    MaxBody,          \* bound: units its body takes
    BufferSize        \* units one SSL_read returns at most

ASSUME ServerAssumption ==
    /\ MAX_WORKERS \in Nat \ {0}
    /\ SocketCapacity \in Nat \ {0} /\ LogCapacity \in Nat \ {0}
    /\ LoggerStates \subseteq {"running", "gone"}
    /\ {MaxClients, MaxCrashes, MaxFailures, MaxBody} \subseteq Nat
    /\ MainMayDie \in BOOLEAN
    /\ HeaderSize \in Nat \ {0}
    /\ BufferSize \in Nat /\ BufferSize >= HeaderSize

(* A connection is named by its place in the order of arrival; number 0 is *)
(* the listening socket, or no connection.                                 *)
Clients == 1 .. MaxClients
Nobody == 0
Listener == 0
Workers == 0 .. MAX_WORKERS - 1

VARIABLES
    client,       \* what became of each connection
    main_pc,      \* where the dispatcher is in its loop
    in_hand,      \* client_socket
    closed,       \* whether main has closed client_socket
    round_robin,
    checked,      \* i of the busy check
    stale,        \* worker_sockets[round_robin][1] was closed already
    process,      \* each worker: "alive", "zombie", "reaped", or
                  \* "unforked": worker_pids is the -1 of a failed fork
    worker_pc,    \* where each worker is
    serving,      \* the client of each worker
    socket,       \* the descriptors in flight to each worker
    inherited,    \* what each worker got from main by a fork and never uses
    forked_after, \* the workers forked later than each worker
    received,     \* body.size(), in units, of the request of each worker
    content_length,
    log_queue,    \* how many messages the log queue holds
    logger,       \* "running", "gone" (a zombie) or "reaped"
    crashes, failures

main_vars == <<main_pc, in_hand, closed, round_robin, checked, stale>>
family_vars == <<process, inherited, forked_after>>
request_vars == <<received, content_length>>
worker_vars == <<worker_pc, serving, socket, request_vars>>
log_vars == <<log_queue, logger>>
fault_vars == <<crashes, failures>>
vars == <<client, main_vars, family_vars, worker_vars, log_vars, fault_vars>>

Init ==
    /\ client = [c \in Clients |-> "away"]
    /\ main_pc = "accept"
    /\ in_hand = Nobody
    /\ closed = TRUE
    /\ round_robin = 0
    /\ checked = 0
    /\ stale = FALSE
    /\ process = [w \in Workers |-> "alive"]
    /\ worker_pc = [w \in Workers |-> "recvmsg"]
    /\ serving = [w \in Workers |-> Nobody]
    /\ socket = [w \in Workers |-> <<>>]
    /\ inherited = [w \in Workers |-> {}]
    /\ forked_after = [w \in Workers |-> {v \in Workers : v > w}]
    /\ received = [w \in Workers |-> 0]
    /\ content_length = [w \in Workers |-> 0]
    /\ log_queue = 0
    /\ logger \in LoggerStates
    /\ crashes = 0
    /\ failures = 0

Become(cs, what) ==
    client' = [c \in Clients |-> IF c \in cs THEN what ELSE client[c]]

(* msgsnd without IPC_NOWAIT.                                              *)
log_event ==
    /\ log_queue < LogCapacity
    /\ log_queue' = log_queue + 1
    /\ UNCHANGED logger

Running(w) == process[w] = "alive"

(* Connections that reached the kernel and that nobody has accepted; it    *)
(* keeps them as long as a process has the listening socket open, and the  *)
(* workers forked by a restart have it.                                    *)
Backlog == {c \in Clients : client[c] = "backlog"}
ListenerElsewhere(w) ==
    \E v \in Workers \ {w} : Running(v) /\ Listener \in inherited[v]
Listening ==
    \/ main_pc # "dead"
    \/ \E w \in Workers : Running(w) /\ Listener \in inherited[w]

(* waitpid(worker_pids[w], WNOHANG), result says whether it was 0: so for  *)
(* a worker that runs; it reaps a zombie and fails for a worker reaped     *)
(* before.  When the fork had failed the pid is -1, which waits for ANY    *)
(* child, the logger included.                                             *)
Zombies == {w \in Workers : process[w] = "zombie"}
SomeChildRuns == logger = "running" \/ \E w \in Workers : Running(w)
Reap(w) == process' = [process EXCEPT ![w] = "reaped"]
waitpid(w, result) ==
    \/ /\ process[w] # "unforked"
       /\ result = Running(w)
       /\ IF process[w] = "zombie" THEN Reap(w) ELSE UNCHANGED process
       /\ UNCHANGED logger
    \/ /\ process[w] = "unforked"
       /\ \/ /\ Zombies = {} /\ logger # "gone"
             /\ result = SomeChildRuns
             /\ UNCHANGED <<process, logger>>
          \/ /\ result = FALSE
             /\ \E z \in Zombies : Reap(z)
             /\ UNCHANGED logger
          \/ /\ result = FALSE
             /\ logger = "gone" /\ logger' = "reaped"
             /\ UNCHANGED process

-----------------------------------------------------------------------------
(* The network and the logger.                                             *)

First(c, what) == client[c] = what /\ \A d \in 1 .. c - 1 : client[d] # what

Connect(c) ==
    /\ First(c, "away")
    /\ Listening
    /\ Become({c}, "backlog")
    /\ UNCHANGED <<main_vars, family_vars, worker_vars, log_vars, fault_vars>>

logger_process ==
    /\ logger = "running"
    /\ log_queue > 0
    /\ log_queue' = log_queue - 1
    /\ UNCHANGED <<client, main_vars, family_vars, worker_vars, logger,
                   fault_vars>>

-----------------------------------------------------------------------------
(* The dispatcher.  accept takes the oldest connection.                    *)

Accept(c) ==
    /\ main_pc = "accept"
    /\ First(c, "backlog")
    /\ Become({c}, "accepted")
    /\ in_hand' = c
    /\ closed' = FALSE
    /\ main_pc' = "test"
    /\ UNCHANGED <<round_robin, checked, stale, family_vars, worker_vars,
                   log_vars, fault_vars>>

TestWorker ==
    /\ main_pc = "test"
    /\ \E is_running \in BOOLEAN :
          /\ waitpid(round_robin, is_running)
          /\ main_pc' = IF is_running THEN "send" ELSE "log_restart"
    /\ UNCHANGED <<client, in_hand, closed, round_robin, checked, stale,
                   inherited, forked_after, worker_vars, log_queue,
                   fault_vars>>

(* Mutants: main keeps its descriptor; round_robin stays where it is.      *)
KeepAndAdvance ==
    /\ UNCHANGED closed
    /\ round_robin' = (round_robin + 1) % MAX_WORKERS
    /\ main_pc' = "check"
    /\ checked' = 0
CloseAndStay ==
    /\ closed' = TRUE
    /\ UNCHANGED round_robin
    /\ main_pc' = "check"
    /\ checked' = 0

(* close(client_socket), then round_robin and on to the busy check.        *)
CloseAndAdvance ==
    /\ closed' = TRUE
    /\ round_robin' = (round_robin + 1) % MAX_WORKERS
    /\ main_pc' = "check"
    /\ checked' = 0

SendFails == ~Running(round_robin)

(* sendmsg fails on the socket of a worker that died after the test, and   *)
(* on the one of a worker whose fork had failed.                           *)
SendSocket ==
    /\ main_pc = "send"
    /\ \/ /\ Running(round_robin)
          /\ Len(socket[round_robin]) < SocketCapacity
          /\ socket' = [socket EXCEPT ![round_robin] = Append(@, in_hand)]
          /\ Become({in_hand}, "sent")
       \/ /\ SendFails
          /\ Become({in_hand}, IF process[round_robin] = "unforked"
                               THEN "undelivered" ELSE "dropped")
          /\ UNCHANGED socket
    /\ CloseAndAdvance
    /\ UNCHANGED <<in_hand, stale, family_vars, worker_pc, serving,
                   request_vars, log_vars, fault_vars>>

LogRestart ==
    /\ main_pc = "log_restart"
    /\ log_event
    /\ main_pc' = "restart"
    /\ UNCHANGED <<client, in_hand, closed, round_robin, checked, stale,
                   family_vars, worker_vars, fault_vars>>

(* close(worker_sockets[round_robin][1]): after a socketpair that failed   *)
(* the number was free already, and accept may have given it to the        *)
(* connection in hand, which this close then closes.                       *)
ClosedInstead == IF stale THEN BOOLEAN ELSE {FALSE}

SocketpairFails ==
    /\ main_pc = "restart"
    /\ failures < MaxFailures
    /\ failures' = failures + 1
    /\ Become({in_hand}, "dropped")
    /\ in_hand' = Nobody
    /\ closed' = TRUE
    /\ stale' = TRUE
    /\ main_pc' = "accept"
    /\ UNCHANGED <<round_robin, checked, family_vars, worker_vars, log_vars,
                   crashes>>

RestartDone ==
    /\ main_pc = "restart"
    /\ closed' = TRUE
    /\ stale' = FALSE
    /\ main_pc' = "check"
    /\ checked' = 0
    /\ UNCHANGED <<in_hand, round_robin, log_vars, crashes>>

(* Nobody looks at a fork that returns -1; its socket pair has no reader.  *)
ForkFails ==
    /\ RestartDone
    /\ failures < MaxFailures
    /\ failures' = failures + 1
    /\ process' = [process EXCEPT ![round_robin] = "unforked"]
    /\ Become({in_hand}, "dropped")
    /\ UNCHANGED <<inherited, forked_after, worker_vars>>

(* main closes client_socket after the fork: the new worker keeps a copy,  *)
(* and one of the listening socket, for as long as it lives.               *)
Inheritance(is_closed) ==
    {Listener} \cup (IF is_closed THEN {} ELSE {in_hand})

(* Mutant: the pid of the new worker is not kept.                          *)
PidNotKept == UNCHANGED process

(* fork returns the pid of the new worker.                                 *)
Forked == process' = [process EXCEPT ![round_robin] = "alive"]

RestartWorker ==
    /\ RestartDone
    /\ \E is_closed \in ClosedInstead :
          /\ Become({in_hand}, IF is_closed THEN "dropped" ELSE "stranded")
          /\ inherited' = [inherited EXCEPT
                             ![round_robin] = Inheritance(is_closed)]
    /\ Forked
    /\ forked_after' = [w \in Workers |->
            IF w = round_robin THEN {} ELSE forked_after[w] \cup {round_robin}]
    /\ worker_pc' = [worker_pc EXCEPT ![round_robin] = "recvmsg"]
    /\ UNCHANGED <<serving, socket, request_vars, failures>>

(* The busy check asks the workers in turn until one runs.                 *)
NextTurn ==
    /\ in_hand' = Nobody
    /\ main_pc' = "accept"
    /\ UNCHANGED <<closed, round_robin, stale, inherited, forked_after,
                   worker_vars, log_queue, fault_vars>>

CheckWorker ==
    /\ main_pc = "check"
    /\ checked < MAX_WORKERS
    /\ \/ /\ waitpid(checked, TRUE)
          /\ NextTurn
          /\ checked' = 0
       \/ /\ waitpid(checked, FALSE)
          /\ checked' = checked + 1
          /\ UNCHANGED <<main_pc, in_hand, closed, round_robin, stale,
                         inherited, forked_after, worker_vars, log_queue,
                         fault_vars>>
    /\ UNCHANGED client

AllWorkersBusy ==
    /\ main_pc = "check"
    /\ checked = MAX_WORKERS
    /\ IF closed THEN UNCHANGED client ELSE Become({in_hand}, "got_503")
    /\ NextTurn
    /\ checked' = 0
    /\ UNCHANGED <<process, logger>>

(* The kernel closes what main had open.  Backlogged connections outlive   *)
(* it when a restarted worker has the listening socket: nobody accepts     *)
(* them any more.                                                          *)
MainDies ==
    /\ MainMayDie
    /\ main_pc # "dead"
    /\ main_pc' = "dead"
    /\ Become((IF closed THEN {} ELSE {in_hand})
                \cup (IF ListenerElsewhere(-1) THEN {} ELSE Backlog),
              "dropped")
    /\ in_hand' = Nobody
    /\ closed' = TRUE
    /\ round_robin' = 0
    /\ checked' = 0
    /\ stale' = FALSE
    /\ UNCHANGED <<family_vars, worker_vars, log_vars, fault_vars>>

-----------------------------------------------------------------------------
(* A worker.                                                               *)

At(w, label) == Running(w) /\ worker_pc[w] = label
Goto(w, label) == worker_pc' = [worker_pc EXCEPT ![w] = label]

Receive(w) ==
    /\ At(w, "recvmsg")
    /\ socket[w] # <<>>
    /\ serving' = [serving EXCEPT ![w] = Head(socket[w])]
    /\ socket' = [socket EXCEPT ![w] = Tail(@)]
    /\ Become({Head(socket[w])}, "in_service")
    /\ Goto(w, "log_handling")
    /\ UNCHANGED <<main_vars, family_vars, request_vars, log_vars, fault_vars>>

(* Mutant: the workers close the ends they inherit.                        *)
EndOfFileForAll(w) == main_pc = "dead" /\ socket[w] = <<>>

(* recvmsg returns 0 at once and for ever when no process has the other    *)
(* end open, and a process forked later has a copy of it; the loop takes   *)
(* this for a message without a descriptor.                                *)
EndOfFile(w) ==
    /\ main_pc = "dead"
    /\ socket[w] = <<>>
    /\ \A v \in forked_after[w] : ~Running(v)

Spin(w) ==
    /\ At(w, "recvmsg")
    /\ EndOfFile(w)
    /\ Goto(w, "spinning")
    /\ UNCHANGED <<client, main_vars, family_vars, serving, socket,
                   request_vars, log_vars, fault_vars>>

LogHandling(w) ==
    /\ At(w, "log_handling")
    /\ log_event
    /\ Goto(w, "handshake")
    /\ UNCHANGED <<client, main_vars, family_vars, serving, socket,
                   request_vars, fault_vars>>

WorkerSteps == <<client, main_vars, family_vars, serving, socket, log_vars,
                 fault_vars>>

(* SSL_accept succeeds or fails when the client gets round to it.          *)
Handshake(w) ==
    /\ At(w, "handshake")
    /\ Goto(w, "read") \/ Goto(w, "log_failed")
    /\ UNCHANGED <<WorkerSteps, request_vars>>

(* handle_client.  The first SSL_read brings the headers and possibly some *)
(* of the body; only a request with a Content-Length is kept in body.      *)
AfterRead(w, size, length) ==
    /\ received' = [received EXCEPT ![w] = size]
    /\ content_length' = [content_length EXCEPT ![w] = length]
    /\ Goto(w, IF size < length THEN "body" ELSE "handle")

ReadRequest(w) ==
    /\ At(w, "read")
    /\ \/ Goto(w, "log_failed") /\ UNCHANGED request_vars
       \/ AfterRead(w, 0, 0)
       \/ \E length \in 1 .. MaxBody, size \in HeaderSize .. BufferSize :
             size <= HeaderSize + length /\ AfterRead(w, size, length)
    /\ UNCHANGED WorkerSteps

ForgetRequest(w) ==
    /\ received' = [received EXCEPT ![w] = 0]
    /\ content_length' = [content_length EXCEPT ![w] = 0]

(* body started as a copy of the whole request: its size counts headers.   *)
ReadBody(w) ==
    /\ At(w, "body")
    /\ \/ Goto(w, "log_failed") /\ ForgetRequest(w)
       \/ \E size \in 1 .. BufferSize :
             /\ received[w] + size <= HeaderSize + content_length[w]
             /\ AfterRead(w, received[w] + size, content_length[w])
    /\ UNCHANGED WorkerSteps

(* Mutant: an early return that does not close the connection.             *)
HandleClientLeaks(w) ==
    /\ At(w, "handle")
    /\ Goto(w, "recvmsg") \/ Goto(w, "write")
    /\ ForgetRequest(w)
    /\ UNCHANGED WorkerSteps

(* An upload, a PHP page, or a file or an error page.                      *)
HandleClient(w) ==
    /\ At(w, "handle")
    /\ \E next \in {"log_post", "php", "write"} : Goto(w, next)
    /\ ForgetRequest(w)
    /\ UNCHANGED WorkerSteps

(* Every way out of handle_post_request logs one line.                     *)
handle_post_request(w) ==
    /\ At(w, "log_post")
    /\ log_event
    /\ Goto(w, "write")
    /\ UNCHANGED <<client, main_vars, family_vars, serving, socket,
                   request_vars, fault_vars>>

(* The worker waits until php-cgi has closed its output and ended.         *)
handle_php_request(w) ==
    /\ At(w, "php")
    /\ Goto(w, "write")
    /\ UNCHANGED <<WorkerSteps, request_vars>>

WriteResponse(w) ==
    /\ At(w, "write")
    /\ Goto(w, "log_write_error") \/ Goto(w, "log_handled")
    /\ UNCHANGED <<WorkerSteps, request_vars>>

LogWriteError(w) ==
    /\ At(w, "log_write_error")
    /\ log_event
    /\ Goto(w, "log_handled")
    /\ UNCHANGED <<client, main_vars, family_vars, serving, socket,
                   request_vars, fault_vars>>

LogAndClose(w) ==
    /\ At(w, "log_handled") \/ At(w, "log_failed")
    /\ log_event
    /\ Become({serving[w]},
              IF worker_pc[w] = "log_handled" THEN "handled" ELSE "failed")
    /\ serving' = [serving EXCEPT ![w] = Nobody]
    /\ Goto(w, "recvmsg")
    /\ UNCHANGED <<main_vars, family_vars, socket, request_vars, fault_vars>>

(* The kernel closes what a dead worker held, the descriptors in flight to *)
(* it and the ones it had inherited included.                              *)
HeldBy(w) ==
    {serving[w]} \cup {socket[w][i] : i \in DOMAIN socket[w]} \cup inherited[w]

Die(w) ==
    /\ At(w, "read") \/ At(w, "handle")
    /\ crashes < MaxCrashes
    /\ crashes' = crashes + 1
    /\ process' = [process EXCEPT ![w] = "zombie"]
    /\ Become(HeldBy(w)
                \cup (IF main_pc = "dead" /\ ~ListenerElsewhere(w)
                      THEN Backlog ELSE {}),
              "dropped")
    /\ serving' = [serving EXCEPT ![w] = Nobody]
    /\ socket' = [socket EXCEPT ![w] = <<>>]
    /\ inherited' = [inherited EXCEPT ![w] = {}]
    /\ ForgetRequest(w)
    /\ Goto(w, "recvmsg")
    /\ UNCHANGED <<main_vars, forked_after, log_vars, failures>>

-----------------------------------------------------------------------------
Main ==
    \/ \E c \in Clients : Accept(c)
    \/ TestWorker
    \/ SendSocket
    \/ LogRestart
    \/ SocketpairFails
    \/ ForkFails
    \/ RestartWorker
    \/ CheckWorker
    \/ AllWorkersBusy

Worker(w) ==
    \/ Receive(w)
    \/ Spin(w)
    \/ LogHandling(w)
    \/ Handshake(w)
    \/ ReadRequest(w)
    \/ ReadBody(w)
    \/ HandleClient(w)
    \/ handle_post_request(w)
    \/ handle_php_request(w)
    \/ WriteResponse(w)
    \/ LogWriteError(w)
    \/ LogAndClose(w)

Next ==
    \/ \E c \in Clients : Connect(c)
    \/ logger_process
    \/ Main
    \/ MainDies
    \/ \E w \in Workers : Worker(w) \/ Die(w)

Spec == Init /\ [][Next]_vars

(* The processes are scheduled; that a handshake, a request, a response    *)
(* and a PHP page end is an assumption on the clients and on php-cgi, the  *)
(* server has no timeout.  msgsnd serves its sleepers when the logger      *)
(* makes room: strong fairness, because other processes take the room in   *)
(* the meantime.                                                           *)
FairSpec ==
    /\ Spec
    /\ WF_vars(logger_process)
    /\ SF_vars(Main)
    /\ \A w \in Workers : SF_vars(Worker(w))

-----------------------------------------------------------------------------
(* Properties.                                                             *)

Places(c) ==
    (IF in_hand = c /\ ~closed THEN 1 ELSE 0)
    + Cardinality({w \in Workers : serving[w] = c})
    + Cardinality({w \in Workers : c \in inherited[w]})
    + Cardinality({wi \in Workers \X (1 .. SocketCapacity) :
                      wi[2] <= Len(socket[wi[1]])
                      /\ socket[wi[1]][wi[2]] = c})

(* A connection that is open has one place: main, a socket pair, the       *)
(* worker that serves it, or - stranded - the worker whose fork copied it; *)
(* one that was answered or dropped has none, no descriptor stays open     *)
(* behind it.                                                              *)
HeldOnce ==
    \A c \in Clients :
        Places(c) = IF client[c] \in {"accepted", "sent", "in_service",
                                      "stranded"}
                    THEN 1 ELSE 0

(* A dead worker costs the connection it served, the ones in flight to it, *)
(* one that main passed to it after its test, and the one at which main    *)
(* notices; then the worker is back.  A failed restart costs one more, the *)
(* dispatcher's death the one in its hand and the backlog.  Without a      *)
(* death nobody is dropped or stranded.                                    *)
DropsAreBounded ==
    main_pc # "dead" =>
        Cardinality({c \in Clients : client[c] \in {"dropped", "stranded"}})
            <= crashes * (SocketCapacity + 3) + failures

(* A worker whose fork failed looks alive, because waitpid(-1) answers for *)
(* the other children, and is not forked again while they all live: it     *)
(* costs the connections whose turn it is, for ever.  But no more: of any  *)
(* MAX_WORKERS connections in a row it costs one.                          *)
UndeliveredIsAShare ==
    LET undelivered == {c \in Clients : client[c] = "undelivered"}
    IN  failures <= 1 =>
          \A c, d \in undelivered : c < d => d - c >= MAX_WORKERS

(* After the dispatcher's death at most one worker spins in recvmsg: the   *)
(* others wait for ever for an end of file that the copies of main's ends  *)
(* in the workers forked after them hold back.                             *)
OneSpins ==
    Cardinality({w \in Workers : At(w, "spinning")}) <= 1

(* A connection the server has taken or has yet to take.  What is in the   *)
(* backlog when the dispatcher dies may wait for ever.                     *)
Pending(c) ==
    /\ client[c] \in {"backlog", "accepted", "sent", "in_service"}
    /\ ~(client[c] = "backlog" /\ main_pc = "dead")

(* The server gets through with its connections: each is answered, fails   *)
(* or is closed, unless it is stranded, although workers die, restarts     *)
(* fail and the dispatcher is killed - what a worker was sent before is    *)
(* still answered - provided the logger drains the queue and clients go on *)
(* (server.cpp:333-380, 450-516).  There are finitely many clients.        *)
ConnectionsEnd ==
    []<>(logger = "running" => \A c \in Clients : ~Pending(c))

(* server.cpp:253 "Read the remaining request body if Content-Length is    *)
(* larger than the initial buffer": when the request is handled, its whole *)
(* body has been read.  VIOLATED: the loop counts the headers as body and  *)
(* stops early, an upload loses its end, or all of it.                     *)
BodyIsRead ==
    \A w \in Workers :
        At(w, "handle") /\ content_length[w] > 0
          => received[w] = HeaderSize + content_length[w]

=============================================================================
