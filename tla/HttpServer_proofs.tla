-------------------------- MODULE HttpServer_proofs --------------------------
(***************************************************************************)
(* Proofs about the prefork server of server.cpp, for every number of      *)
(* workers, connections, deaths and failed restarts: where the descriptor  *)
(* of a connection is, how many connections the deaths cost, what a failed *)
(* fork costs, and who spins when the dispatcher is gone.                  *)
(***************************************************************************)
EXTENDS HttpServer, FiniteSetTheorems, TLAPS

Statuses == {"away", "backlog", "accepted", "sent", "in_service", "stranded",
             "handled", "failed", "dropped", "undelivered", "got_503"}
MainLabels == {"accept", "test", "send", "log_restart", "restart", "check", "dead"}
ServingLabels == {"log_handling", "handshake", "read", "body", "handle", "log_post",
                  "php", "write", "log_write_error", "log_handled", "log_failed"}
WorkerLabels == {"recvmsg", "spinning"} \cup ServingLabels

ClientOK == client \in [Clients -> Statuses]
MainOK ==
    /\ main_pc \in MainLabels
    /\ in_hand \in Clients \cup {Nobody}
    /\ closed \in BOOLEAN
    /\ round_robin \in Workers
    /\ checked \in 0 .. MAX_WORKERS
    /\ stale \in BOOLEAN
FamilyOK ==
    /\ process \in [Workers -> {"alive", "zombie", "reaped", "unforked"}]
    /\ inherited \in [Workers -> SUBSET (Clients \cup {Listener})]
    /\ forked_after \in [Workers -> SUBSET Workers]
WorkerOK ==
    /\ worker_pc \in [Workers -> WorkerLabels]
    /\ serving \in [Workers -> Clients \cup {Nobody}]
    /\ socket \in [Workers -> Seq(Clients)]
    /\ \A w \in Workers : Len(socket[w]) <= SocketCapacity
RequestOK ==
    /\ received \in [Workers -> Nat]
    /\ content_length \in [Workers -> Nat]
LogOK ==
    /\ log_queue \in 0 .. LogCapacity
    /\ logger \in {"running", "gone", "reaped"}
FaultOK == crashes \in Nat /\ failures \in Nat

TypeOK == /\ ClientOK /\ MainOK /\ FamilyOK /\ WorkerOK /\ RequestOK
          /\ LogOK /\ FaultOK

(* main has a connection in hand from accept to the busy check, and holds  *)
(* its descriptor until it has passed it on or given it up; it restarts    *)
(* only a worker that does not run.                                        *)
HandInv ==
    /\ in_hand # Nobody <=> main_pc \notin {"accept", "dead"}
    /\ ~closed <=> main_pc \in {"test", "send", "log_restart", "restart"}
    /\ main_pc = "send" => process[round_robin] # "reaped"
    /\ main_pc \in {"log_restart", "restart"} => ~Running(round_robin)

(* A worker in recvmsg serves nobody, and one that does not run holds no   *)
(* descriptor.                                                             *)
WorkersInv ==
    /\ \A w \in Workers :
          worker_pc[w] \in {"recvmsg", "spinning"} => serving[w] = Nobody
    /\ \A w \in Workers : ~Running(w) =>
          serving[w] = Nobody /\ socket[w] = <<>> /\ inherited[w] = {}

(* The places a connection can be in, and what became of it: at most one   *)
(* of each kind, and the kind tells what client says.                      *)
InHand(c) == in_hand = c /\ ~closed
Serves(w, c) == serving[w] = c
Queued(w, i, c) == i \in DOMAIN socket[w] /\ socket[w][i] = c
Inherits(w, c) == c \in inherited[w]

PlacesInv ==
    \A c \in Clients :
        /\ client[c] = "accepted" <=> InHand(c)
        /\ client[c] = "in_service" <=> \E w \in Workers : Serves(w, c)
        /\ client[c] = "sent" <=> \E w \in Workers, i \in 1 .. SocketCapacity : Queued(w, i, c)
        /\ client[c] = "stranded" <=> \E w \in Workers : Inherits(w, c)

UniqueInv ==
    \A c \in Clients, w, v \in Workers :
        /\ Serves(w, c) /\ Serves(v, c) => w = v
        /\ \A i, j \in 1 .. SocketCapacity :
              Queued(w, i, c) /\ Queued(v, j, c) => w = v /\ i = j
        /\ Inherits(w, c) /\ Inherits(v, c) => w = v

HoldInv == TypeOK /\ HandInv /\ WorkersInv /\ PlacesInv /\ UniqueInv

(* Of two workers one was forked after the other, and a spinning worker    *)
(* saw everybody forked after it gone, with nobody left to fork again.     *)
ForksInv ==
    /\ \A w, v \in Workers :
          w # v => v \in forked_after[w] \/ w \in forked_after[v]
    /\ \A w \in Workers : At(w, "spinning") =>
          main_pc = "dead" /\ \A v \in forked_after[w] : ~Running(v)

(* What the deaths may still cost: the next restart of every worker that   *)
(* does not run, and the connection that main passes to a worker which     *)
(* died after the test.                                                    *)
LostClients == {c \in Clients : client[c] \in {"dropped", "stranded"}}
Down == {w \in Workers : ~Running(w)}
PassedTooLate == main_pc = "send" /\ process[round_robin] = "zombie"

Owed == Cardinality(LostClients) + Cardinality(Down) + (IF PassedTooLate THEN 1 ELSE 0)
Allowed == crashes * (SocketCapacity + 3) + failures

DropInv == main_pc # "dead" => Owed <= Allowed

(* Connections are taken in the order of their numbers.                    *)
OrderInv ==
    \A c, d \in Clients : c < d =>
        /\ client[c] = "away" => client[d] = "away"
        /\ client[c] \in {"away", "backlog"} => client[d] \in {"away", "backlog"}
        /\ client[c] = "accepted" => client[d] \in {"away", "backlog"}

(* How many turns after its last one the next turn of w is, at least one;  *)
(* whoever has yet to be given to a worker comes as many connections after *)
(* each that was sent to a worker which does not exist.                    *)
TurnsSince(w) ==
    IF round_robin > w THEN round_robin - w ELSE round_robin - w + MAX_WORKERS
ToCome(c) == client[c] \in {"away", "backlog", "accepted"}

Unforked(w) == process[w] = "unforked"
Undelivered == {c \in Clients : client[c] = "undelivered"}

ShareInv ==
    /\ failures = 0 => Undelivered = {} /\ \A w \in Workers : ~Unforked(w)
    /\ failures <= 1 =>
          /\ \A w, v \in Workers : Unforked(w) /\ Unforked(v) => w = v
          /\ main_pc # "dead" =>
                \A w \in Workers, c \in Undelivered, d \in Clients :
                    Unforked(w) /\ ToCome(d) => d - c >= TurnsSince(w)
          /\ \A c, d \in Undelivered : c < d => d - c >= MAX_WORKERS

-----------------------------------------------------------------------------
(* What the steps leave alone.                                             *)
LEMMA BecomeEffect ==
    ASSUME ClientOK, NEW cs, NEW what \in Statuses, Become(cs, what)
    PROVE  /\ ClientOK'
           /\ \A c \in Clients : client'[c] = IF c \in cs THEN what ELSE client[c]
  BY DEF Become, ClientOK

LEMMA NoneChecked == 0 \in 0 .. MAX_WORKERS
  BY ServerAssumption

LEMMA NextWorker ==
    ASSUME NEW r \in Workers
    PROVE  /\ (r + 1) % MAX_WORKERS \in Workers
           /\ (r + 1) % MAX_WORKERS = IF r = MAX_WORKERS - 1 THEN 0 ELSE r + 1
  <1>1. MAX_WORKERS \in Nat \ {0} /\ r \in 0 .. MAX_WORKERS - 1
    BY ServerAssumption DEF Workers
  <1>2. CASE r = MAX_WORKERS - 1
    <2>1. r + 1 = MAX_WORKERS
      BY <1>1, <1>2
    <2>2. MAX_WORKERS % MAX_WORKERS = 0
      BY <1>1
    <2> QED
      BY <1>1, <1>2, <2>1, <2>2 DEF Workers
  <1>3. CASE r # MAX_WORKERS - 1
    <2>1. r + 1 \in 0 .. MAX_WORKERS - 1
      BY <1>1, <1>3
    <2>2. (r + 1) % MAX_WORKERS = r + 1
      BY <1>1, <2>1
    <2> QED
      BY <1>3, <2>1, <2>2 DEF Workers
  <1> QED
    BY <1>2, <1>3

(* waitpid reaps a zombie and nothing else: it makes no worker run or stop *)
(* and forgets no failed fork.  That it reports a worker as running tells  *)
(* only that main has not reaped it.                                       *)
LEMMA WaitpidEffect ==
    ASSUME TypeOK, NEW w \in Workers, NEW result \in BOOLEAN, waitpid(w, result)
    PROVE  /\ process' \in [Workers -> {"alive", "zombie", "reaped", "unforked"}]
           /\ logger' \in {"running", "gone", "reaped"}
           /\ \A v \in Workers : Running(v)' <=> Running(v)
           /\ \A v \in Workers : process'[v] = "unforked" <=> process[v] = "unforked"
           /\ result => process'[w] \in {"alive", "unforked"}
           /\ ~result => ~Running(w)
  <1>1. process \in [Workers -> {"alive", "zombie", "reaped", "unforked"}]
        /\ logger \in {"running", "gone", "reaped"}
    BY DEF TypeOK, FamilyOK, LogOK
  <1>2. CASE process[w] # "unforked"
    <2>1. /\ result = Running(w) /\ logger' = logger
          /\ process' = process \/ (process[w] = "zombie" /\ Reap(w))
      BY <1>2 DEF waitpid
    <2> QED
      BY <1>1, <1>2, <2>1 DEF Reap, Running
  <1>3. CASE process[w] = "unforked"
    <2>1. \/ process' = process /\ logger' = logger
          \/ result = FALSE /\ logger' = logger /\ \E z \in Zombies : Reap(z)
          \/ result = FALSE /\ logger' = "reaped" /\ process' = process
      BY <1>3 DEF waitpid
    <2>2. ASSUME NEW z \in Zombies, Reap(z), ~result
          PROVE  /\ process' \in [Workers -> {"alive", "zombie", "reaped", "unforked"}]
                 /\ \A v \in Workers : Running(v)' <=> Running(v)
                 /\ \A v \in Workers : process'[v] = "unforked" <=> process[v] = "unforked"
      BY <1>1, <2>2 DEF Reap, Running, Zombies
    <2> QED
      BY <1>1, <1>3, <2>1, <2>2 DEF Running
  <1> QED
    BY <1>2, <1>3

(* The steps of a worker between recvmsg and the close at the end move its *)
(* program counter, its request and the log queue only.                    *)
Serving(w) ==
    \/ LogHandling(w)
    \/ Handshake(w)
    \/ ReadRequest(w)
    \/ ReadBody(w)
    \/ HandleClient(w)
    \/ handle_post_request(w)
    \/ handle_php_request(w)
    \/ WriteResponse(w)
    \/ LogWriteError(w)

LEMMA RequestType ==
    ASSUME TypeOK, NEW w \in Workers, ReadRequest(w) \/ ReadBody(w) \/ HandleClient(w)
    PROVE  RequestOK' /\ \E to \in ServingLabels : Goto(w, to)
  <1> USE DEF RequestOK
  <1>1. /\ RequestOK
        /\ HeaderSize \in Nat /\ BufferSize \in Nat /\ MaxBody \in Nat
    BY ServerAssumption DEF TypeOK
  <1>2. ASSUME NEW size \in Nat, NEW length \in Nat, AfterRead(w, size, length)
        PROVE  RequestOK' /\ \E to \in ServingLabels : Goto(w, to)
    BY <1>1, <1>2 DEF AfterRead, ServingLabels
  <1>3. ASSUME ForgetRequest(w)
        PROVE  RequestOK'
    BY <1>1, <1>3 DEF ForgetRequest
  <1>4. CASE ReadRequest(w)
    <2>1. \/ Goto(w, "log_failed") /\ UNCHANGED request_vars
          \/ AfterRead(w, 0, 0)
          \/ \E length \in 1 .. MaxBody, size \in HeaderSize .. BufferSize :
                AfterRead(w, size, length)
      BY <1>4 DEF ReadRequest
    <2>2. 1 .. MaxBody \subseteq Nat /\ HeaderSize .. BufferSize \subseteq Nat
      BY <1>1
    <2>3. CASE Goto(w, "log_failed") /\ UNCHANGED request_vars
      BY <1>1, <2>3 DEF request_vars, ServingLabels
    <2> QED
      BY <1>2, <2>1, <2>2, <2>3
  <1>5. CASE ReadBody(w)
    <2>1. \/ Goto(w, "log_failed") /\ ForgetRequest(w)
          \/ \E size \in 1 .. BufferSize :
                AfterRead(w, received[w] + size, content_length[w])
      BY <1>5 DEF ReadBody
    <2>2. \A size \in 1 .. BufferSize : received[w] + size \in Nat
      BY <1>1
    <2>3. content_length[w] \in Nat
      BY <1>1
    <2>4. CASE Goto(w, "log_failed") /\ ForgetRequest(w)
      BY <1>3, <2>4 DEF ServingLabels
    <2>5. ASSUME NEW size \in 1 .. BufferSize,
                 AfterRead(w, received[w] + size, content_length[w])
          PROVE  RequestOK' /\ \E to \in ServingLabels : Goto(w, to)
      BY <1>2, <2>2, <2>3, <2>5
    <2> QED
      BY <2>1, <2>4, <2>5
  <1>6. CASE HandleClient(w)
    BY <1>3, <1>6 DEF HandleClient, ServingLabels
  <1> QED
    BY <1>4, <1>5, <1>6

LEMMA ServingEffect ==
    ASSUME TypeOK, NEW w \in Workers, Serving(w)
    PROVE  /\ UNCHANGED <<client, main_vars, family_vars, serving, socket, logger,
                          fault_vars>>
           /\ worker_pc[w] \in ServingLabels
           /\ \E to \in ServingLabels : worker_pc' = [worker_pc EXCEPT ![w] = to]
           /\ RequestOK' /\ LogOK'
  <1> USE DEF RequestOK, LogOK
  <1>1. RequestOK /\ LogOK /\ LogCapacity \in Nat
    BY ServerAssumption DEF TypeOK
  <1>2. ASSUME log_event
        PROVE  LogOK' /\ logger' = logger
    BY <1>1, <1>2 DEF log_event
  <1>3. CASE LogHandling(w)
    BY <1>1, <1>2, <1>3 DEF LogHandling, At, Goto, ServingLabels, request_vars
  <1>4. CASE Handshake(w) \/ handle_php_request(w) \/ WriteResponse(w)
    BY <1>1, <1>4 DEF Handshake, handle_php_request, WriteResponse, At, Goto,
                      ServingLabels, WorkerSteps, request_vars, log_vars
  <1>5. CASE ReadRequest(w) \/ ReadBody(w) \/ HandleClient(w)
    BY <1>1, <1>5, RequestType DEF ReadRequest, ReadBody, HandleClient, At, Goto,
                      ServingLabels, WorkerSteps, log_vars
  <1>6. CASE handle_post_request(w) \/ LogWriteError(w)
    BY <1>1, <1>2, <1>6 DEF handle_post_request, LogWriteError, At, Goto,
                      ServingLabels, request_vars
  <1> QED
    BY <1>3, <1>4, <1>5, <1>6 DEF Serving

-----------------------------------------------------------------------------
(* Where the descriptors are: a step of the network, of the dispatcher, of *)
(* a worker, each keeps HoldInv.                                           *)
Frames == <<main_vars, family_vars, worker_vars, log_vars, fault_vars>>

LEMMA SameUnique ==
    ASSUME UniqueInv, UNCHANGED <<serving, socket, inherited>>
    PROVE  UniqueInv'
  <1>1. \A w \in Workers, c \in Clients : Serves(w, c)' <=> Serves(w, c)
    BY DEF Serves
  <1>2. \A w \in Workers, c \in Clients : Inherits(w, c)' <=> Inherits(w, c)
    BY DEF Inherits
  <1>3. \A w \in Workers, i \in 1 .. SocketCapacity, c \in Clients :
           Queued(w, i, c)' <=> Queued(w, i, c)
    BY DEF Queued
  <1> QED
    BY <1>1, <1>2, <1>3 DEF UniqueInv

LEMMA SamePlaces ==
    ASSUME PlacesInv, UniqueInv, client' = client,
           \A c \in Clients : InHand(c)' <=> InHand(c),
           UNCHANGED <<serving, socket, inherited>>
    PROVE  PlacesInv' /\ UniqueInv'
  <1>1. \A w \in Workers, c \in Clients : Serves(w, c)' <=> Serves(w, c)
    BY DEF Serves
  <1>2. \A w \in Workers, c \in Clients : Inherits(w, c)' <=> Inherits(w, c)
    BY DEF Inherits
  <1>3. \A w \in Workers, i \in 1 .. SocketCapacity, c \in Clients :
           Queued(w, i, c)' <=> Queued(w, i, c)
    BY DEF Queued
  <1>4. PlacesInv'
    BY <1>1, <1>2, <1>3 DEF PlacesInv
  <1>5. UniqueInv'
    BY SameUnique
  <1> QED
    BY <1>4, <1>5

LEMMA ServingHolds ==
    ASSUME HoldInv, NEW w \in Workers, Serving(w)
    PROVE  HoldInv'
  <1>1. /\ UNCHANGED <<client, main_vars, family_vars, serving, socket, logger,
                       fault_vars>>
        /\ worker_pc[w] \in ServingLabels
        /\ \E to \in ServingLabels : worker_pc' = [worker_pc EXCEPT ![w] = to]
        /\ RequestOK' /\ LogOK'
    BY ServingEffect DEF HoldInv
  <1>2. TypeOK'
    BY <1>1 DEF HoldInv, TypeOK, ClientOK, MainOK, FamilyOK, WorkerOK, FaultOK,
                WorkerLabels, main_vars, family_vars, fault_vars
  <1>3. HandInv'
    BY <1>1 DEF HoldInv, HandInv, Running, main_vars, family_vars
  <1>4. WorkersInv'
    BY <1>1 DEF HoldInv, TypeOK, WorkerOK, WorkersInv, Running, family_vars,
                WorkerLabels, ServingLabels
  <1>5. PlacesInv' /\ UniqueInv'
    BY <1>1, SamePlaces DEF HoldInv, InHand, main_vars, family_vars
  <1> QED
    BY <1>2, <1>3, <1>4, <1>5 DEF HoldInv

LEMMA SpinHolds ==
    ASSUME HoldInv, NEW w \in Workers, Spin(w)
    PROVE  HoldInv'
  <1>1. /\ UNCHANGED <<client, main_vars, family_vars, serving, socket,
                       request_vars, log_vars, fault_vars>>
        /\ worker_pc[w] = "recvmsg"
        /\ worker_pc' = [worker_pc EXCEPT ![w] = "spinning"]
    BY DEF Spin, At, Goto
  <1>2. TypeOK'
    BY <1>1 DEF HoldInv, TypeOK, ClientOK, MainOK, FamilyOK, WorkerOK, FaultOK,
                RequestOK, LogOK, WorkerLabels,
                main_vars, family_vars, request_vars, log_vars, fault_vars
  <1>3. HandInv'
    BY <1>1 DEF HoldInv, HandInv, Running, main_vars, family_vars
  <1>4. WorkersInv'
    BY <1>1 DEF HoldInv, TypeOK, WorkerOK, WorkersInv, Running, family_vars
  <1>5. PlacesInv' /\ UniqueInv'
    BY <1>1, SamePlaces DEF HoldInv, InHand, main_vars, family_vars
  <1> QED
    BY <1>2, <1>3, <1>4, <1>5 DEF HoldInv

LEMMA LoggerHolds ==
    ASSUME HoldInv, logger_process \/ UNCHANGED vars
    PROVE  HoldInv'
  <1>1. UNCHANGED <<client, main_vars, family_vars, worker_vars, logger, fault_vars>>
    BY DEF logger_process, vars, log_vars
  <1>2. LogOK'
    BY ServerAssumption DEF HoldInv, TypeOK, LogOK, logger_process, vars, log_vars
  <1>3. TypeOK'
    BY <1>1, <1>2 DEF HoldInv, TypeOK, ClientOK, MainOK, FamilyOK, WorkerOK, FaultOK,
                RequestOK, main_vars, family_vars, worker_vars, request_vars, fault_vars
  <1>4. HandInv'
    BY <1>1 DEF HoldInv, HandInv, Running, main_vars, family_vars
  <1>5. WorkersInv'
    BY <1>1 DEF HoldInv, WorkersInv, Running, family_vars, worker_vars
  <1>6. PlacesInv' /\ UniqueInv'
    BY <1>1, SamePlaces DEF HoldInv, InHand, main_vars, family_vars, worker_vars
  <1> QED
    BY <1>3, <1>4, <1>5, <1>6 DEF HoldInv

LEMMA ConnectHolds ==
    ASSUME HoldInv, NEW n \in Clients, Connect(n)
    PROVE  HoldInv'
  <1>1. UNCHANGED Frames /\ client[n] = "away" /\ Become({n}, "backlog")
    BY DEF Connect, First, Frames
  <1>2. /\ ClientOK'
        /\ \A c \in Clients : client'[c] = IF c = n THEN "backlog" ELSE client[c]
    BY <1>1, BecomeEffect DEF HoldInv, TypeOK, Statuses
  <1>3. TypeOK'
    BY <1>1, <1>2 DEF HoldInv, TypeOK, MainOK, FamilyOK, WorkerOK, FaultOK, LogOK,
                RequestOK, Frames, main_vars, family_vars, worker_vars, request_vars,
                log_vars, fault_vars
  <1>4. HandInv' /\ WorkersInv'
    BY <1>1 DEF HoldInv, HandInv, WorkersInv, Running, Frames, main_vars,
                family_vars, worker_vars
  <1>5. \A w \in Workers, c \in Clients :
           /\ Serves(w, c)' <=> Serves(w, c)
           /\ Inherits(w, c)' <=> Inherits(w, c)
           /\ InHand(c)' <=> InHand(c)
           /\ \A i \in 1 .. SocketCapacity : Queued(w, i, c)' <=> Queued(w, i, c)
    BY <1>1 DEF Serves, Inherits, InHand, Queued, Frames, main_vars, family_vars,
                worker_vars
  <1>6. 0 \in Workers
    BY ServerAssumption DEF Workers
  <1>7. PlacesInv'
    BY <1>1, <1>2, <1>5, <1>6 DEF HoldInv, PlacesInv
  <1>8. UniqueInv'
    BY <1>1, SameUnique DEF HoldInv, Frames, family_vars, worker_vars
  <1> QED
    BY <1>3, <1>4, <1>7, <1>8 DEF HoldInv

LEMMA AcceptHolds ==
    ASSUME HoldInv, NEW n \in Clients, Accept(n)
    PROVE  HoldInv'
  <1>1. /\ UNCHANGED <<round_robin, checked, stale, family_vars, worker_vars,
                       log_vars, fault_vars>>
        /\ main_pc = "accept" /\ main_pc' = "test"
        /\ in_hand' = n /\ closed' = FALSE
        /\ client[n] = "backlog" /\ Become({n}, "accepted")
    BY DEF Accept, First
  <1>2. /\ ClientOK'
        /\ \A c \in Clients : client'[c] = IF c = n THEN "accepted" ELSE client[c]
    BY <1>1, BecomeEffect DEF HoldInv, TypeOK, Statuses
  <1>3. TypeOK'
    BY <1>1, <1>2 DEF HoldInv, TypeOK, MainOK, MainLabels, FamilyOK, WorkerOK,
                FaultOK, LogOK, RequestOK, family_vars, worker_vars, request_vars,
                log_vars, fault_vars
  <1>4. HandInv'
    BY <1>1 DEF HandInv, Clients, Nobody
  <1>5. WorkersInv'
    BY <1>1 DEF HoldInv, WorkersInv, Running, family_vars, worker_vars
  <1>6. \A w \in Workers, c \in Clients :
           /\ Serves(w, c)' <=> Serves(w, c)
           /\ Inherits(w, c)' <=> Inherits(w, c)
           /\ \A i \in 1 .. SocketCapacity : Queued(w, i, c)' <=> Queued(w, i, c)
    BY <1>1 DEF Serves, Inherits, Queued, family_vars, worker_vars
  <1>7. \A c \in Clients : ~InHand(c) /\ (InHand(c)' <=> c = n)
    BY <1>1 DEF InHand, HoldInv, HandInv
  <1>8. PlacesInv'
    BY <1>1, <1>2, <1>6, <1>7 DEF HoldInv, PlacesInv
  <1>9. UniqueInv'
    BY <1>1, SameUnique DEF HoldInv, family_vars, worker_vars
  <1> QED
    BY <1>3, <1>4, <1>5, <1>8, <1>9 DEF HoldInv

LEMMA TestHolds ==
    ASSUME HoldInv, TestWorker
    PROVE  HoldInv'
  <1>1. PICK is_running \in BOOLEAN :
          /\ waitpid(round_robin, is_running)
          /\ main_pc' = IF is_running THEN "send" ELSE "log_restart"
    BY DEF TestWorker
  <1>2. /\ UNCHANGED <<client, in_hand, closed, round_robin, checked, stale,
                       inherited, forked_after, worker_vars, log_queue, fault_vars>>
        /\ main_pc = "test"
    BY DEF TestWorker
  <1>3. round_robin \in Workers
    BY DEF HoldInv, TypeOK, MainOK
  <1>4. /\ process' \in [Workers -> {"alive", "zombie", "reaped", "unforked"}]
        /\ logger' \in {"running", "gone", "reaped"}
        /\ \A v \in Workers : Running(v)' <=> Running(v)
        /\ is_running => process'[round_robin] \in {"alive", "unforked"}
        /\ ~is_running => ~Running(round_robin)
    BY <1>1, <1>3, WaitpidEffect DEF HoldInv
  <1>5. TypeOK'
    BY <1>1, <1>2, <1>4 DEF HoldInv, TypeOK, ClientOK, MainOK, MainLabels, FamilyOK,
        WorkerOK, FaultOK, LogOK, RequestOK, worker_vars, request_vars, fault_vars
  <1>6. HandInv'
    BY <1>1, <1>2, <1>3, <1>4 DEF HoldInv, HandInv, Running
  <1>7. WorkersInv'
    BY <1>2, <1>4 DEF HoldInv, WorkersInv, worker_vars
  <1>8. PlacesInv' /\ UniqueInv'
    BY <1>2, SamePlaces DEF HoldInv, InHand, worker_vars
  <1> QED
    BY <1>5, <1>6, <1>7, <1>8 DEF HoldInv

LEMMA CheckHolds ==
    ASSUME HoldInv, CheckWorker
    PROVE  HoldInv'
  <1>1. /\ UNCHANGED <<client, closed, round_robin, stale, inherited, forked_after,
                       worker_vars, log_queue, fault_vars>>
        /\ main_pc = "check" /\ checked < MAX_WORKERS
        /\ \E result \in BOOLEAN : waitpid(checked, result)
        /\ \/ main_pc' = "accept" /\ in_hand' = Nobody /\ checked' = 0
           \/ main_pc' = main_pc /\ in_hand' = in_hand /\ checked' = checked + 1
    BY DEF CheckWorker, NextTurn
  <1>2. checked \in Workers /\ checked' \in 0 .. MAX_WORKERS
    BY <1>1, ServerAssumption DEF HoldInv, TypeOK, MainOK, Workers
  <1>3. /\ process' \in [Workers -> {"alive", "zombie", "reaped", "unforked"}]
        /\ logger' \in {"running", "gone", "reaped"}
        /\ \A v \in Workers : Running(v)' <=> Running(v)
    BY <1>1, <1>2, WaitpidEffect DEF HoldInv
  <1>4. TypeOK'
    BY <1>1, <1>2, <1>3 DEF HoldInv, TypeOK, ClientOK, MainOK, MainLabels, FamilyOK,
        WorkerOK, FaultOK, LogOK, RequestOK, worker_vars, request_vars, fault_vars
  <1>5. closed
    BY <1>1 DEF HoldInv, HandInv
  <1>6. HandInv'
    BY <1>1, <1>5 DEF HoldInv, HandInv
  <1>7. WorkersInv'
    BY <1>1, <1>3 DEF HoldInv, WorkersInv, worker_vars
  <1>8. PlacesInv' /\ UniqueInv'
    BY <1>1, <1>5, SamePlaces DEF HoldInv, InHand, worker_vars
  <1> QED
    BY <1>4, <1>6, <1>7, <1>8 DEF HoldInv

LEMMA LogRestartHolds ==
    ASSUME HoldInv, LogRestart
    PROVE  HoldInv'
  <1>1. /\ UNCHANGED <<client, in_hand, closed, round_robin, checked, stale,
                       family_vars, worker_vars, fault_vars, logger>>
        /\ main_pc = "log_restart" /\ main_pc' = "restart"
    BY DEF LogRestart, log_event
  <1>2. LogOK'
    BY ServerAssumption DEF HoldInv, TypeOK, LogOK, LogRestart, log_event
  <1>3. TypeOK'
    BY <1>1, <1>2 DEF HoldInv, TypeOK, ClientOK, MainOK, MainLabels, FamilyOK,
        WorkerOK, FaultOK, RequestOK, family_vars, worker_vars, request_vars, fault_vars
  <1>4. HandInv' /\ WorkersInv'
    BY <1>1 DEF HoldInv, HandInv, WorkersInv, Running, family_vars, worker_vars
  <1>5. PlacesInv' /\ UniqueInv'
    BY <1>1, SamePlaces DEF HoldInv, InHand, family_vars, worker_vars
  <1> QED
    BY <1>3, <1>4, <1>5 DEF HoldInv

(* closed is always set when the busy check ends, so nobody gets the 503.  *)
LEMMA BusyHolds ==
    ASSUME HoldInv, AllWorkersBusy
    PROVE  HoldInv'
  <1>1. closed
    BY DEF HoldInv, HandInv, AllWorkersBusy
  <1>2. /\ UNCHANGED <<client, closed, round_robin, stale, family_vars, worker_vars,
                       log_vars, fault_vars>>
        /\ main_pc' = "accept" /\ in_hand' = Nobody /\ checked' = 0
    BY <1>1 DEF AllWorkersBusy, NextTurn, family_vars, log_vars
  <1>3. TypeOK'
    BY <1>2, ServerAssumption DEF HoldInv, TypeOK, ClientOK, MainOK, MainLabels,
        FamilyOK, WorkerOK, FaultOK, LogOK, RequestOK, family_vars, worker_vars,
        request_vars, log_vars, fault_vars
  <1>4. HandInv' /\ WorkersInv'
    BY <1>1, <1>2 DEF HoldInv, HandInv, WorkersInv, Running, family_vars, worker_vars
  <1>5. PlacesInv' /\ UniqueInv'
    BY <1>1, <1>2, SamePlaces DEF HoldInv, InHand, family_vars, worker_vars
  <1> QED
    BY <1>3, <1>4, <1>5 DEF HoldInv

(* main gives up the connection in its hand, and nobody else gets it.      *)
LEMMA GivenUp ==
    ASSUME PlacesInv, UniqueInv, NEW h \in Clients, InHand(h),
           NEW what \in Statuses \ {"accepted", "sent", "in_service", "stranded"},
           \A c \in Clients : client'[c] = IF c = h THEN what ELSE client[c],
           \A c \in Clients : ~InHand(c)',
           UNCHANGED <<serving, socket, inherited>>
    PROVE  PlacesInv' /\ UniqueInv'
  <1>1. \A w \in Workers, c \in Clients :
           /\ Serves(w, c)' <=> Serves(w, c)
           /\ Inherits(w, c)' <=> Inherits(w, c)
           /\ \A i \in 1 .. SocketCapacity : Queued(w, i, c)' <=> Queued(w, i, c)
    BY DEF Serves, Inherits, Queued
  <1>2. client[h] = "accepted" /\ \A c \in Clients : InHand(c) => c = h
    BY DEF PlacesInv, InHand
  <1>3. PlacesInv'
    BY <1>1, <1>2 DEF PlacesInv
  <1>4. UniqueInv'
    BY SameUnique
  <1> QED
    BY <1>3, <1>4

LEMMA HandIsAClient ==
    ASSUME HoldInv, main_pc \in {"test", "send", "log_restart", "restart"}
    PROVE  /\ in_hand \in Clients /\ InHand(in_hand) /\ round_robin \in Workers
           /\ ~closed /\ client[in_hand] = "accepted"
  BY DEF HoldInv, HandInv, TypeOK, MainOK, InHand, PlacesInv

LEMMA AppendedAt ==
    ASSUME NEW s \in Seq(Clients), NEW e \in Clients, NEW i, NEW c
    PROVE  i \in DOMAIN Append(s, e) /\ Append(s, e)[i] = c
             <=> (i \in DOMAIN s /\ s[i] = c) \/ (i = Len(s) + 1 /\ c = e)
  <1>1. DOMAIN Append(s, e) = 1 .. Len(s) + 1 /\ DOMAIN s = 1 .. Len(s) /\ Len(s) \in Nat
    OBVIOUS
  <1>2. CASE i \in 1 .. Len(s)
    <2>1. Append(s, e)[i] = s[i] /\ i # Len(s) + 1
      BY <1>2
    <2> QED
      BY <1>1, <1>2, <2>1
  <1>3. CASE i = Len(s) + 1
    <2>1. Append(s, e)[i] = e /\ i \notin 1 .. Len(s)
      BY <1>3
    <2> QED
      BY <1>1, <1>3, <2>1
  <1>4. CASE i \notin 1 .. Len(s) + 1
    BY <1>1, <1>4
  <1> QED
    BY <1>1, <1>2, <1>3, <1>4

LEMMA SendHolds ==
    ASSUME HoldInv, SendSocket
    PROVE  HoldInv'
  <1>1. /\ main_pc = "send" /\ main_pc' = "check" /\ closed' = TRUE /\ checked' = 0
        /\ round_robin' = (round_robin + 1) % MAX_WORKERS
        /\ UNCHANGED <<in_hand, stale, family_vars, worker_pc, serving,
                       request_vars, log_vars, fault_vars>>
    BY DEF SendSocket, CloseAndAdvance
  <1>2. /\ in_hand \in Clients /\ InHand(in_hand) /\ round_robin \in Workers
        /\ ~closed /\ client[in_hand] = "accepted"
    BY <1>1, HandIsAClient
  <1>3. MainOK'
    BY <1>1, <1>2, NextWorker, ServerAssumption DEF HoldInv, TypeOK, MainOK, MainLabels
  <1>4. HandInv'
    BY <1>1 DEF HoldInv, HandInv
  <1>5. \A c \in Clients : /\ ~InHand(c)'
                           /\ InHand(c) <=> c = in_hand
    BY <1>1, <1>2 DEF InHand
  <1>6. CASE SendFails /\ UNCHANGED socket
    <2>1. PICK what \in {"undelivered", "dropped"} : Become({in_hand}, what)
      BY <1>6, <1>1 DEF SendSocket, SendFails
    <2>2. /\ ClientOK'
          /\ \A c \in Clients : client'[c] = IF c = in_hand THEN what ELSE client[c]
      <3>1. ClientOK /\ what \in Statuses
        BY DEF HoldInv, TypeOK, Statuses
      <3> QED
        BY <2>1, <3>1, BecomeEffect
    <2>3. TypeOK'
      BY <1>1, <1>3, <1>6, <2>2 DEF HoldInv, TypeOK, FamilyOK, WorkerOK, FaultOK,
          LogOK, RequestOK, family_vars, request_vars, log_vars, fault_vars
    <2>4. WorkersInv'
      BY <1>1, <1>6 DEF HoldInv, WorkersInv, Running, family_vars
    <2>5. what \in Statuses \ {"accepted", "sent", "in_service", "stranded"}
      BY DEF Statuses
    <2>6. UNCHANGED <<serving, socket, inherited>>
      BY <1>1, <1>6 DEF family_vars
    <2>7. PlacesInv' /\ UniqueInv'
      BY <1>2, <1>5, <2>2, <2>5, <2>6, GivenUp DEF HoldInv
    <2> QED
      BY <1>4, <2>3, <2>4, <2>7 DEF HoldInv
  <1>7. CASE /\ Running(round_robin) /\ Len(socket[round_robin]) < SocketCapacity
             /\ socket' = [socket EXCEPT ![round_robin] = Append(@, in_hand)]
             /\ Become({in_hand}, "sent")
    <2> DEFINE k == Len(socket[round_robin]) + 1
    <2>1. /\ ClientOK'
          /\ \A c \in Clients : client'[c] = IF c = in_hand THEN "sent" ELSE client[c]
      BY <1>7, BecomeEffect DEF HoldInv, TypeOK, Statuses
    <2>2. /\ socket \in [Workers -> Seq(Clients)] /\ SocketCapacity \in Nat
          /\ \A w \in Workers : Len(socket[w]) <= SocketCapacity
      BY ServerAssumption DEF HoldInv, TypeOK, WorkerOK
    <2>3. /\ Append(socket[round_robin], in_hand) \in Seq(Clients)
          /\ Len(Append(socket[round_robin], in_hand)) = k
          /\ k \in 1 .. SocketCapacity
      BY <1>2, <1>7, <2>2
    <2>4. \A w \in Workers : socket'[w] = IF w = round_robin
                     THEN Append(socket[round_robin], in_hand) ELSE socket[w]
      BY <1>7, <2>2
    <2>5. /\ socket' \in [Workers -> Seq(Clients)]
          /\ \A w \in Workers : Len(socket'[w]) <= SocketCapacity
      BY <1>2, <1>7, <2>2, <2>3, <2>4
    <2>6. TypeOK'
      BY <1>1, <1>3, <2>1, <2>5 DEF HoldInv, TypeOK, FamilyOK, WorkerOK, FaultOK,
          LogOK, RequestOK, family_vars, request_vars, log_vars, fault_vars
    <2>7. WorkersInv'
      BY <1>1, <1>7, <2>4 DEF HoldInv, WorkersInv, Running, family_vars
    <2>8. \A w \in Workers, i \in 1 .. SocketCapacity, c \in Clients :
             Queued(w, i, c)' <=>
               Queued(w, i, c) \/ (w = round_robin /\ i = k /\ c = in_hand)
      <3> SUFFICES ASSUME NEW w \in Workers, NEW i \in 1 .. SocketCapacity,
                          NEW c \in Clients
                   PROVE  Queued(w, i, c)' <=>
                            Queued(w, i, c) \/ (w = round_robin /\ i = k /\ c = in_hand)
        OBVIOUS
      <3> DEFINE s == socket[w]
      <3>1. CASE w = round_robin
        <4>1. socket'[w] = Append(s, in_hand) /\ s \in Seq(Clients) /\ k = Len(s) + 1
          BY <1>2, <2>2, <2>4, <3>1
        <4> HIDE DEF s
        <4>2. i \in DOMAIN Append(s, in_hand) /\ Append(s, in_hand)[i] = c
                <=> (i \in DOMAIN s /\ s[i] = c) \/ (i = Len(s) + 1 /\ c = in_hand)
          BY <1>2, <4>1, AppendedAt
        <4> HIDE DEF k
        <4> QED
          BY <3>1, <4>1, <4>2 DEF Queued, s
      <3>2. CASE w # round_robin
        BY <2>4, <3>2 DEF Queued
      <3> QED
        BY <3>1, <3>2
    <2>9. \A w \in Workers, c \in Clients : /\ Serves(w, c)' <=> Serves(w, c)
                                            /\ Inherits(w, c)' <=> Inherits(w, c)
      BY <1>1 DEF Serves, Inherits, family_vars
    <2> HIDE DEF k
    <2>10. \A w \in Workers, i \in 1 .. SocketCapacity : ~Queued(w, i, in_hand)
      BY <1>2 DEF HoldInv, PlacesInv
    <2>11. PlacesInv'
      BY <1>2, <1>5, <2>1, <2>3, <2>8, <2>9 DEF HoldInv, PlacesInv
    <2>12. UniqueInv'
      BY <2>8, <2>9, <2>10 DEF HoldInv, UniqueInv
    <2> QED
      BY <1>4, <2>6, <2>7, <2>11, <2>12 DEF HoldInv
  <1> QED
    BY <1>6, <1>7 DEF SendSocket

LEMMA SocketpairFailsHolds ==
    ASSUME HoldInv, SocketpairFails
    PROVE  HoldInv'
  <1>1. /\ main_pc = "restart" /\ main_pc' = "accept"
        /\ in_hand' = Nobody /\ closed' = TRUE /\ stale' = TRUE
        /\ failures' = failures + 1
        /\ Become({in_hand}, "dropped")
        /\ UNCHANGED <<round_robin, checked, family_vars, worker_vars, log_vars,
                       crashes>>
    BY DEF SocketpairFails
  <1>2. in_hand \in Clients /\ InHand(in_hand)
    BY <1>1, HandIsAClient
  <1>3. "dropped" \in Statuses \ {"accepted", "sent", "in_service", "stranded"}
    BY DEF Statuses
  <1>4. /\ ClientOK'
        /\ \A c \in Clients : client'[c] = IF c = in_hand THEN "dropped" ELSE client[c]
    BY <1>1, <1>3, BecomeEffect DEF HoldInv, TypeOK
  <1>5. TypeOK'
    BY <1>1, <1>4 DEF HoldInv, TypeOK, MainOK, MainLabels, FamilyOK, WorkerOK,
        FaultOK, LogOK, RequestOK, family_vars, worker_vars, request_vars, log_vars
  <1>6. HandInv' /\ WorkersInv'
    BY <1>1 DEF HoldInv, HandInv, WorkersInv, Running, family_vars, worker_vars
  <1>7. (\A c \in Clients : ~InHand(c)') /\ UNCHANGED <<serving, socket, inherited>>
    BY <1>1 DEF InHand, family_vars, worker_vars
  <1>8. PlacesInv' /\ UniqueInv'
    BY <1>2, <1>3, <1>4, <1>7, GivenUp DEF HoldInv
  <1> QED
    BY <1>5, <1>6, <1>8 DEF HoldInv

LEMMA ForkFailsHolds ==
    ASSUME HoldInv, ForkFails
    PROVE  HoldInv'
  <1>1. /\ main_pc = "restart" /\ main_pc' = "check"
        /\ closed' = TRUE /\ stale' = FALSE /\ checked' = 0
        /\ failures' = failures + 1
        /\ process' = [process EXCEPT ![round_robin] = "unforked"]
        /\ Become({in_hand}, "dropped")
        /\ UNCHANGED <<in_hand, round_robin, inherited, forked_after, worker_vars,
                       log_vars, crashes>>
    BY DEF ForkFails, RestartDone
  <1>2. /\ in_hand \in Clients /\ InHand(in_hand) /\ round_robin \in Workers
        /\ ~Running(round_robin)
    BY <1>1, HandIsAClient DEF HoldInv, HandInv
  <1>3. "dropped" \in Statuses \ {"accepted", "sent", "in_service", "stranded"}
    BY DEF Statuses
  <1>4. /\ ClientOK'
        /\ \A c \in Clients : client'[c] = IF c = in_hand THEN "dropped" ELSE client[c]
    BY <1>1, <1>3, BecomeEffect DEF HoldInv, TypeOK
  <1>5. TypeOK'
    <2>1. MainOK'
      BY <1>1, NoneChecked DEF HoldInv, TypeOK, MainOK, MainLabels
    <2>2. FamilyOK'
      BY <1>1, <1>2 DEF HoldInv, TypeOK, FamilyOK
    <2>3. FaultOK'
      BY <1>1 DEF HoldInv, TypeOK, FaultOK
    <2> QED
      BY <1>1, <1>4, <2>1, <2>2, <2>3 DEF HoldInv, TypeOK, WorkerOK, LogOK, RequestOK,
          worker_vars, request_vars, log_vars
  <1>6. \A w \in Workers : Running(w)' <=> Running(w)
    BY <1>1, <1>2 DEF HoldInv, TypeOK, FamilyOK, Running
  <1>7. HandInv'
    BY <1>1 DEF HoldInv, HandInv
  <1>8. WorkersInv'
    BY <1>1, <1>6 DEF HoldInv, WorkersInv, worker_vars
  <1>9. (\A c \in Clients : ~InHand(c)') /\ UNCHANGED <<serving, socket, inherited>>
    BY <1>1 DEF InHand, worker_vars
  <1>10. PlacesInv' /\ UniqueInv'
    BY <1>2, <1>3, <1>4, <1>9, GivenUp DEF HoldInv
  <1> QED
    BY <1>5, <1>7, <1>8, <1>10 DEF HoldInv

LEMMA RestartHolds ==
    ASSUME HoldInv, RestartWorker
    PROVE  HoldInv'
  <1>1. PICK is_closed \in BOOLEAN :
          /\ Become({in_hand}, IF is_closed THEN "dropped" ELSE "stranded")
          /\ inherited' = [inherited EXCEPT ![round_robin] = Inheritance(is_closed)]
    BY DEF RestartWorker, Forked, ClosedInstead
  <1>2. /\ main_pc = "restart" /\ main_pc' = "check"
        /\ closed' = TRUE /\ stale' = FALSE /\ checked' = 0
        /\ process' = [process EXCEPT ![round_robin] = "alive"]
        /\ forked_after' = [w \in Workers |->
              IF w = round_robin THEN {} ELSE forked_after[w] \cup {round_robin}]
        /\ worker_pc' = [worker_pc EXCEPT ![round_robin] = "recvmsg"]
        /\ UNCHANGED <<in_hand, round_robin, serving, socket, request_vars,
                       log_vars, fault_vars>>
    BY DEF RestartWorker, Forked, RestartDone, fault_vars
  <1>3. /\ in_hand \in Clients /\ InHand(in_hand) /\ round_robin \in Workers
        /\ client[in_hand] = "accepted" /\ ~closed
        /\ ~Running(round_robin)
    BY <1>2, HandIsAClient DEF HoldInv, HandInv
  <1> DEFINE what == IF is_closed THEN "dropped" ELSE "stranded"
  <1>4. what \in {"dropped", "stranded"} /\ what \in Statuses
    BY DEF Statuses
  <1>5. /\ ClientOK'
        /\ \A c \in Clients : client'[c] = IF c = in_hand THEN what ELSE client[c]
    BY <1>1, <1>4, BecomeEffect DEF HoldInv, TypeOK
  <1>6. Inheritance(is_closed) \subseteq Clients \cup {Listener}
    BY <1>3 DEF Inheritance
  <1>7. /\ process \in [Workers -> {"alive", "zombie", "reaped", "unforked"}]
        /\ inherited \in [Workers -> SUBSET (Clients \cup {Listener})]
        /\ forked_after \in [Workers -> SUBSET Workers]
        /\ worker_pc \in [Workers -> WorkerLabels]
    BY DEF HoldInv, TypeOK, FamilyOK, WorkerOK
  <1>8. FamilyOK'
    BY <1>1, <1>2, <1>3, <1>6, <1>7 DEF FamilyOK
  <1>9. TypeOK'
    <2>1. MainOK'
      BY <1>2, NoneChecked DEF HoldInv, TypeOK, MainOK, MainLabels
    <2>2. WorkerOK'
      BY <1>2 DEF HoldInv, TypeOK, WorkerOK, WorkerLabels
    <2> QED
      BY <1>2, <1>5, <1>8, <2>1, <2>2 DEF HoldInv, TypeOK, FaultOK, LogOK, RequestOK,
          request_vars, log_vars, fault_vars
  <1>10. HandInv'
    BY <1>2 DEF HoldInv, HandInv
  <1>11. \A w \in Workers : Running(w)' <=> Running(w) \/ w = round_robin
    BY <1>2, <1>3, <1>7 DEF Running
  <1>12. /\ \A w \in Workers : w # round_robin => inherited'[w] = inherited[w]
         /\ inherited'[round_robin] = Inheritance(is_closed)
         /\ \A w \in Workers : worker_pc'[w] =
              IF w = round_robin THEN "recvmsg" ELSE worker_pc[w]
    BY <1>1, <1>2, <1>3, <1>7
  <1>13. WorkersInv'
    BY <1>2, <1>3, <1>11, <1>12 DEF HoldInv, WorkersInv
  <1>14. \A w \in Workers, c \in Clients :
            Inherits(w, c)' <=> Inherits(w, c)
                  \/ (w = round_robin /\ c = in_hand /\ what = "stranded")
    <2>1. inherited[round_robin] = {}
      BY <1>3 DEF HoldInv, WorkersInv
    <2>2. \A c \in Clients : c \in Inheritance(is_closed)
                                <=> c = in_hand /\ what = "stranded"
      BY DEF Inheritance, Clients, Listener
    <2> QED
      BY <1>12, <2>1, <2>2 DEF Inherits
  <1>15. \A w \in Workers, c \in Clients :
            /\ Serves(w, c)' <=> Serves(w, c)
            /\ ~InHand(c)' /\ (InHand(c) <=> c = in_hand)
    BY <1>2, <1>3 DEF Serves, InHand
  <1>16. \A w \in Workers, c \in Clients, i \in 1 .. SocketCapacity :
            Queued(w, i, c)' <=> Queued(w, i, c)
    BY <1>2 DEF Queued
  <1> HIDE DEF what
  <1>17. PlacesInv'
    BY <1>3, <1>4, <1>5, <1>14, <1>15, <1>16 DEF HoldInv, PlacesInv
  <1>18. \A w \in Workers : ~Inherits(w, in_hand)
    BY <1>3 DEF HoldInv, PlacesInv
  <1>19. UniqueInv'
    BY <1>14, <1>15, <1>16, <1>18 DEF HoldInv, UniqueInv
  <1> QED
    BY <1>9, <1>10, <1>13, <1>17, <1>19 DEF HoldInv

LEMMA MainDiesHolds ==
    ASSUME HoldInv, MainDies
    PROVE  HoldInv'
  <1> DEFINE cs == (IF closed THEN {} ELSE {in_hand})
                     \cup (IF ListenerElsewhere(-1) THEN {} ELSE Backlog)
  <1>1. /\ main_pc' = "dead" /\ in_hand' = Nobody /\ closed' = TRUE
        /\ round_robin' = 0 /\ checked' = 0 /\ stale' = FALSE
        /\ Become(cs, "dropped")
        /\ UNCHANGED <<family_vars, worker_vars, log_vars, fault_vars>>
    BY DEF MainDies
  <1>2. /\ ClientOK'
        /\ \A c \in Clients : client'[c] = IF c \in cs THEN "dropped" ELSE client[c]
    <2>1. ClientOK /\ "dropped" \in Statuses
      BY DEF HoldInv, TypeOK, Statuses
    <2> HIDE DEF cs
    <2> QED
      BY <1>1, <2>1, BecomeEffect
  <1>3. 0 \in Workers /\ 0 \in 0 .. MAX_WORKERS
    BY ServerAssumption DEF Workers
  <1>4. TypeOK'
    BY <1>1, <1>2, <1>3 DEF HoldInv, TypeOK, MainOK, MainLabels, FamilyOK, WorkerOK,
        FaultOK, LogOK, RequestOK, family_vars, worker_vars, request_vars, log_vars,
        fault_vars
  <1>5. HandInv' /\ WorkersInv'
    BY <1>1 DEF HoldInv, HandInv, WorkersInv, Running, family_vars, worker_vars
  <1>6. \A c \in cs \cap Clients : InHand(c) \/ client[c] = "backlog"
    BY DEF InHand, Backlog
  <1>7. \A c \in Clients : /\ InHand(c) => c \in cs
                           /\ ~InHand(c)'
    BY <1>1 DEF InHand
  <1> HIDE DEF cs
  <1>8. \A w \in Workers, c \in Clients :
           /\ Serves(w, c)' <=> Serves(w, c)
           /\ Inherits(w, c)' <=> Inherits(w, c)
           /\ \A i \in 1 .. SocketCapacity : Queued(w, i, c)' <=> Queued(w, i, c)
    BY <1>1 DEF Serves, Inherits, Queued, family_vars, worker_vars
  <1>9. PlacesInv'
    BY <1>2, <1>6, <1>7, <1>8 DEF HoldInv, PlacesInv
  <1>10. UniqueInv'
    BY <1>1, SameUnique DEF HoldInv, family_vars, worker_vars
  <1> QED
    BY <1>4, <1>5, <1>9, <1>10 DEF HoldInv

LEMMA NobodyIsNoClient == 0 \notin Clients
  <1>1. MaxClients \in Nat
    BY ServerAssumption
  <1> QED
    BY <1>1 DEF Clients

LEMMA TailAt ==
    ASSUME NEW s \in Seq(Clients), s # <<>>
    PROVE  /\ Len(s) \in Nat \ {0} /\ DOMAIN s = 1 .. Len(s)
           /\ Head(s) \in Clients /\ Head(s) = s[1]
           /\ Tail(s) \in Seq(Clients) /\ Len(Tail(s)) = Len(s) - 1
           /\ DOMAIN Tail(s) = 1 .. Len(s) - 1
           /\ \A i \in 1 .. Len(s) - 1 : Tail(s)[i] = s[i + 1]
  OBVIOUS

LEMMA ReceiveHolds ==
    ASSUME HoldInv, NEW w \in Workers, Receive(w)
    PROVE  HoldInv'
  <1> DEFINE s == socket[w]
  <1>0. PICK h \in Clients : h = Head(socket[w])
    <2>1. s \in Seq(Clients) /\ s # <<>>
      BY DEF Receive, HoldInv, TypeOK, WorkerOK
    <2> QED
      BY <2>1, TailAt
  <1>1. /\ Running(w) /\ worker_pc[w] = "recvmsg" /\ socket[w] # <<>>
        /\ serving' = [serving EXCEPT ![w] = h]
        /\ socket' = [socket EXCEPT ![w] = Tail(socket[w])]
        /\ Become({h}, "in_service")
        /\ worker_pc' = [worker_pc EXCEPT ![w] = "log_handling"]
        /\ UNCHANGED <<main_vars, family_vars, request_vars, log_vars, fault_vars>>
    BY <1>0 DEF Receive, At, Goto
  <1>2. /\ socket \in [Workers -> Seq(Clients)] /\ SocketCapacity \in Nat
        /\ serving \in [Workers -> Clients \cup {Nobody}]
        /\ worker_pc \in [Workers -> WorkerLabels]
        /\ \A v \in Workers : Len(socket[v]) <= SocketCapacity
        /\ serving[w] = Nobody
    BY <1>1, ServerAssumption DEF HoldInv, TypeOK, WorkerOK, WorkersInv
  <1>3. /\ Len(s) \in Nat \ {0} /\ DOMAIN s = 1 .. Len(s)
        /\ h = s[1]
        /\ Tail(s) \in Seq(Clients) /\ Len(Tail(s)) = Len(s) - 1
        /\ DOMAIN Tail(s) = 1 .. Len(s) - 1
        /\ \A i \in 1 .. Len(s) - 1 : Tail(s)[i] = s[i + 1]
    <2>1. s \in Seq(Clients) /\ s # <<>>
      BY <1>1, <1>2
    <2> QED
      BY <1>0, <2>1, TailAt
  <1>4. /\ ClientOK'
        /\ \A c \in Clients : client'[c] = IF c = h THEN "in_service" ELSE client[c]
    <2>1. ClientOK /\ "in_service" \in Statuses
      BY DEF HoldInv, TypeOK, Statuses
    <2> QED
      BY <1>1, <2>1, BecomeEffect
  <1>5. \A v \in Workers :
           /\ socket'[v] = IF v = w THEN Tail(s) ELSE socket[v]
           /\ serving'[v] = IF v = w THEN h ELSE serving[v]
           /\ worker_pc'[v] = IF v = w THEN "log_handling" ELSE worker_pc[v]
    BY <1>1, <1>2
  <1>6. WorkerOK'
    <2>1. /\ socket' \in [Workers -> Seq(Clients)]
          /\ serving' \in [Workers -> Clients \cup {Nobody}]
      BY <1>0, <1>1, <1>2, <1>3
    <2>2. worker_pc' \in [Workers -> WorkerLabels]
      BY <1>1, <1>2 DEF WorkerLabels, ServingLabels
    <2>3. \A v \in Workers : Len(socket'[v]) <= SocketCapacity
      <3>1. Len(Tail(s)) <= SocketCapacity
        <4>1. Len(s) \in Nat /\ Len(s) <= SocketCapacity /\ Len(Tail(s)) = Len(s) - 1
          BY <1>2, <1>3
        <4> HIDE DEF s
        <4> QED
          BY <1>2, <4>1
      <3> HIDE DEF s
      <3> QED
        BY <1>2, <1>5, <3>1
    <2> QED
      BY <2>1, <2>2, <2>3 DEF WorkerOK
  <1>7. TypeOK'
    BY <1>1, <1>4, <1>6 DEF HoldInv, TypeOK, MainOK, FamilyOK, RequestOK, LogOK,
        FaultOK, main_vars, family_vars, request_vars, log_vars, fault_vars
  <1>8. HandInv'
    BY <1>1 DEF HoldInv, HandInv, Running, main_vars, family_vars
  <1>9. WorkersInv'
    <2>1. process' = process /\ inherited' = inherited
      BY <1>1 DEF family_vars
    <2>2. \A v \in Workers : v # w => socket'[v] = socket[v] /\ serving'[v] = serving[v]
                                       /\ worker_pc'[v] = worker_pc[v]
      BY <1>5
    <2>3. Running(w) /\ worker_pc'[w] = "log_handling"
      BY <1>1, <1>5
    <2> QED
      BY <2>1, <2>2, <2>3 DEF HoldInv, WorkersInv, Running
  <1>10. \A c \in Clients : InHand(c)' <=> InHand(c)
    BY <1>1 DEF InHand, main_vars
  <1>11. \A v \in Workers, c \in Clients :
            /\ Inherits(v, c)' <=> Inherits(v, c)
            /\ ~Serves(w, c)
            /\ Serves(v, c)' <=> IF v = w THEN c = h ELSE Serves(v, c)
    <2>1. inherited' = inherited /\ 0 \notin Clients
      BY <1>1, NobodyIsNoClient DEF family_vars
    <2> QED
      BY <1>2, <1>5, <2>1 DEF Inherits, Serves, Nobody
  <1>12. /\ 1 \in 1 .. SocketCapacity
         /\ Queued(w, 1, h)
         /\ \A c \in Clients : Queued(w, 1, c) => c = h
    BY <1>2, <1>3 DEF Queued
  <1>13. \A v \in Workers, i \in 1 .. SocketCapacity, c \in Clients :
            v # w => (Queued(v, i, c)' <=> Queued(v, i, c))
    BY <1>5 DEF Queued
  <1>14. \A i \in 1 .. SocketCapacity, c \in Clients :
            Queued(w, i, c)' => i + 1 \in 1 .. SocketCapacity /\ Queued(w, i + 1, c)
    <2> SUFFICES ASSUME NEW i \in 1 .. SocketCapacity, NEW c \in Clients, Queued(w, i, c)'
                 PROVE  i + 1 \in 1 .. SocketCapacity /\ Queued(w, i + 1, c)
      OBVIOUS
    <2>1. i \in 1 .. Len(s) - 1 /\ Tail(s)[i] = c
      BY <1>3, <1>5 DEF Queued
    <2>2. i + 1 \in 1 .. Len(s) /\ s[i + 1] = c /\ Len(s) <= SocketCapacity
      BY <1>2, <1>3, <2>1
    <2> QED
      BY <1>2, <1>3, <2>2 DEF Queued
  <1>15. \A i \in 1 .. SocketCapacity, c \in Clients :
            Queued(w, i, c) /\ c # h => i - 1 \in 1 .. SocketCapacity /\ Queued(w, i - 1, c)'
    <2> SUFFICES ASSUME NEW i \in 1 .. SocketCapacity, NEW c \in Clients,
                        Queued(w, i, c), c # h
                 PROVE  i - 1 \in 1 .. SocketCapacity /\ Queued(w, i - 1, c)'
      OBVIOUS
    <2>1. i \in 1 .. Len(s) /\ s[i] = c /\ i # 1
      BY <1>3 DEF Queued
    <2>2. i - 1 \in 1 .. Len(s) - 1 /\ (i - 1) + 1 = i /\ i - 1 \in 1 .. SocketCapacity
      BY <1>2, <1>3, <2>1
    <2>3. Tail(s)[i - 1] = c
      BY <1>3, <2>1, <2>2
    <2>4. DOMAIN socket'[w] = 1 .. Len(s) - 1 /\ socket'[w][i - 1] = c
      BY <1>3, <1>5, <2>3
    <2> QED
      BY <2>2, <2>4 DEF Queued
  <1> HIDE DEF s
  <1>16. /\ client[h] = "sent"
         /\ \A v \in Workers, i \in 1 .. SocketCapacity :
               Queued(v, i, h) => v = w /\ i = 1
    <2>1. client[h] = "sent"
      BY <1>0, <1>12 DEF HoldInv, PlacesInv
    <2>2. ASSUME NEW v \in Workers, NEW i \in 1 .. SocketCapacity, Queued(v, i, h)
          PROVE  v = w /\ i = 1
      BY <1>0, <1>12, <2>2 DEF HoldInv, UniqueInv
    <2> QED
      BY <2>1, <2>2
  <1>17. \A v \in Workers, i \in 1 .. SocketCapacity : ~Queued(v, i, h)'
    <2> SUFFICES ASSUME NEW v \in Workers, NEW i \in 1 .. SocketCapacity,
                        Queued(v, i, h)'
                 PROVE  FALSE
      OBVIOUS
    <2>1. CASE v = w
      <3>1. i + 1 \in 1 .. SocketCapacity /\ Queued(w, i + 1, h)
        BY <1>0, <1>14, <2>1
      <3>2. i + 1 = 1
        BY <1>16, <3>1
      <3> QED
        BY <3>2
    <2>2. CASE v # w
      BY <1>0, <1>13, <1>16, <2>2
    <2> QED
      BY <2>1, <2>2
  <1>18. \A c \in Clients : c # h =>
           ((\E v \in Workers, i \in 1 .. SocketCapacity : Queued(v, i, c))'
              <=> \E v \in Workers, i \in 1 .. SocketCapacity : Queued(v, i, c))
    <2> TAKE c \in Clients
    <2> HAVE c # h
    <2>1. ASSUME NEW v \in Workers, NEW i \in 1 .. SocketCapacity, Queued(v, i, c)'
          PROVE  \E u \in Workers, j \in 1 .. SocketCapacity : Queued(u, j, c)
      BY <1>13, <1>14, <2>1
    <2>2. ASSUME NEW v \in Workers, NEW i \in 1 .. SocketCapacity, Queued(v, i, c)
          PROVE  (\E u \in Workers, j \in 1 .. SocketCapacity : Queued(u, j, c))'
      BY <1>13, <1>15, <2>2
    <2> QED
      BY <2>1, <2>2
  <1>19. PlacesInv'
    <2> SUFFICES ASSUME NEW c \in Clients
                 PROVE  (/\ client[c] = "accepted" <=> InHand(c)
                         /\ client[c] = "in_service" <=> \E v \in Workers : Serves(v, c)
                         /\ client[c] = "sent" <=>
                              \E v \in Workers, i \in 1 .. SocketCapacity : Queued(v, i, c)
                         /\ client[c] = "stranded" <=> \E v \in Workers : Inherits(v, c))'
      BY DEF PlacesInv
    <2>1. CASE c = h
      BY <1>4, <1>10, <1>11, <1>16, <1>17, <2>1 DEF HoldInv, PlacesInv
    <2>2. CASE c # h
      BY <1>4, <1>10, <1>11, <1>18, <2>2 DEF HoldInv, PlacesInv
    <2> QED
      BY <2>1, <2>2
  <1>20. UniqueInv'
    <2> SUFFICES ASSUME NEW c \in Clients, NEW u \in Workers, NEW v \in Workers
                 PROVE  (/\ Serves(u, c) /\ Serves(v, c) => u = v
                         /\ \A i, j \in 1 .. SocketCapacity :
                               Queued(u, i, c) /\ Queued(v, j, c) => u = v /\ i = j
                         /\ Inherits(u, c) /\ Inherits(v, c) => u = v)'
      BY DEF UniqueInv
    <2>1. \A x \in Workers : ~Serves(x, h)
      BY <1>0, <1>16 DEF HoldInv, PlacesInv
    <2>2. (Serves(u, c) /\ Serves(v, c))' => u = v
      BY <1>11, <2>1 DEF HoldInv, UniqueInv
    <2>3. (Inherits(u, c) /\ Inherits(v, c))' => u = v
      BY <1>11 DEF HoldInv, UniqueInv
    <2>4. ASSUME NEW i \in 1 .. SocketCapacity, NEW j \in 1 .. SocketCapacity,
                 Queued(u, i, c)', Queued(v, j, c)'
          PROVE  u = v /\ i = j
      <3> DEFINE k == IF u = w THEN i + 1 ELSE i
                 l == IF v = w THEN j + 1 ELSE j
      <3>1. /\ k \in 1 .. SocketCapacity /\ Queued(u, k, c)
            /\ l \in 1 .. SocketCapacity /\ Queued(v, l, c)
        BY <1>13, <1>14, <2>4
      <3> HIDE DEF k, l
      <3>2. u = v /\ k = l
        BY <3>1 DEF HoldInv, UniqueInv
      <3> QED
        BY <3>2 DEF k, l
    <2> QED
      BY <2>2, <2>3, <2>4
  <1> QED
    BY <1>7, <1>8, <1>9, <1>19, <1>20 DEF HoldInv

LEMMA CloseHolds ==
    ASSUME HoldInv, NEW w \in Workers, LogAndClose(w)
    PROVE  HoldInv'
  <1>1. PICK k \in Clients \cup {Nobody} : k = serving[w]
    BY DEF HoldInv, TypeOK, WorkerOK
  <1>2. PICK what \in {"handled", "failed"} : Become({k}, what)
    BY <1>1 DEF LogAndClose
  <1>3. /\ log_event /\ Running(w)
        /\ serving' = [serving EXCEPT ![w] = Nobody]
        /\ worker_pc' = [worker_pc EXCEPT ![w] = "recvmsg"]
        /\ UNCHANGED <<main_vars, family_vars, socket, request_vars, fault_vars>>
    BY DEF LogAndClose, Goto, At
  <1>4. /\ ClientOK'
        /\ \A c \in Clients : client'[c] = IF c = k THEN what ELSE client[c]
    <2>1. ClientOK /\ what \in Statuses
      BY DEF HoldInv, TypeOK, Statuses
    <2> QED
      BY <1>2, <2>1, BecomeEffect
  <1>5. LogOK'
    BY <1>3, ServerAssumption DEF HoldInv, TypeOK, LogOK, log_event
  <1>6. TypeOK'
    BY <1>3, <1>4, <1>5 DEF HoldInv, TypeOK, MainOK, FamilyOK, WorkerOK, WorkerLabels,
        RequestOK, FaultOK, main_vars, family_vars, request_vars, fault_vars
  <1>7. HandInv'
    BY <1>3 DEF HoldInv, HandInv, Running, main_vars, family_vars
  <1>8. \A v \in Workers :
           /\ serving'[v] = IF v = w THEN Nobody ELSE serving[v]
           /\ worker_pc'[v] = IF v = w THEN "recvmsg" ELSE worker_pc[v]
    BY <1>3 DEF HoldInv, TypeOK, WorkerOK
  <1>9. WorkersInv'
    BY <1>3, <1>8 DEF HoldInv, WorkersInv, Running, family_vars
  <1>10. \A v \in Workers, c \in Clients :
            /\ Inherits(v, c)' <=> Inherits(v, c)
            /\ InHand(c)' <=> InHand(c)
            /\ Serves(v, c)' <=> Serves(v, c) /\ v # w
            /\ Serves(w, c) <=> c = k
            /\ \A i \in 1 .. SocketCapacity : Queued(v, i, c)' <=> Queued(v, i, c)
    BY <1>1, <1>3, <1>8, NobodyIsNoClient
       DEF Inherits, InHand, Serves, Queued, Nobody, main_vars, family_vars
  <1>11. PlacesInv'
    <2> SUFFICES ASSUME NEW c \in Clients
                 PROVE  (/\ client[c] = "accepted" <=> InHand(c)
                         /\ client[c] = "in_service" <=> \E v \in Workers : Serves(v, c)
                         /\ client[c] = "sent" <=>
                              \E v \in Workers, i \in 1 .. SocketCapacity : Queued(v, i, c)
                         /\ client[c] = "stranded" <=> \E v \in Workers : Inherits(v, c))'
      BY DEF PlacesInv
    <2>1. CASE c = k
      <3>1. client[c] = "in_service" /\ \A v \in Workers : Serves(v, c) => v = w
        BY <1>10, <2>1 DEF HoldInv, PlacesInv, UniqueInv
      <3> QED
        BY <1>4, <1>10, <2>1, <3>1 DEF HoldInv, PlacesInv
    <2>2. CASE c # k
      BY <1>4, <1>10, <2>2 DEF HoldInv, PlacesInv
    <2> QED
      BY <2>1, <2>2
  <1>12. UniqueInv'
    BY <1>10 DEF HoldInv, UniqueInv
  <1> QED
    BY <1>6, <1>7, <1>9, <1>11, <1>12 DEF HoldInv

(* A death closes everything the worker held, and nothing else but, when   *)
(* main is gone, what nobody will accept.                                  *)
HeldAt(w, c) ==
    \/ Serves(w, c)
    \/ Inherits(w, c)
    \/ \E i \in 1 .. SocketCapacity : Queued(w, i, c)

LEMMA DieEffect ==
    ASSUME TypeOK, NEW w \in Workers, Die(w)
    PROVE  /\ Running(w)
           /\ TypeOK'
           /\ UNCHANGED <<main_vars, forked_after, log_vars, failures>>
           /\ crashes' = crashes + 1
           /\ \A v \in Workers :
                 /\ process'[v] = IF v = w THEN "zombie" ELSE process[v]
                 /\ serving'[v] = IF v = w THEN Nobody ELSE serving[v]
                 /\ socket'[v] = IF v = w THEN <<>> ELSE socket[v]
                 /\ inherited'[v] = IF v = w THEN {} ELSE inherited[v]
                 /\ worker_pc'[v] = IF v = w THEN "recvmsg" ELSE worker_pc[v]
           /\ \A c \in Clients :
                 \/ client'[c] = "dropped"
                      /\ (HeldAt(w, c) \/ (main_pc = "dead" /\ client[c] = "backlog"))
                 \/ client'[c] = client[c] /\ ~HeldAt(w, c)
  <1>1. PICK more \in {Backlog, {}} :
          /\ Become(HeldBy(w) \cup more, "dropped")
          /\ more # {} => main_pc = "dead"
    BY DEF Die
  <1>2. PICK cs : cs = HeldBy(w) \cup more
    OBVIOUS
  <1>3. Become(cs, "dropped") /\ ClientOK /\ "dropped" \in Statuses
    BY <1>1, <1>2 DEF TypeOK, Statuses
  <1>4. /\ ClientOK'
        /\ \A c \in Clients : client'[c] = IF c \in cs THEN "dropped" ELSE client[c]
    BY <1>3, BecomeEffect
  <1>5. /\ process' = [process EXCEPT ![w] = "zombie"]
        /\ serving' = [serving EXCEPT ![w] = Nobody]
        /\ socket' = [socket EXCEPT ![w] = <<>>]
        /\ inherited' = [inherited EXCEPT ![w] = {}]
        /\ worker_pc' = [worker_pc EXCEPT ![w] = "recvmsg"]
        /\ received' = [received EXCEPT ![w] = 0]
        /\ content_length' = [content_length EXCEPT ![w] = 0]
        /\ Running(w) /\ crashes' = crashes + 1
        /\ UNCHANGED <<main_vars, forked_after, log_vars, failures>>
    BY DEF Die, ForgetRequest, Goto, At
  <1>6. /\ FamilyOK /\ WorkerOK /\ RequestOK /\ FaultOK /\ SocketCapacity \in Nat
    BY ServerAssumption DEF TypeOK
  <1>7. FamilyOK'
    BY <1>5, <1>6 DEF FamilyOK
  <1>8. RequestOK' /\ FaultOK'
    BY <1>5, <1>6 DEF RequestOK, FaultOK
  <1>9. \A v \in Workers :
           /\ process'[v] = IF v = w THEN "zombie" ELSE process[v]
           /\ serving'[v] = IF v = w THEN Nobody ELSE serving[v]
           /\ socket'[v] = IF v = w THEN <<>> ELSE socket[v]
           /\ inherited'[v] = IF v = w THEN {} ELSE inherited[v]
           /\ worker_pc'[v] = IF v = w THEN "recvmsg" ELSE worker_pc[v]
    BY <1>5, <1>6 DEF FamilyOK, WorkerOK
  <1>10. WorkerOK'
    <2>1. <<>> \in Seq(Clients) /\ Len(<<>>) = 0
      OBVIOUS
    <2>2. /\ worker_pc' \in [Workers -> WorkerLabels]
          /\ serving' \in [Workers -> Clients \cup {Nobody}]
          /\ socket' \in [Workers -> Seq(Clients)]
      BY <1>5, <1>6, <2>1 DEF WorkerOK, WorkerLabels
    <2>3. \A v \in Workers : Len(socket'[v]) <= SocketCapacity
      BY <1>6, <1>9, <2>1 DEF WorkerOK
    <2> QED
      BY <2>2, <2>3 DEF WorkerOK
  <1>11. TypeOK'
    BY <1>4, <1>5, <1>7, <1>8, <1>10 DEF TypeOK, MainOK, LogOK, main_vars, log_vars
  <1>12. \A c \in Clients :
            /\ HeldAt(w, c) => c \in cs
            /\ c \in cs => HeldAt(w, c) \/ (main_pc = "dead" /\ client[c] = "backlog")
    <2> SUFFICES ASSUME NEW c \in Clients
                 PROVE  /\ HeldAt(w, c) => c \in cs
                        /\ c \in cs => \/ HeldAt(w, c)
                                       \/ main_pc = "dead" /\ client[c] = "backlog"
      OBVIOUS
    <2>1. c \in more => main_pc = "dead" /\ client[c] = "backlog"
      BY <1>1 DEF Backlog
    <2>2. DOMAIN socket[w] = 1 .. Len(socket[w]) /\ Len(socket[w]) \in Nat
          /\ Len(socket[w]) <= SocketCapacity
      BY <1>6 DEF WorkerOK
    <2>3. DOMAIN socket[w] \subseteq 1 .. SocketCapacity
      BY <1>6, <2>2
    <2>4. c \in HeldBy(w) <=> HeldAt(w, c)
      BY <2>3 DEF HeldBy, HeldAt, Serves, Inherits, Queued
    <2> QED
      BY <1>2, <2>1, <2>4
  <1> QED
    BY <1>4, <1>5, <1>9, <1>11, <1>12

LEMMA DieHolds ==
    ASSUME HoldInv, NEW w \in Workers, Die(w)
    PROVE  HoldInv'
  <1>1. /\ Running(w)
        /\ TypeOK'
        /\ UNCHANGED <<main_vars, forked_after, log_vars, failures>>
        /\ \A v \in Workers :
              /\ process'[v] = IF v = w THEN "zombie" ELSE process[v]
              /\ serving'[v] = IF v = w THEN Nobody ELSE serving[v]
              /\ socket'[v] = IF v = w THEN <<>> ELSE socket[v]
              /\ inherited'[v] = IF v = w THEN {} ELSE inherited[v]
              /\ worker_pc'[v] = IF v = w THEN "recvmsg" ELSE worker_pc[v]
        /\ \A c \in Clients :
              \/ client'[c] = "dropped"
                   /\ (HeldAt(w, c) \/ (main_pc = "dead" /\ client[c] = "backlog"))
              \/ client'[c] = client[c] /\ ~HeldAt(w, c)
    BY DieEffect DEF HoldInv
  <1>2. round_robin \in Workers
    BY DEF HoldInv, TypeOK, MainOK
  <1>3. HandInv'
    BY <1>1, <1>2 DEF HoldInv, HandInv, Running, main_vars
  <1>4. WorkersInv'
    BY <1>1 DEF HoldInv, WorkersInv, Running
  <1>5. \A v \in Workers, c \in Clients :
           /\ Inherits(v, c)' <=> Inherits(v, c) /\ v # w
           /\ Serves(v, c)' <=> Serves(v, c) /\ v # w
           /\ InHand(c)' <=> InHand(c)
    BY <1>1, NobodyIsNoClient DEF Inherits, Serves, InHand, Nobody, main_vars
  <1>6. \A v \in Workers, c \in Clients, i \in 1 .. SocketCapacity :
           Queued(v, i, c)' <=> Queued(v, i, c) /\ v # w
    BY <1>1 DEF Queued
  <1>7. PlacesInv'
    <2> SUFFICES ASSUME NEW c \in Clients
                 PROVE  (/\ client[c] = "accepted" <=> InHand(c)
                         /\ client[c] = "in_service" <=> \E v \in Workers : Serves(v, c)
                         /\ client[c] = "sent" <=>
                              \E v \in Workers, i \in 1 .. SocketCapacity : Queued(v, i, c)
                         /\ client[c] = "stranded" <=> \E v \in Workers : Inherits(v, c))'
      BY DEF PlacesInv
    <2>1. CASE HeldAt(w, c)
      <3>1. client'[c] = "dropped"
        BY <1>1, <2>1
      <3>2. \A v \in Workers : (Serves(v, c) \/ Inherits(v, c)) => v = w
        BY <2>1 DEF HeldAt, HoldInv, PlacesInv, UniqueInv
      <3>3. \A v \in Workers, i \in 1 .. SocketCapacity : Queued(v, i, c) => v = w
        BY <2>1 DEF HeldAt, HoldInv, PlacesInv, UniqueInv
      <3>4. ~InHand(c)
        BY <2>1 DEF HeldAt, HoldInv, PlacesInv
      <3> QED
        BY <1>5, <1>6, <3>1, <3>2, <3>3, <3>4
    <2>2. CASE ~HeldAt(w, c)
      <3>1. ~Serves(w, c) /\ ~Inherits(w, c) /\ \A i \in 1 .. SocketCapacity : ~Queued(w, i, c)
        BY <2>2 DEF HeldAt
      <3>2. \/ client'[c] = client[c]
            \/ client'[c] = "dropped" /\ client[c] = "backlog"
        BY <1>1, <2>2
      <3>3. /\ InHand(c)' <=> InHand(c)
            /\ \A v \in Workers : /\ Serves(v, c)' <=> Serves(v, c)
                                  /\ Inherits(v, c)' <=> Inherits(v, c)
        BY <1>5, <3>1
      <3>4. \A v \in Workers, i \in 1 .. SocketCapacity : Queued(v, i, c)' <=> Queued(v, i, c)
        BY <1>6, <3>1
      <3> QED
        BY <3>2, <3>3, <3>4 DEF HoldInv, PlacesInv
    <2> QED
      BY <2>1, <2>2
  <1>8. UniqueInv'
    BY <1>5, <1>6 DEF HoldInv, UniqueInv
  <1> QED
    BY <1>1, <1>3, <1>4, <1>7, <1>8 DEF HoldInv

-----------------------------------------------------------------------------
LEMMA NextSplit ==
    ASSUME [Next]_vars
    PROVE  \/ logger_process \/ UNCHANGED vars
           \/ \E c \in Clients : Connect(c)
           \/ \E c \in Clients : Accept(c)
           \/ TestWorker \/ SendSocket \/ LogRestart \/ SocketpairFails
           \/ ForkFails \/ RestartWorker \/ CheckWorker \/ AllWorkersBusy
           \/ MainDies
           \/ \E w \in Workers : \/ Receive(w) \/ Spin(w) \/ Serving(w)
                                 \/ LogAndClose(w) \/ Die(w)
  BY DEF Next, Main, Worker, Serving

LEMMA HoldInit == Init => HoldInv
  <1> SUFFICES ASSUME Init
               PROVE  HoldInv
    OBVIOUS
  <1>1. 0 \in Workers /\ SocketCapacity \in Nat /\ 0 \in 0 .. LogCapacity
    BY ServerAssumption DEF Workers
  <1>2. ClientOK /\ MainOK
    BY <1>1, NoneChecked DEF Init, ClientOK, Statuses, MainOK, MainLabels
  <1>3. FamilyOK
    BY DEF Init, FamilyOK
  <1>4. WorkerOK
    <2>1. <<>> \in Seq(Clients) /\ Len(<<>>) = 0
      OBVIOUS
    <2> QED
      BY <1>1, <2>1 DEF Init, WorkerOK, WorkerLabels
  <1>5. RequestOK /\ LogOK /\ FaultOK
    BY <1>1, ServerAssumption DEF Init, RequestOK, LogOK, FaultOK
  <1>6. HandInv /\ WorkersInv
    BY DEF Init, HandInv, WorkersInv, Running
  <1>7. \A w \in Workers, c \in Clients :
           /\ ~Serves(w, c) /\ ~Inherits(w, c) /\ ~InHand(c)
           /\ \A i \in 1 .. SocketCapacity : ~Queued(w, i, c)
    BY NobodyIsNoClient DEF Init, Serves, Inherits, InHand, Queued, Nobody
  <1>8. PlacesInv /\ UniqueInv
    BY <1>1, <1>7 DEF Init, PlacesInv, UniqueInv
  <1> QED
    BY <1>2, <1>3, <1>4, <1>5, <1>6, <1>8 DEF HoldInv, TypeOK

LEMMA HoldStep == HoldInv /\ [Next]_vars => HoldInv'
  BY NextSplit, LoggerHolds, ConnectHolds, AcceptHolds, TestHolds, SendHolds,
     LogRestartHolds, SocketpairFailsHolds, ForkFailsHolds, RestartHolds, CheckHolds,
     BusyHolds, MainDiesHolds, ReceiveHolds, SpinHolds, ServingHolds, CloseHolds, DieHolds

(* The dispatcher, the socket pairs and the workers hold the descriptors   *)
(* that the states of the connections say, each of them at one place.      *)
THEOREM DescriptorsAreHeld == Spec => []HoldInv
  BY HoldInit, HoldStep, PTL DEF Spec

LEMMA OneOrNone ==
    ASSUME NEW S, \A x, y \in S : x = y
    PROVE  /\ IsFiniteSet(S)
           /\ Cardinality(S) = IF \E x : x \in S THEN 1 ELSE 0
  <1>1. CASE S = {}
    BY <1>1, FS_EmptySet
  <1>2. CASE S # {}
    <2>1. PICK x : x \in S
      BY <1>2
    <2>2. S = {x}
      BY <2>1
    <2> QED
      BY <2>1, <2>2, FS_Singleton
  <1> QED
    BY <1>1, <1>2

(* A connection that is open is held at one place, and one that was        *)
(* answered or dropped at none: a worker restarted by main, the copies its *)
(* fork makes, a death with descriptors in flight leave none behind.       *)
THEOREM OpenConnectionsAreHeldOnce == Spec => []HeldOnce
  <1>1. ASSUME HoldInv
        PROVE  HeldOnce
    <2> SUFFICES ASSUME NEW c \in Clients
                 PROVE  Places(c) = IF client[c] \in {"accepted", "sent", "in_service",
                                                     "stranded"}
                                    THEN 1 ELSE 0
      BY DEF HeldOnce
    <2> DEFINE A == {w \in Workers : serving[w] = c}
               B == {w \in Workers : c \in inherited[w]}
               Q == {wi \in Workers \X (1 .. SocketCapacity) :
                        wi[2] <= Len(socket[wi[1]]) /\ socket[wi[1]][wi[2]] = c}
    <2>1. InHand(c) <=> client[c] = "accepted"
      BY <1>1 DEF HoldInv, PlacesInv
    <2>2. Cardinality(A) = IF client[c] = "in_service" THEN 1 ELSE 0
      <3>1. \A x, y \in A : x = y
        BY <1>1 DEF HoldInv, UniqueInv, Serves
      <3>2. (\E x : x \in A) <=> client[c] = "in_service"
        BY <1>1 DEF HoldInv, PlacesInv, Serves
      <3> HIDE DEF A
      <3> QED
        BY <3>1, <3>2, OneOrNone
    <2>3. Cardinality(B) = IF client[c] = "stranded" THEN 1 ELSE 0
      <3>1. \A x, y \in B : x = y
        BY <1>1 DEF HoldInv, UniqueInv, Inherits
      <3>2. (\E x : x \in B) <=> client[c] = "stranded"
        BY <1>1 DEF HoldInv, PlacesInv, Inherits
      <3> HIDE DEF B
      <3> QED
        BY <3>1, <3>2, OneOrNone
    <2>4. Cardinality(Q) = IF client[c] = "sent" THEN 1 ELSE 0
      <3>1. \A w \in Workers, i \in 1 .. SocketCapacity :
               Queued(w, i, c) <=> <<w, i>> \in Q
        <4>1. socket \in [Workers -> Seq(Clients)] /\ SocketCapacity \in Nat
          BY <1>1, ServerAssumption DEF HoldInv, TypeOK, WorkerOK
        <4>2. \A w \in Workers : DOMAIN socket[w] = 1 .. Len(socket[w])
                                 /\ Len(socket[w]) \in Nat
          BY <4>1
        <4>3. \A w \in Workers, i \in 1 .. SocketCapacity :
                 i \in DOMAIN socket[w] <=> i <= Len(socket[w])
          BY <4>1, <4>2
        <4> QED
          BY <4>3 DEF Queued
      <3>2. \A x \in Q : \E w \in Workers, i \in 1 .. SocketCapacity : x = <<w, i>>
        OBVIOUS
      <3> HIDE DEF Q
      <3>3. \A x, y \in Q : x = y
        <4> TAKE x, y \in Q
        <4>1. PICK w \in Workers, i \in 1 .. SocketCapacity : x = <<w, i>>
          BY <3>2
        <4>2. PICK v \in Workers, j \in 1 .. SocketCapacity : y = <<v, j>>
          BY <3>2
        <4>3. Queued(w, i, c) /\ Queued(v, j, c)
          BY <3>1, <4>1, <4>2
        <4>4. w = v /\ i = j
          BY <1>1, <4>3 DEF HoldInv, UniqueInv
        <4> QED
          BY <4>1, <4>2, <4>4
      <3>4. (\E x : x \in Q) <=> client[c] = "sent"
        <4>1. client[c] = "sent" <=>
                \E w \in Workers, i \in 1 .. SocketCapacity : Queued(w, i, c)
          BY <1>1 DEF HoldInv, PlacesInv
        <4>2. ASSUME NEW w \in Workers, NEW i \in 1 .. SocketCapacity, Queued(w, i, c)
              PROVE  \E x : x \in Q
          BY <3>1, <4>2
        <4>3. ASSUME NEW x \in Q
              PROVE  \E w \in Workers, i \in 1 .. SocketCapacity : Queued(w, i, c)
          BY <3>1, <3>2, <4>3
        <4> QED
          BY <4>1, <4>2, <4>3
      <3> QED
        BY <3>3, <3>4, OneOrNone
    <2>5. Places(c) = (IF InHand(c) THEN 1 ELSE 0) + Cardinality(A) + Cardinality(B)
                        + Cardinality(Q)
      BY DEF Places, InHand
    <2> HIDE DEF A, B, Q
    <2>6. Places(c) = (IF client[c] = "accepted" THEN 1 ELSE 0)
                        + (IF client[c] = "in_service" THEN 1 ELSE 0)
                        + (IF client[c] = "stranded" THEN 1 ELSE 0)
                        + (IF client[c] = "sent" THEN 1 ELSE 0)
      BY <2>1, <2>2, <2>3, <2>4, <2>5
    <2> QED
      BY <2>6
  <1> QED
    BY <1>1, DescriptorsAreHeld, PTL

-----------------------------------------------------------------------------
(* Who spins.  No step but a restart makes a worker run or younger than    *)
(* another, and a restart needs the dispatcher.                            *)
LEMMA ForksKept ==
    ASSUME FamilyOK, ForksInv, forked_after' = forked_after,
           main_pc = "dead" => main_pc' = "dead",
           \A v \in Workers : Running(v)' => Running(v),
           \A w \in Workers : At(w, "spinning")' => At(w, "spinning")
    PROVE  ForksInv'
  BY DEF FamilyOK, ForksInv

LEMMA ForksInit == Init => ForksInv
  <1> SUFFICES ASSUME Init
               PROVE  ForksInv
    OBVIOUS
  <1>1. \A w, v \in Workers : w # v => v > w \/ w > v
    BY ServerAssumption DEF Workers
  <1> QED
    BY <1>1 DEF Init, ForksInv, At

LEMMA ForksStep == HoldInv /\ ForksInv /\ [Next]_vars => ForksInv'
  <1> SUFFICES ASSUME HoldInv, ForksInv, [Next]_vars
               PROVE  ForksInv'
    OBVIOUS
  <1>1. TypeOK /\ FamilyOK /\ WorkerOK /\ round_robin \in Workers
    BY DEF HoldInv, TypeOK, MainOK
  <1>2. ASSUME UNCHANGED <<process, worker_pc, forked_after>>,
               main_pc = "dead" => main_pc' = "dead"
        PROVE  ForksInv'
    BY <1>1, <1>2, ForksKept DEF At, Running
  <1>3. CASE logger_process \/ UNCHANGED vars \/ \E c \in Clients : Connect(c)
    BY <1>2, <1>3 DEF logger_process, Connect, vars, main_vars, family_vars, worker_vars
  <1>4. CASE \/ \E c \in Clients : Accept(c)
             \/ SendSocket \/ LogRestart \/ SocketpairFails \/ AllWorkersBusy
    BY <1>2, <1>4 DEF Accept, SendSocket, CloseAndAdvance, LogRestart, SocketpairFails,
        AllWorkersBusy, NextTurn, family_vars, worker_vars
  <1>5. CASE MainDies
    BY <1>2, <1>5 DEF MainDies, family_vars, worker_vars
  <1>6. CASE TestWorker
    <2>1. PICK is_running \in BOOLEAN : waitpid(round_robin, is_running)
      BY <1>6 DEF TestWorker
    <2>2. \A v \in Workers : Running(v)' <=> Running(v)
      BY <1>1, <2>1, WaitpidEffect
    <2>3. /\ forked_after' = forked_after /\ worker_pc' = worker_pc
          /\ main_pc # "dead"
      BY <1>6 DEF TestWorker, worker_vars
    <2> QED
      BY <1>1, <2>2, <2>3, ForksKept DEF At
  <1>7. CASE CheckWorker
    <2>1. /\ forked_after' = forked_after /\ worker_pc' = worker_pc
          /\ main_pc = "check" /\ checked < MAX_WORKERS
          /\ \E result \in BOOLEAN : waitpid(checked, result)
      BY <1>7 DEF CheckWorker, NextTurn, worker_vars
    <2>2. checked \in Workers
      BY <2>1, ServerAssumption DEF HoldInv, TypeOK, MainOK, Workers
    <2>3. \A v \in Workers : Running(v)' <=> Running(v)
      BY <1>1, <2>1, <2>2, WaitpidEffect
    <2> QED
      BY <1>1, <2>1, <2>3, ForksKept DEF At
  <1>8. CASE ForkFails
    <2>1. /\ forked_after' = forked_after /\ worker_pc' = worker_pc
          /\ main_pc # "dead"
          /\ process' = [process EXCEPT ![round_robin] = "unforked"]
      BY <1>8 DEF ForkFails, RestartDone, worker_vars
    <2>2. \A v \in Workers : Running(v)' => Running(v)
      BY <1>1, <2>1 DEF Running, FamilyOK
    <2> QED
      BY <1>1, <2>1, <2>2, ForksKept DEF At
  <1>9. CASE RestartWorker
    <2>1. /\ main_pc = "restart"
          /\ forked_after' = [w \in Workers |->
                IF w = round_robin THEN {} ELSE forked_after[w] \cup {round_robin}]
          /\ worker_pc' = [worker_pc EXCEPT ![round_robin] = "recvmsg"]
          /\ process' = [process EXCEPT ![round_robin] = "alive"]
      BY <1>9 DEF RestartWorker, Forked, RestartDone
    <2>2. \A w \in Workers : ~At(w, "spinning")'
      <3>1. \A w \in Workers : w # round_robin =>
               worker_pc'[w] = worker_pc[w] /\ process'[w] = process[w]
        BY <1>1, <2>1 DEF FamilyOK, WorkerOK
      <3>2. worker_pc'[round_robin] = "recvmsg"
        BY <1>1, <2>1 DEF WorkerOK
      <3>3. \A w \in Workers : ~At(w, "spinning")
        BY <2>1 DEF ForksInv
      <3> QED
        BY <3>1, <3>2, <3>3 DEF At, Running
    <2>3. \A w, v \in Workers : w # v => v \in forked_after'[w] \/ w \in forked_after'[v]
      BY <1>1, <2>1 DEF ForksInv
    <2> QED
      BY <2>2, <2>3 DEF ForksInv
  <1>10. ASSUME NEW w \in Workers, Receive(w) \/ Serving(w) \/ LogAndClose(w)
         PROVE  ForksInv'
    <2>1. PICK to \in WorkerLabels \ {"spinning"} :
             worker_pc' = [worker_pc EXCEPT ![w] = to]
      <3>1. ServingLabels \subseteq WorkerLabels \ {"spinning"}
        BY DEF ServingLabels, WorkerLabels
      <3>2. "recvmsg" \in WorkerLabels \ {"spinning"} /\ "log_handling" \in ServingLabels
        BY DEF WorkerLabels, ServingLabels
      <3> QED
        BY <1>1, <1>10, <3>1, <3>2, ServingEffect DEF Receive, LogAndClose, Goto
    <2>2. UNCHANGED <<process, forked_after, main_pc>>
      BY <1>1, <1>10, ServingEffect DEF Receive, LogAndClose, main_vars, family_vars
    <2>3. \A v \in Workers : At(v, "spinning")' => At(v, "spinning")
      BY <1>1, <2>1, <2>2 DEF At, Running, WorkerOK
    <2> QED
      BY <1>1, <2>2, <2>3, ForksKept DEF Running
  <1>11. ASSUME NEW w \in Workers, Spin(w)
         PROVE  ForksInv'
    <2>1. /\ UNCHANGED <<process, forked_after, main_pc>>
          /\ main_pc = "dead" /\ \A v \in forked_after[w] : ~Running(v)
          /\ worker_pc' = [worker_pc EXCEPT ![w] = "spinning"]
      BY <1>11 DEF Spin, EndOfFile, Goto, main_vars, family_vars
    <2>2. \A v \in Workers : v # w /\ At(v, "spinning")' => At(v, "spinning")
      BY <1>1, <2>1 DEF At, Running, WorkerOK
    <2> QED
      BY <1>1, <2>1, <2>2 DEF ForksInv, Running, FamilyOK
  <1>12. ASSUME NEW w \in Workers, Die(w)
         PROVE  ForksInv'
    <2>1. /\ UNCHANGED <<main_vars, forked_after>>
          /\ \A v \in Workers :
                /\ process'[v] = IF v = w THEN "zombie" ELSE process[v]
                /\ worker_pc'[v] = IF v = w THEN "recvmsg" ELSE worker_pc[v]
      BY <1>1, <1>12, DieEffect
    <2>2. \A v \in Workers : /\ Running(v)' => Running(v)
                             /\ At(v, "spinning")' => At(v, "spinning")
      BY <2>1 DEF Running, At
    <2> QED
      BY <1>1, <2>1, <2>2, ForksKept DEF main_vars
  <1> QED
    BY <1>3, <1>4, <1>5, <1>6, <1>7, <1>8, <1>9, <1>10, <1>11, <1>12, NextSplit

(* When the dispatcher is gone at most one worker reads an end of file and *)
(* spins: of two that run one was forked after the other and has a copy of *)
(* the other's end.                                                        *)
THEOREM AtMostOneSpins == Spec => []OneSpins
  <1>1. ASSUME ForksInv
        PROVE  OneSpins
    <2> DEFINE S == {w \in Workers : At(w, "spinning")}
    <2>1. \A w, v \in S : w = v
      BY <1>1 DEF ForksInv, At
    <2> HIDE DEF S
    <2>2. Cardinality(S) <= 1
      BY <2>1, OneOrNone
    <2> QED
      BY <2>2 DEF OneSpins, S
  <1>2. Init => HoldInv /\ ForksInv
    BY HoldInit, ForksInit
  <1>3. HoldInv /\ ForksInv /\ [Next]_vars => (HoldInv /\ ForksInv)'
    BY HoldStep, ForksStep
  <1> QED
    BY <1>1, <1>2, <1>3, PTL DEF Spec

-----------------------------------------------------------------------------
(* What the deaths cost.                                                   *)
LEMMA Grown ==
    ASSUME NEW A, NEW B, NEW x, IsFiniteSet(A), B \subseteq A \cup {x}
    PROVE  /\ IsFiniteSet(B) /\ Cardinality(A) \in Nat /\ Cardinality(B) \in Nat
           /\ Cardinality(B) <= Cardinality(A) + 1
  <1>1. /\ IsFiniteSet(A \cup {x})
        /\ Cardinality(A \cup {x}) = IF x \in A THEN Cardinality(A) ELSE Cardinality(A) + 1
    BY FS_AddElement
  <1>2. IsFiniteSet(B) /\ Cardinality(B) <= Cardinality(A \cup {x})
    BY <1>1, FS_Subset
  <1>3. Cardinality(A) \in Nat /\ Cardinality(B) \in Nat
    BY <1>2, FS_CardinalityType
  <1> QED
    BY <1>1, <1>2, <1>3

LEMMA Shrunk ==
    ASSUME NEW A, NEW B, NEW x \in A, IsFiniteSet(A), B \subseteq A \ {x}
    PROVE  Cardinality(B) + 1 <= Cardinality(A)
  <1>1. IsFiniteSet(A \ {x}) /\ Cardinality(A \ {x}) = Cardinality(A) - 1
    BY FS_RemoveElement
  <1>2. IsFiniteSet(B) /\ Cardinality(B) <= Cardinality(A \ {x})
    BY <1>1, FS_Subset
  <1>3. Cardinality(A) \in Nat /\ Cardinality(B) \in Nat
    BY <1>2, FS_CardinalityType
  <1> QED
    BY <1>1, <1>2, <1>3

LEMMA Bounded ==
    ASSUME NEW A, NEW B, IsFiniteSet(A), B \subseteq A
    PROVE  /\ IsFiniteSet(B) /\ Cardinality(A) \in Nat /\ Cardinality(B) \in Nat
           /\ Cardinality(B) <= Cardinality(A)
  <1>1. IsFiniteSet(B) /\ Cardinality(B) <= Cardinality(A)
    BY FS_Subset
  <1> QED
    BY <1>1, FS_CardinalityType

LEMMA InFlight ==
    ASSUME NEW s \in Seq(Clients)
    PROVE  LET R == {s[i] : i \in DOMAIN s}
           IN  IsFiniteSet(R) /\ Cardinality(R) \in Nat /\ Cardinality(R) <= Len(s)
  <1> DEFINE R == {s[i] : i \in DOMAIN s}
  <1>1. Len(s) \in Nat /\ DOMAIN s = 1 .. Len(s)
    OBVIOUS
  <1>2. s \in Surjection(1 .. Len(s), R)
    BY <1>1 DEF Surjection
  <1> HIDE DEF R
  <1>3. IsFiniteSet(1 .. Len(s)) /\ Cardinality(1 .. Len(s)) = Len(s)
    <2>1. \A n \in Nat : IsFiniteSet(1 .. n) /\ Cardinality(1 .. n) = n
      <3> TAKE n \in Nat
      <3>1. 1 \in Int /\ n \in Int
        OBVIOUS
      <3>2. /\ IsFiniteSet(1 .. n)
            /\ Cardinality(1 .. n) = IF 1 > n THEN 0 ELSE n - 1 + 1
        BY <3>1, FS_Interval
      <3> QED
        BY <3>2
    <2> QED
      BY <1>1, <2>1
  <1>4. IsFiniteSet(R) /\ Cardinality(R) <= Len(s)
    BY <1>2, <1>3, FS_Surjection
  <1>5. Cardinality(R) \in Nat
    BY <1>4, FS_CardinalityType
  <1> QED
    BY <1>4, <1>5 DEF R

LEMMA FiniteNames == IsFiniteSet(Clients) /\ IsFiniteSet(Workers)
  <1>1. MaxClients \in Nat /\ MAX_WORKERS \in Nat
    BY ServerAssumption
  <1> QED
    BY <1>1, FS_Interval DEF Clients, Workers

LEMMA DropSets ==
    /\ IsFiniteSet(LostClients) /\ Cardinality(LostClients) \in Nat
    /\ IsFiniteSet(LostClients') /\ Cardinality(LostClients') \in Nat
    /\ IsFiniteSet(Down) /\ Cardinality(Down) \in Nat
    /\ IsFiniteSet(Down') /\ Cardinality(Down') \in Nat
  <1>1. /\ LostClients \subseteq Clients /\ LostClients' \subseteq Clients
        /\ Down \subseteq Workers /\ Down' \subseteq Workers
    BY DEF LostClients, Down
  <1> QED
    BY <1>1, FiniteNames, Bounded

LEMMA AllowedType ==
    ASSUME FaultOK
    PROVE  Allowed \in Nat
  <1>1. SocketCapacity + 3 \in Nat /\ crashes \in Nat /\ failures \in Nat
    BY ServerAssumption DEF FaultOK
  <1>2. crashes * (SocketCapacity + 3) \in Nat
    BY <1>1
  <1> QED
    BY <1>1, <1>2 DEF Allowed

(* What a step adds to what is owed.                                       *)
LEMMA OwedGrows ==
    ASSUME NEW lost \in Int, NEW down \in Int, NEW passed \in Int,
           Cardinality(LostClients') <= Cardinality(LostClients) + lost,
           Cardinality(Down') <= Cardinality(Down) + down,
           (IF PassedTooLate' THEN 1 ELSE 0) <= (IF PassedTooLate THEN 1 ELSE 0) + passed
    PROVE  Owed \in Nat /\ Owed' \in Nat /\ Owed' <= Owed + (lost + down + passed)
  BY DropSets DEF Owed

(* A step that drops nobody, stops nobody and passes nothing too late.     *)
LEMMA DropKept ==
    ASSUME FaultOK, DropInv, main_pc # "dead", UNCHANGED fault_vars,
           LostClients' \subseteq LostClients, Down' \subseteq Down,
           PassedTooLate' => PassedTooLate
    PROVE  DropInv'
  <1>1. Allowed \in Nat /\ Allowed' = Allowed
    BY AllowedType DEF fault_vars, Allowed
  <1>2. /\ Cardinality(LostClients') <= Cardinality(LostClients) + 0
        /\ Cardinality(Down') <= Cardinality(Down) + 0
    BY DropSets, Bounded
  <1>3. Owed \in Nat /\ Owed' \in Nat /\ Owed' <= Owed + (0 + 0 + 0)
    BY <1>2, OwedGrows
  <1>4. Owed <= Allowed
    BY DEF DropInv
  <1> QED
    BY <1>1, <1>3, <1>4 DEF DropInv

(* Steps that change what became of one connection.                        *)
LEMMA LostOrNot ==
    ASSUME ClientOK, NEW k, NEW what \in Statuses, Become({k}, what)
    PROVE  /\ LostClients' \subseteq LostClients \cup {k}
           /\ what \notin {"dropped", "stranded"} => LostClients' \subseteq LostClients
  <1>1. \A c \in Clients : client'[c] = IF c = k THEN what ELSE client[c]
    BY BecomeEffect
  <1> QED
    BY <1>1 DEF LostClients

(* The next four steps make the connections that are lost.                 *)
LEMMA DropsBySend ==
    ASSUME HoldInv, DropInv, SendSocket
    PROVE  DropInv'
  <1>1. /\ main_pc = "send" /\ main_pc' = "check"
        /\ UNCHANGED <<process, fault_vars>>
    BY DEF SendSocket, CloseAndAdvance, family_vars
  <1>2. ClientOK /\ FaultOK /\ FamilyOK /\ round_robin \in Workers
    BY DEF HoldInv, TypeOK, MainOK
  <1>3. Down' = Down /\ ~PassedTooLate'
    BY <1>1 DEF Down, Running, PassedTooLate
  <1>4. PICK what \in {"sent", "undelivered", "dropped"} :
          /\ Become({in_hand}, what)
          /\ what = "dropped" => ~Running(round_robin) /\ process[round_robin] # "unforked"
    BY DEF SendSocket, SendFails
  <1>5. what \in Statuses
    BY DEF Statuses
  <1>6. CASE what # "dropped"
    <2>1. LostClients' \subseteq LostClients
      BY <1>2, <1>4, <1>5, <1>6, LostOrNot
    <2> QED
      BY <1>1, <1>2, <1>3, <2>1, DropKept
  <1>7. CASE what = "dropped"
    <2>1. process[round_robin] = "zombie"
      BY <1>1, <1>2, <1>4, <1>7 DEF FamilyOK, Running, HoldInv, HandInv
    <2>2. PassedTooLate
      BY <1>1, <2>1 DEF PassedTooLate
    <2>3. Cardinality(LostClients') <= Cardinality(LostClients) + 1
      BY <1>2, <1>4, <1>5, LostOrNot, Grown, DropSets
    <2>4. Cardinality(Down') <= Cardinality(Down) + 0
      BY <1>3, DropSets
    <2>5. Owed \in Nat /\ Owed' \in Nat /\ Owed' <= Owed + (1 + 0 + (-1))
      BY <1>3, <2>2, <2>3, <2>4, OwedGrows
    <2>6. Owed <= Allowed
      BY <1>1 DEF DropInv
    <2>7. Allowed \in Nat /\ Allowed' = Allowed
      BY <1>1, <1>2, AllowedType DEF fault_vars, Allowed
    <2> QED
      BY <2>5, <2>6, <2>7 DEF DropInv
  <1> QED
    BY <1>6, <1>7

LEMMA DropsByFailure ==
    ASSUME HoldInv, DropInv, SocketpairFails \/ ForkFails
    PROVE  DropInv'
  <1>1. /\ main_pc = "restart" /\ main_pc' # "send"
        /\ Become({in_hand}, "dropped")
        /\ failures' = failures + 1 /\ crashes' = crashes
        /\ process' = process \/ process' = [process EXCEPT ![round_robin] = "unforked"]
    BY DEF SocketpairFails, ForkFails, RestartDone, family_vars
  <1>2. ClientOK /\ FaultOK /\ FamilyOK /\ "dropped" \in Statuses
    BY DEF HoldInv, TypeOK, Statuses
  <1>3. ~Running(round_robin)
    BY <1>1 DEF HoldInv, HandInv
  <1>4. Down' \subseteq Down /\ ~PassedTooLate' /\ ~PassedTooLate
    BY <1>1, <1>2, <1>3 DEF Down, Running, PassedTooLate, FamilyOK
  <1>5. Cardinality(LostClients') <= Cardinality(LostClients) + 1
    BY <1>1, <1>2, LostOrNot, Grown, DropSets
  <1>6. Cardinality(Down') <= Cardinality(Down) + 0
    BY <1>4, DropSets, Bounded
  <1>7. Owed \in Nat /\ Owed' \in Nat /\ Owed' <= Owed + (1 + 0 + 0)
    BY <1>4, <1>5, <1>6, OwedGrows
  <1>8. Owed <= Allowed
    BY <1>1 DEF DropInv
  <1>9. Allowed \in Nat /\ Allowed' = Allowed + 1
    <2>1. crashes * (SocketCapacity + 3) \in Nat /\ failures \in Nat
      BY <1>2, ServerAssumption DEF FaultOK
    <2>2. crashes' * (SocketCapacity + 3) = crashes * (SocketCapacity + 3)
      BY <1>1
    <2> QED
      BY <1>1, <2>1, <2>2 DEF Allowed
  <1> QED
    BY <1>7, <1>8, <1>9 DEF DropInv

LEMMA DropsByRestart ==
    ASSUME HoldInv, DropInv, RestartWorker
    PROVE  DropInv'
  <1>1. /\ main_pc = "restart" /\ main_pc' = "check"
        /\ \E what \in {"dropped", "stranded"} : Become({in_hand}, what)
        /\ process' = [process EXCEPT ![round_robin] = "alive"]
        /\ UNCHANGED fault_vars
    BY DEF RestartWorker, Forked, RestartDone, fault_vars
  <1>2. /\ ClientOK /\ FaultOK /\ FamilyOK /\ round_robin \in Workers
        /\ {"dropped", "stranded"} \subseteq Statuses
    BY DEF HoldInv, TypeOK, MainOK, Statuses
  <1>3. ~Running(round_robin)
    BY <1>1 DEF HoldInv, HandInv
  <1>4. /\ round_robin \in Down /\ Down' \subseteq Down \ {round_robin}
        /\ ~PassedTooLate' /\ ~PassedTooLate
    BY <1>1, <1>2, <1>3 DEF Down, Running, PassedTooLate, FamilyOK
  <1>5. Cardinality(LostClients') <= Cardinality(LostClients) + 1
    <2>1. LostClients' \subseteq LostClients \cup {in_hand}
      BY <1>1, <1>2, LostOrNot
    <2> QED
      BY <2>1, Grown, DropSets
  <1>6. Cardinality(Down') <= Cardinality(Down) + (-1)
    <2>1. Cardinality(Down') + 1 <= Cardinality(Down)
      BY <1>4, DropSets, Shrunk
    <2> QED
      BY <2>1, DropSets
  <1>7. Owed \in Nat /\ Owed' \in Nat /\ Owed' <= Owed + (1 + (-1) + 0)
    BY <1>4, <1>5, <1>6, OwedGrows
  <1>8. Owed <= Allowed
    BY <1>1 DEF DropInv
  <1>9. Allowed \in Nat /\ Allowed' = Allowed
    BY <1>1, <1>2, AllowedType DEF fault_vars, Allowed
  <1> QED
    BY <1>7, <1>8, <1>9 DEF DropInv

LEMMA DropsByDeath ==
    ASSUME HoldInv, DropInv, NEW w \in Workers, Die(w)
    PROVE  DropInv'
  <1> DEFINE s == socket[w]
             R == {s[i] : i \in DOMAIN s}
  <1>1. /\ TypeOK
        /\ UNCHANGED main_vars
        /\ crashes' = crashes + 1 /\ failures' = failures
        /\ \A v \in Workers : process'[v] = IF v = w THEN "zombie" ELSE process[v]
        /\ \A c \in Clients :
              \/ client'[c] = "dropped"
                   /\ (HeldAt(w, c) \/ (main_pc = "dead" /\ client[c] = "backlog"))
              \/ client'[c] = client[c] /\ ~HeldAt(w, c)
    BY DieEffect DEF HoldInv
  <1>2. CASE main_pc = "dead"
    BY <1>1, <1>2 DEF DropInv, main_vars
  <1>3. CASE main_pc # "dead"
    <2>1. FaultOK /\ SocketCapacity \in Nat /\ s \in Seq(Clients) /\ Len(s) <= SocketCapacity
      BY <1>1, ServerAssumption DEF TypeOK, WorkerOK
    <2>2. \A c \in Clients : Inherits(w, c) => c \in LostClients
      BY DEF HoldInv, PlacesInv, LostClients
    <2>3. LostClients' \subseteq (LostClients \cup R) \cup {serving[w]}
      BY <1>1, <1>3, <2>2 DEF LostClients, HeldAt, Serves, Queued
    <2>4. IsFiniteSet(R) /\ Cardinality(R) \in Nat /\ Cardinality(R) <= Len(s)
      <3> HIDE DEF s
      <3> QED
        BY <2>1, InFlight
    <2>5. /\ IsFiniteSet(LostClients \cup R) /\ Cardinality(LostClients \cup R) \in Nat
          /\ Cardinality(LostClients \cup R) <= Cardinality(LostClients) + Cardinality(R)
      <3> HIDE DEF R
      <3>1. /\ IsFiniteSet(LostClients \cup R)
            /\ Cardinality(LostClients \cup R) = Cardinality(LostClients) + Cardinality(R)
                                                   - Cardinality(LostClients \cap R)
        BY <2>4, DropSets, FS_Union
      <3>2. Cardinality(LostClients \cap R) \in Nat
        BY DropSets, Bounded
      <3> QED
        BY <2>4, <3>1, <3>2, DropSets, FS_CardinalityType
    <2> HIDE DEF R
    <2>6. Cardinality(LostClients') <= Cardinality(LostClients \cup R) + 1
      BY <2>3, <2>5, Grown
    <2>7. Len(s) \in Nat
      BY <2>1
    <2> HIDE DEF s
    <2>8. Cardinality(LostClients') <= Cardinality(LostClients) + (SocketCapacity + 1)
      BY <2>1, <2>4, <2>5, <2>6, <2>7, DropSets
    <2>9. Cardinality(Down') <= Cardinality(Down) + 1
      <3>1. Down' \subseteq Down \cup {w}
        BY <1>1 DEF Down, Running
      <3> QED
        BY <3>1, DropSets, Grown
    <2>10. Owed \in Nat /\ Owed' \in Nat /\ Owed' <= Owed + ((SocketCapacity + 1) + 1 + 1)
      <3>1. (IF PassedTooLate' THEN 1 ELSE 0) <= (IF PassedTooLate THEN 1 ELSE 0) + 1
        OBVIOUS
      <3>2. SocketCapacity + 1 \in Int
        BY <2>1
      <3> QED
        BY <2>8, <2>9, <3>1, <3>2, OwedGrows
    <2>11. Owed <= Allowed
      BY <1>3 DEF DropInv
    <2>12. Allowed \in Nat /\ Allowed' = Allowed + (SocketCapacity + 3)
      <3>1. crashes \in Nat /\ failures \in Nat /\ SocketCapacity \in Nat
        BY <2>1 DEF FaultOK
      <3>2. (crashes + 1) * (SocketCapacity + 3)
               = crashes * (SocketCapacity + 3) + (SocketCapacity + 3)
        BY <3>1
      <3>3. crashes * (SocketCapacity + 3) \in Nat
        BY <3>1
      <3>4. crashes' * (SocketCapacity + 3)
               = crashes * (SocketCapacity + 3) + (SocketCapacity + 3)
        BY <1>1, <3>2
      <3> QED
        BY <1>1, <3>1, <3>3, <3>4 DEF Allowed
    <2> QED
      BY <2>1, <2>10, <2>11, <2>12 DEF DropInv
  <1> QED
    BY <1>2, <1>3

LEMMA DropStep == HoldInv /\ DropInv /\ [Next]_vars => DropInv'
  <1> SUFFICES ASSUME HoldInv, DropInv, [Next]_vars
               PROVE  DropInv'
    OBVIOUS
  <1>1. /\ TypeOK /\ ClientOK /\ FaultOK /\ WorkerOK
        /\ round_robin \in Workers
    BY DEF HoldInv, TypeOK, MainOK
  <1>2. ASSUME UNCHANGED <<fault_vars, process, main_pc, round_robin>>,
               LostClients' \subseteq LostClients
        PROVE  DropInv'
    <2>1. Down' = Down /\ PassedTooLate' = PassedTooLate
      BY <1>2 DEF Down, Running, PassedTooLate
    <2> QED
      BY <1>1, <1>2, <2>1, DropKept DEF DropInv
  <1>3. ASSUME UNCHANGED <<fault_vars, process>>, main_pc # "dead", main_pc' # "send",
               LostClients' \subseteq LostClients
        PROVE  DropInv'
    <2>1. Down' = Down /\ ~PassedTooLate'
      BY <1>3 DEF Down, Running, PassedTooLate
    <2> QED
      BY <1>1, <1>3, <2>1, DropKept
  <1>4. ASSUME client' = client
        PROVE  LostClients' = LostClients
    BY <1>4 DEF LostClients
  <1>5. CASE logger_process \/ UNCHANGED vars
    BY <1>2, <1>4, <1>5 DEF logger_process, vars, main_vars, family_vars
  <1>6. ASSUME NEW c \in Clients, Connect(c)
        PROVE  DropInv'
    <2>1. UNCHANGED <<fault_vars, process, main_pc, round_robin>> /\ Become({c}, "backlog")
      BY <1>6 DEF Connect, main_vars, family_vars
    <2>2. LostClients' \subseteq LostClients
      BY <1>1, <2>1, LostOrNot DEF Statuses
    <2> QED
      BY <1>2, <2>1, <2>2
  <1>7. ASSUME NEW c \in Clients, Accept(c)
        PROVE  DropInv'
    <2>1. /\ UNCHANGED <<fault_vars, process>> /\ main_pc = "accept" /\ main_pc' = "test"
          /\ Become({c}, "accepted")
      BY <1>7 DEF Accept, family_vars
    <2>2. LostClients' \subseteq LostClients
      BY <1>1, <2>1, LostOrNot DEF Statuses
    <2> QED
      BY <1>3, <2>1, <2>2
  <1>8. CASE LogRestart
    BY <1>3, <1>4, <1>8 DEF LogRestart, family_vars
  <1>9. CASE AllWorkersBusy
    <2>1. closed
      BY <1>9 DEF HoldInv, HandInv, AllWorkersBusy
    <2> QED
      BY <1>3, <1>4, <1>9, <2>1 DEF AllWorkersBusy, NextTurn
  <1>10. CASE MainDies
    BY <1>10 DEF MainDies, DropInv
  <1>11. CASE TestWorker
    <2>1. PICK is_running \in BOOLEAN :
            /\ waitpid(round_robin, is_running)
            /\ main_pc' = IF is_running THEN "send" ELSE "log_restart"
      BY <1>11 DEF TestWorker
    <2>2. /\ \A v \in Workers : Running(v)' <=> Running(v)
          /\ is_running => process'[round_robin] \in {"alive", "unforked"}
      BY <1>1, <2>1, WaitpidEffect
    <2>3. UNCHANGED <<client, round_robin, fault_vars>> /\ main_pc # "dead"
      BY <1>11 DEF TestWorker
    <2>4. Down' = Down /\ ~PassedTooLate'
      BY <2>1, <2>2, <2>3 DEF Down, PassedTooLate
    <2> QED
      BY <1>1, <1>4, <2>3, <2>4, DropKept
  <1>12. CASE CheckWorker
    <2>1. /\ UNCHANGED <<client, fault_vars>> /\ main_pc # "dead" /\ main_pc' # "send"
          /\ checked < MAX_WORKERS
          /\ \E result \in BOOLEAN : waitpid(checked, result)
      BY <1>12 DEF CheckWorker, NextTurn
    <2>2. checked \in Workers
      BY <2>1, ServerAssumption DEF HoldInv, TypeOK, MainOK, Workers
    <2>3. \A v \in Workers : Running(v)' <=> Running(v)
      BY <1>1, <2>1, <2>2, WaitpidEffect
    <2>4. Down' = Down /\ ~PassedTooLate'
      BY <2>1, <2>3 DEF Down, PassedTooLate
    <2> QED
      BY <1>1, <1>4, <2>1, <2>4, DropKept
  <1>13. ASSUME NEW w \in Workers, Receive(w) \/ Spin(w) \/ Serving(w) \/ LogAndClose(w)
         PROVE  DropInv'
    <2>1. UNCHANGED <<fault_vars, process, main_pc, round_robin>>
      BY <1>1, <1>13, ServingEffect DEF Receive, Spin, LogAndClose, main_vars, family_vars
    <2>2. LostClients' \subseteq LostClients
      <3>1. CASE Receive(w)
        BY <1>1, <3>1, LostOrNot DEF Receive, Statuses
      <3>2. CASE Spin(w) \/ Serving(w)
        BY <1>1, <1>4, <3>2, ServingEffect DEF Spin
      <3>3. CASE LogAndClose(w)
        <4>1. PICK what \in {"handled", "failed"} : Become({serving[w]}, what)
          BY <3>3 DEF LogAndClose
        <4>2. what \in Statuses
          BY DEF Statuses
        <4> QED
          BY <1>1, <4>1, <4>2, LostOrNot
      <3> QED
        BY <1>13, <3>1, <3>2, <3>3
    <2> QED
      BY <1>2, <2>1, <2>2
  <1> QED
    BY <1>5, <1>6, <1>7, <1>8, <1>9, <1>10, <1>11, <1>12, <1>13, NextSplit,
       DropsBySend, DropsByFailure, DropsByRestart, DropsByDeath

(* While the dispatcher lives a dead worker costs the connection it        *)
(* served, those in flight to it, one passed to it too late and one for    *)
(* its restart; a failed restart costs one more.                           *)
THEOREM DeathsCostABoundedNumber == Spec => []DropsAreBounded
  <1>1. Init => DropInv
    <2> SUFFICES ASSUME Init
                 PROVE  DropInv
      OBVIOUS
    <2>1. LostClients = {} /\ Down = {} /\ ~PassedTooLate
      BY DEF Init, LostClients, Down, Running, PassedTooLate
    <2>2. Owed = 0
      BY <2>1, FS_EmptySet DEF Owed
    <2>3. Allowed = 0
      <3>1. SocketCapacity + 3 \in Nat
        BY ServerAssumption
      <3>2. 0 * (SocketCapacity + 3) = 0
        BY <3>1
      <3> QED
        BY <3>2 DEF Init, Allowed
    <2> QED
      BY <2>2, <2>3 DEF DropInv
  <1>2. ASSUME HoldInv, DropInv
        PROVE  DropsAreBounded
    <2>1. CASE main_pc # "dead"
      <3>1. Cardinality(LostClients) \in Nat /\ Cardinality(Down) \in Nat
        BY DropSets
      <3>2. Cardinality(LostClients) <= Owed
        BY <3>1 DEF Owed
      <3>3. Owed <= Allowed /\ Allowed \in Nat /\ Owed \in Nat
        BY <1>2, <2>1, <3>1, AllowedType DEF DropInv, HoldInv, TypeOK, Owed
      <3>4. Cardinality(LostClients) <= Allowed
        BY <3>1, <3>2, <3>3
      <3> QED
        BY <3>4 DEF DropsAreBounded, LostClients, Allowed
    <2> QED
      BY <2>1 DEF DropsAreBounded
  <1>3. Init => HoldInv /\ DropInv
    BY <1>1, HoldInit
  <1>4. HoldInv /\ DropInv /\ [Next]_vars => (HoldInv /\ DropInv)'
    BY HoldStep, DropStep
  <1> QED
    BY <1>2, <1>3, <1>4, PTL DEF Spec

-----------------------------------------------------------------------------
(* What a failed fork costs.                                               *)
LEMMA OrderKept ==
    ASSUME OrderInv,
           \A c \in Clients :
              \/ client'[c] = client[c]
              \/ /\ client[c] \notin {"away", "backlog"}
                 /\ client'[c] \notin {"away", "backlog", "accepted"}
    PROVE  OrderInv'
  BY DEF OrderInv

LEMMA BacklogGone ==
    ASSUME OrderInv,
           \A c \in Clients :
              /\ client'[c] = "away" <=> client[c] = "away"
              /\ client'[c] \notin {"backlog", "accepted"}
    PROVE  OrderInv'
  BY DEF OrderInv

LEMMA ClientTypes == Clients \subseteq Nat /\ Workers \subseteq Nat
  <1>1. MaxClients \in Nat /\ MAX_WORKERS \in Nat
    BY ServerAssumption
  <1> QED
    BY <1>1 DEF Clients, Workers

LEMMA ConnectOrder ==
    ASSUME HoldInv, OrderInv, NEW n \in Clients, Connect(n)
    PROVE  OrderInv'
  <1>1. /\ client[n] = "away" /\ \A d \in 1 .. n - 1 : client[d] # "away"
        /\ Become({n}, "backlog") /\ ClientOK /\ "backlog" \in Statuses
    BY DEF Connect, First, HoldInv, TypeOK, Statuses
  <1>2. \A c \in Clients : client'[c] = IF c = n THEN "backlog" ELSE client[c]
    BY <1>1, BecomeEffect
  <1>3. \A c \in Clients : c < n => c \in 1 .. n - 1
    BY ServerAssumption DEF Clients
  <1> QED
    BY <1>1, <1>2, <1>3 DEF OrderInv

LEMMA AcceptOrder ==
    ASSUME HoldInv, OrderInv, NEW n \in Clients, Accept(n)
    PROVE  OrderInv'
  <1>1. /\ client[n] = "backlog" /\ \A d \in 1 .. n - 1 : client[d] # "backlog"
        /\ Become({n}, "accepted") /\ ClientOK /\ "accepted" \in Statuses
        /\ main_pc = "accept"
    BY DEF Accept, First, HoldInv, TypeOK, Statuses
  <1>2. \A c \in Clients : client'[c] = IF c = n THEN "accepted" ELSE client[c]
    BY <1>1, BecomeEffect
  <1>3. \A c \in Clients : c < n => c \in 1 .. n - 1
    BY ServerAssumption DEF Clients
  <1>4. \A c \in Clients : client[c] # "accepted"
    BY <1>1 DEF HoldInv, HandInv, PlacesInv, InHand
  <1>5. \A c \in Clients : c < n => client[c] \notin {"away", "backlog"}
    BY <1>1, <1>3 DEF OrderInv
  <1> QED
    BY <1>1, <1>2, <1>4, <1>5 DEF OrderInv

(* main gives the connection in hand away, or up.                          *)
LEMMA HandOrder ==
    ASSUME HoldInv, OrderInv, main_pc \in {"send", "restart"},
           NEW what \in Statuses \ {"away", "backlog", "accepted"},
           Become({in_hand}, what)
    PROVE  OrderInv'
  <1>1. client[in_hand] = "accepted"
    BY HandIsAClient
  <1>2. \A c \in Clients : client'[c] = IF c = in_hand THEN what ELSE client[c]
    BY BecomeEffect DEF HoldInv, TypeOK
  <1> QED
    BY <1>1, <1>2, OrderKept

(* A death drops the backlog as a whole or not at all.                     *)
DropsTogether ==
    /\ \A c \in Clients :
          \/ client'[c] = client[c]
          \/ client'[c] = "dropped" /\ client[c] # "away"
    /\ \/ \A c \in Backlog : client'[c] = client[c]
       \/ main_pc' = "dead" /\ \A c \in Backlog : client'[c] = "dropped"

LEMMA DropsOrder ==
    ASSUME OrderInv, DropsTogether, main_pc' = "dead" => \A c \in Clients : client'[c] # "accepted"
    PROVE  OrderInv'
  <1>1. CASE \A c \in Backlog : client'[c] = client[c]
    <2>1. \A c \in Clients :
             \/ client'[c] = client[c]
             \/ /\ client[c] \notin {"away", "backlog"}
                /\ client'[c] \notin {"away", "backlog", "accepted"}
      BY <1>1 DEF DropsTogether, Backlog
    <2> QED
      BY <2>1, OrderKept
  <1>2. CASE main_pc' = "dead" /\ \A c \in Backlog : client'[c] = "dropped"
    <2>1. \A c \in Clients :
              /\ client'[c] = "away" <=> client[c] = "away"
              /\ client'[c] \notin {"backlog", "accepted"}
      BY <1>2 DEF DropsTogether, Backlog
    <2> QED
      BY <2>1, BacklogGone
  <1> QED
    BY <1>1, <1>2 DEF DropsTogether

LEMMA MainDiesTogether ==
    ASSUME HoldInv, MainDies
    PROVE  DropsTogether
  <1>1. PICK more \in {Backlog, {}} :
          Become((IF closed THEN {} ELSE {in_hand}) \cup more, "dropped")
    BY DEF MainDies
  <1>2. PICK cs : cs = (IF closed THEN {} ELSE {in_hand}) \cup more
    OBVIOUS
  <1>3. Become(cs, "dropped") /\ ClientOK /\ "dropped" \in Statuses
    BY <1>1, <1>2 DEF HoldInv, TypeOK, Statuses
  <1>4. \A c \in Clients : client'[c] = IF c \in cs THEN "dropped" ELSE client[c]
    BY <1>3, BecomeEffect
  <1>5. \A c \in cs \cap Clients : client[c] = "accepted" \/ c \in more
    BY <1>2 DEF HoldInv, PlacesInv, InHand
  <1>6. main_pc' = "dead" /\ more \subseteq cs /\ (more = Backlog \/ more = {})
    BY <1>2 DEF MainDies
  <1> QED
    BY <1>4, <1>5, <1>6 DEF DropsTogether, Backlog

LEMMA DieTogether ==
    ASSUME HoldInv, NEW w \in Workers, Die(w)
    PROVE  DropsTogether
  <1>1. PICK more \in {Backlog, {}} :
          /\ Become(HeldBy(w) \cup more, "dropped")
          /\ more # {} => main_pc = "dead"
          /\ main_pc' = main_pc
    BY DEF Die, main_vars
  <1>2. PICK cs : cs = HeldBy(w) \cup more
    OBVIOUS
  <1>3. Become(cs, "dropped") /\ ClientOK /\ "dropped" \in Statuses
    BY <1>1, <1>2 DEF HoldInv, TypeOK, Statuses
  <1>4. \A c \in Clients : client'[c] = IF c \in cs THEN "dropped" ELSE client[c]
    BY <1>3, BecomeEffect
  <1>5. DOMAIN socket[w] \subseteq 1 .. SocketCapacity
    <2>1. /\ socket[w] \in Seq(Clients) /\ Len(socket[w]) <= SocketCapacity
          /\ SocketCapacity \in Nat
      BY ServerAssumption DEF HoldInv, TypeOK, WorkerOK
    <2> QED
      BY <2>1
  <1>6. \A c \in HeldBy(w) \cap Clients : client[c] \in {"in_service", "sent", "stranded"}
    BY <1>5 DEF HeldBy, HoldInv, PlacesInv, Serves, Queued, Inherits
  <1>7. /\ more \subseteq cs /\ (more = Backlog \/ more = {})
        /\ \A c \in cs : c \in HeldBy(w) \/ c \in more
    BY <1>2
  <1> QED
    BY <1>1, <1>4, <1>6, <1>7 DEF DropsTogether, Backlog

(* What a worker does with the connection it was sent.                     *)
LEMMA WorkerClient ==
    ASSUME HoldInv, NEW w \in Workers, Receive(w) \/ LogAndClose(w)
    PROVE  \A c \in Clients :
              \/ client'[c] = client[c]
              \/ /\ client[c] \in {"sent", "in_service"}
                 /\ client'[c] \in {"in_service", "handled", "failed"}
  <1>1. ClientOK /\ {"in_service", "handled", "failed"} \subseteq Statuses
    BY DEF HoldInv, TypeOK, Statuses
  <1>2. CASE Receive(w)
    <2>1. /\ socket[w] \in Seq(Clients) /\ socket[w] # <<>>
          /\ Len(socket[w]) <= SocketCapacity /\ SocketCapacity \in Nat
      BY <1>2, ServerAssumption DEF HoldInv, TypeOK, WorkerOK, Receive
    <2>2. PICK h : h = Head(socket[w])
      OBVIOUS
    <2>3. h \in Clients /\ 1 \in 1 .. SocketCapacity /\ Queued(w, 1, h)
      BY <2>1, <2>2, TailAt DEF Queued
    <2>4. client[h] = "sent"
      BY <2>3 DEF HoldInv, PlacesInv
    <2>5. Become({h}, "in_service")
      BY <1>2, <2>2 DEF Receive
    <2> QED
      BY <1>1, <2>4, <2>5, BecomeEffect
  <1>3. CASE LogAndClose(w)
    <2>1. PICK k : k = serving[w]
      OBVIOUS
    <2>2. PICK what \in {"handled", "failed"} : Become({k}, what)
      BY <1>3, <2>1 DEF LogAndClose
    <2>3. what \in Statuses
      BY <1>1
    <2>4. \A c \in Clients : client'[c] = IF c = k THEN what ELSE client[c]
      BY <1>1, <2>2, <2>3, BecomeEffect
    <2>5. k \in Clients => client[k] = "in_service"
      BY <2>1 DEF HoldInv, PlacesInv, Serves
    <2> QED
      BY <2>4, <2>5
  <1> QED
    BY <1>2, <1>3

LEMMA OrderStep == HoldInv /\ OrderInv /\ [Next]_vars => OrderInv'
  <1> SUFFICES ASSUME HoldInv, OrderInv, [Next]_vars
               PROVE  OrderInv'
    OBVIOUS
  <1>1. CASE client' = client
    BY <1>1, OrderKept
  <1>2. CASE \/ logger_process \/ UNCHANGED vars \/ TestWorker \/ LogRestart
             \/ CheckWorker \/ AllWorkersBusy
    <2>1. AllWorkersBusy => closed
      BY DEF HoldInv, HandInv, AllWorkersBusy
    <2> QED
      BY <1>1, <1>2, <2>1 DEF logger_process, vars, TestWorker, LogRestart, CheckWorker,
          AllWorkersBusy
  <1>3. CASE SendSocket \/ SocketpairFails \/ ForkFails \/ RestartWorker
    <2>1. /\ main_pc \in {"send", "restart"}
          /\ \E what \in {"sent", "undelivered", "dropped", "stranded"} : Become({in_hand}, what)
      BY <1>3 DEF SendSocket, SocketpairFails, ForkFails, RestartWorker, Forked, RestartDone
    <2>2. {"sent", "undelivered", "dropped", "stranded"}
             \subseteq Statuses \ {"away", "backlog", "accepted"}
      BY DEF Statuses
    <2> QED
      BY <2>1, <2>2, HandOrder
  <1>4. ASSUME DropsTogether
        PROVE  OrderInv'
    <2>1. main_pc' = "dead" => \A c \in Clients : client'[c] # "accepted"
      BY HoldStep DEF HoldInv, HandInv, PlacesInv, InHand
    <2> QED
      BY <1>4, <2>1, DropsOrder
  <1>5. ASSUME NEW w \in Workers, Receive(w) \/ LogAndClose(w)
        PROVE  OrderInv'
    <2>1. \A c \in Clients :
             \/ client'[c] = client[c]
             \/ /\ client[c] \notin {"away", "backlog"}
                /\ client'[c] \notin {"away", "backlog", "accepted"}
      BY <1>5, WorkerClient
    <2> QED
      BY <2>1, OrderKept
  <1>6. ASSUME NEW w \in Workers, Spin(w) \/ Serving(w)
        PROVE  OrderInv'
    BY <1>1, <1>6, ServingEffect DEF Spin, HoldInv
  <1> QED
    BY <1>2, <1>3, <1>4, <1>5, <1>6, NextSplit, ConnectOrder, AcceptOrder,
       MainDiesTogether, DieTogether

-----------------------------------------------------------------------------
(* A step that makes no fork fail and gives no connection away.            *)
LEMMA ShareKept ==
    ASSUME TypeOK, ShareInv, failures' \in Nat, failures <= failures',
           main_pc' # "dead" => main_pc # "dead" /\ round_robin' = round_robin,
           \A w \in Workers : Unforked(w)' => Unforked(w),
           Undelivered' = Undelivered,
           \A c \in Clients : ToCome(c)' => ToCome(c)
    PROVE  ShareInv'
  <1>1. failures \in Nat
    BY DEF TypeOK, FaultOK
  <1>2. (failures' = 0 => failures = 0) /\ (failures' <= 1 => failures <= 1)
    BY <1>1
  <1>3. (failures = 0 => Undelivered = {} /\ \A w \in Workers : ~Unforked(w))'
    BY <1>2 DEF ShareInv
  <1>4. ASSUME failures' <= 1
        PROVE  /\ \A w, v \in Workers : Unforked(w)' /\ Unforked(v)' => w = v
               /\ \A c, d \in Undelivered' : c < d => d - c >= MAX_WORKERS
    BY <1>2, <1>4 DEF ShareInv
  <1>5. ASSUME failures' <= 1, main_pc' # "dead", NEW w \in Workers,
               NEW c \in Undelivered', NEW d \in Clients, Unforked(w)', ToCome(d)'
        PROVE  d - c >= TurnsSince(w)'
    <2>1. d - c >= TurnsSince(w)
      BY <1>2, <1>5 DEF ShareInv
    <2>2. TurnsSince(w)' = TurnsSince(w)
      BY <1>5 DEF TurnsSince
    <2> QED
      BY <2>1, <2>2
  <1> QED
    BY <1>3, <1>4, <1>5 DEF ShareInv

(* The turn passes: whoever is still to come comes one connection later    *)
(* than the one just given away.                                           *)
LEMMA ShareBySend ==
    ASSUME HoldInv, OrderInv, ShareInv, SendSocket
    PROVE  ShareInv'
  <1>1. PICK r \in Workers : r = round_robin
    BY DEF HoldInv, TypeOK, MainOK
  <1>2. PICK h \in Clients : h = in_hand /\ client[h] = "accepted"
    <2>1. main_pc = "send"
      BY DEF SendSocket
    <2> QED
      BY <2>1, HandIsAClient
  <1>3. /\ main_pc = "send" /\ main_pc' = "check"
        /\ round_robin' = IF r = MAX_WORKERS - 1 THEN 0 ELSE r + 1
        /\ UNCHANGED <<process, failures>>
    BY <1>1, NextWorker DEF SendSocket, CloseAndAdvance, family_vars, fault_vars
  <1>4. PICK what \in {"sent", "undelivered", "dropped"} :
          /\ Become({h}, what)
          /\ what = "undelivered" => Unforked(r)
    BY <1>1, <1>2 DEF SendSocket, Unforked
  <1>5. \A c \in Clients : client'[c] = IF c = h THEN what ELSE client[c]
    <2>1. ClientOK /\ what \in Statuses
      BY DEF HoldInv, TypeOK, Statuses
    <2> QED
      BY <1>4, <2>1, BecomeEffect
  <1>6. \A w \in Workers : Unforked(w)' <=> Unforked(w)
    BY <1>3 DEF Unforked
  <1>7. /\ \A c \in Clients : c \in Undelivered' <=> c \in Undelivered \/ (c = h /\ what = "undelivered")
        /\ Undelivered \subseteq Clients
    BY <1>2, <1>4, <1>5 DEF Undelivered
  <1>8. \A d \in Clients : ToCome(d)' => ToCome(d) /\ d > h
    <2>1. \A d \in Clients : ToCome(d)' => ToCome(d) /\ d # h
      BY <1>4, <1>5 DEF ToCome
    <2>2. \A d \in Clients : d < h => client[d] \notin {"away", "backlog", "accepted"}
      BY <1>2 DEF OrderInv
    <2> QED
      BY <1>2, <2>1, <2>2, ClientTypes DEF ToCome
  <1>9. ToCome(h)
    BY <1>2 DEF ToCome
  <1>10. \A c \in Undelivered : c < h
    BY <1>2, <1>7, ClientTypes DEF OrderInv, Undelivered
  <1>11. ASSUME failures' = 0
         PROVE  Undelivered' = {} /\ \A w \in Workers : ~Unforked(w)'
    <2>1. Undelivered = {} /\ \A w \in Workers : ~Unforked(w)
      BY <1>3, <1>11 DEF ShareInv
    <2>2. Undelivered' \subseteq Clients
      BY DEF Undelivered
    <2> QED
      BY <1>4, <1>6, <1>7, <2>1, <2>2
  <1>12. ASSUME failures' <= 1
         PROVE  \A w, v \in Workers : Unforked(w)' /\ Unforked(v)' => w = v
    BY <1>3, <1>6, <1>12 DEF ShareInv
  <1>13. ASSUME failures' <= 1, NEW w \in Workers, NEW c \in Undelivered',
                NEW d \in Clients, Unforked(w)', ToCome(d)'
         PROVE  d - c >= TurnsSince(w)'
    <2>1. c \in Clients
      BY DEF Undelivered
    <2>2. MAX_WORKERS \in Nat /\ w \in Nat /\ r \in Nat /\ c \in Nat /\ d \in Nat /\ h \in Nat
          /\ w < MAX_WORKERS /\ r < MAX_WORKERS /\ d > h
      BY <1>8, <1>13, <2>1, ClientTypes, ServerAssumption DEF Workers
    <2>3. CASE c = h /\ what = "undelivered"
      <3>1. w = r
        BY <1>3, <1>4, <1>6, <1>13, <2>3 DEF ShareInv
      <3>2. TurnsSince(w)' = 1
        BY <1>3, <2>2, <3>1 DEF TurnsSince
      <3> QED
        BY <2>2, <2>3, <3>2
    <2>4. CASE c \in Undelivered
      <3>1. h - c >= TurnsSince(w)
        BY <1>3, <1>6, <1>9, <1>13, <2>4 DEF ShareInv
      <3>2. TurnsSince(w)' <= TurnsSince(w) + 1
        BY <1>1, <1>3, <2>2 DEF TurnsSince
      <3>3. TurnsSince(w) \in Int /\ TurnsSince(w)' \in Int
        BY <1>1, <1>3, <2>2 DEF TurnsSince
      <3> QED
        BY <2>2, <3>1, <3>2, <3>3
    <2> QED
      BY <1>7, <2>1, <2>3, <2>4
  <1>14. ASSUME failures' <= 1, NEW c \in Undelivered', NEW d \in Undelivered', c < d
         PROVE  d - c >= MAX_WORKERS
    <2>1. c \in Clients /\ d \in Clients
      BY DEF Undelivered
    <2>2. CASE c \in Undelivered /\ d \in Undelivered
      BY <1>3, <1>14, <2>2 DEF ShareInv
    <2>3. CASE c \in Undelivered /\ d = h /\ what = "undelivered"
      <3>1. h - c >= TurnsSince(r)
        BY <1>3, <1>4, <1>9, <1>14, <2>3 DEF ShareInv
      <3>2. TurnsSince(r) = MAX_WORKERS
        BY <1>1, ClientTypes, ServerAssumption DEF TurnsSince
      <3> QED
        BY <2>3, <3>1, <3>2
    <2>4. c # h
      <3>1. d <= h
        <4>1. d \in Nat /\ h \in Nat
          BY <1>2, <2>1, ClientTypes
        <4> QED
          BY <1>7, <1>10, <2>1, <4>1
      <3>2. c \in Nat /\ d \in Nat /\ h \in Nat
        BY <1>2, <2>1, ClientTypes
      <3> QED
        BY <1>14, <3>1, <3>2
    <2> QED
      BY <1>7, <2>1, <2>2, <2>3, <2>4
  <1> QED
    BY <1>11, <1>12, <1>13, <1>14 DEF ShareInv

LEMMA ShareByForkFailure ==
    ASSUME HoldInv, ShareInv, ForkFails
    PROVE  ShareInv'
  <1>1. /\ failures' = failures + 1 /\ failures \in Nat
        /\ process' = [process EXCEPT ![round_robin] = "unforked"]
        /\ Become({in_hand}, "dropped")
        /\ FamilyOK /\ ClientOK /\ "dropped" \in Statuses
    BY DEF ForkFails, HoldInv, TypeOK, FaultOK, Statuses
  <1>2. \A c \in Clients : client'[c] = IF c = in_hand THEN "dropped" ELSE client[c]
    BY <1>1, BecomeEffect
  <1>3. failures' # 0
    BY <1>1
  <1>4. ASSUME failures' <= 1
        PROVE  /\ Undelivered' = {}
               /\ \A w \in Workers : Unforked(w)' => w = round_robin
    <2>1. failures = 0
      BY <1>1, <1>4
    <2>2. Undelivered = {} /\ \A w \in Workers : ~Unforked(w)
      BY <2>1 DEF ShareInv
    <2>3. Undelivered' \subseteq Undelivered
      BY <1>2 DEF Undelivered
    <2>4. \A w \in Workers : w # round_robin => process'[w] = process[w]
      BY <1>1 DEF FamilyOK
    <2> QED
      BY <2>2, <2>3, <2>4 DEF Unforked
  <1> QED
    BY <1>3, <1>4 DEF ShareInv

LEMMA ShareStep == HoldInv /\ OrderInv /\ ShareInv /\ [Next]_vars => ShareInv'
  <1> SUFFICES ASSUME HoldInv, OrderInv, ShareInv, [Next]_vars
               PROVE  ShareInv'
    OBVIOUS
  <1>1. /\ TypeOK /\ ClientOK /\ FamilyOK /\ failures \in Nat
        /\ round_robin \in Workers
    BY DEF HoldInv, TypeOK, MainOK, FaultOK
  <1> DEFINE SameClients ==
               \A c \in Clients :
                  \/ client'[c] = client[c]
                  \/ client'[c] \notin {"away", "backlog", "accepted", "undelivered"}
                       /\ client[c] # "undelivered"
                  \/ ToCome(c) /\ client'[c] \in {"backlog", "accepted"}
             SameTurn ==
               main_pc' # "dead" => main_pc # "dead" /\ round_robin' = round_robin
             FewerUnforked == \A w \in Workers : Unforked(w)' => Unforked(w)
  <1>2. ASSUME SameClients
        PROVE  Undelivered' = Undelivered /\ \A c \in Clients : ToCome(c)' => ToCome(c)
    BY <1>2 DEF Undelivered, ToCome
  <1>3. ASSUME client' = client
        PROVE  SameClients
    BY <1>3
  <1>4. ASSUME process' = process
        PROVE  FewerUnforked
    BY <1>4 DEF Unforked
  <1>5. ASSUME SameClients, SameTurn, FewerUnforked, failures' \in Nat, failures <= failures'
        PROVE  ShareInv'
    BY <1>1, <1>2, <1>5, ShareKept
  <1> HIDE DEF SameClients
  <1>6. CASE logger_process \/ UNCHANGED vars \/ LogRestart
    <2>1. /\ UNCHANGED <<client, process, failures, round_robin>>
          /\ main_pc' # "dead" => main_pc # "dead"
      BY <1>6 DEF logger_process, vars, LogRestart, main_vars, family_vars, fault_vars
    <2> QED
      BY <1>1, <1>3, <1>4, <1>5, <2>1
  <1>7. ASSUME NEW c \in Clients, Connect(c) \/ Accept(c)
        PROVE  ShareInv'
    <2>1. /\ UNCHANGED <<process, failures, round_robin>>
          /\ main_pc' # "dead" => main_pc # "dead"
          /\ client[c] \in {"away", "backlog"}
          /\ \E what \in {"backlog", "accepted"} : Become({c}, what)
      BY <1>7 DEF Connect, Accept, First, main_vars, family_vars, fault_vars
    <2>2. PICK what \in {"backlog", "accepted"} : Become({c}, what)
      BY <2>1
    <2>3. what \in Statuses
      BY DEF Statuses
    <2>4. SameClients
      BY <1>1, <2>1, <2>2, <2>3, BecomeEffect DEF SameClients, ToCome
    <2> QED
      BY <1>1, <1>4, <1>5, <2>1, <2>4
  <1>8. CASE TestWorker
    <2>1. PICK is_running \in BOOLEAN : waitpid(round_robin, is_running)
      BY <1>8 DEF TestWorker
    <2>2. \A v \in Workers : process'[v] = "unforked" <=> process[v] = "unforked"
      BY <1>1, <2>1, WaitpidEffect
    <2>3. UNCHANGED <<client, failures, round_robin>> /\ main_pc # "dead"
      BY <1>8 DEF TestWorker, fault_vars
    <2> QED
      BY <1>1, <1>3, <1>5, <2>2, <2>3 DEF Unforked
  <1>9. CASE CheckWorker
    <2>1. /\ UNCHANGED <<client, failures, round_robin>> /\ main_pc # "dead"
          /\ checked < MAX_WORKERS
          /\ \E result \in BOOLEAN : waitpid(checked, result)
      BY <1>9 DEF CheckWorker, NextTurn, fault_vars
    <2>2. checked \in Workers
      BY <2>1, ServerAssumption DEF HoldInv, TypeOK, MainOK, Workers
    <2>3. \A v \in Workers : process'[v] = "unforked" <=> process[v] = "unforked"
      BY <1>1, <2>1, <2>2, WaitpidEffect
    <2> QED
      BY <1>1, <1>3, <1>5, <2>1, <2>3 DEF Unforked
  <1>10. CASE AllWorkersBusy
    <2>1. closed
      BY <1>10 DEF HoldInv, HandInv, AllWorkersBusy
    <2>2. UNCHANGED <<client, process, failures, round_robin>> /\ main_pc # "dead"
      BY <1>10, <2>1 DEF AllWorkersBusy, NextTurn, fault_vars
    <2> QED
      BY <1>1, <1>3, <1>4, <1>5, <2>2
  <1>11. CASE SocketpairFails \/ RestartWorker
    <2>1. /\ main_pc = "restart" /\ round_robin' = round_robin
          /\ failures' \in {failures, failures + 1}
          /\ process' = process \/ process' = [process EXCEPT ![round_robin] = "alive"]
          /\ \E what \in {"dropped", "stranded"} : Become({in_hand}, what)
      BY <1>11 DEF SocketpairFails, RestartWorker, Forked, RestartDone, family_vars
    <2>2. PICK what \in {"dropped", "stranded"} : Become({in_hand}, what)
      BY <2>1
    <2>3. what \in Statuses
      BY DEF Statuses
    <2>4. client[in_hand] = "accepted"
      BY <2>1, HandIsAClient
    <2>5. SameClients
      BY <1>1, <2>2, <2>3, <2>4, BecomeEffect DEF SameClients
    <2>6. FewerUnforked
      BY <1>1, <2>1 DEF Unforked, FamilyOK
    <2>7. failures' \in Nat /\ failures <= failures'
      BY <1>1, <2>1
    <2> QED
      BY <1>5, <2>1, <2>5, <2>6, <2>7
  <1>12. CASE MainDies
    <2>1. UNCHANGED <<process, failures>> /\ main_pc' = "dead"
      BY <1>12 DEF MainDies, family_vars, fault_vars
    <2>2. \A c \in Clients : \/ client'[c] = client[c]
                             \/ client'[c] = "dropped" /\ client[c] \in {"accepted", "backlog"}
      <3>1. PICK cs : /\ Become(cs, "dropped")
                      /\ cs = (IF closed THEN {} ELSE {in_hand})
                                \cup (IF ListenerElsewhere(-1) THEN {} ELSE Backlog)
        BY <1>12 DEF MainDies
      <3>2. \A c \in cs \cap Clients : client[c] \in {"accepted", "backlog"}
        BY <3>1 DEF HoldInv, PlacesInv, InHand, Backlog
      <3> QED
        BY <1>1, <3>1, <3>2, BecomeEffect DEF Statuses
    <2>3. SameClients
      BY <2>2 DEF SameClients
    <2> QED
      BY <1>1, <1>4, <1>5, <2>1, <2>3
  <1>13. ASSUME NEW w \in Workers, Receive(w) \/ LogAndClose(w)
         PROVE  ShareInv'
    <2>1. UNCHANGED <<process, failures, main_pc, round_robin>>
      BY <1>13 DEF Receive, LogAndClose, main_vars, family_vars, fault_vars
    <2>2. SameClients
      BY <1>13, WorkerClient DEF SameClients
    <2> QED
      BY <1>1, <1>4, <1>5, <2>1, <2>2
  <1>14. ASSUME NEW w \in Workers, Spin(w) \/ Serving(w)
         PROVE  ShareInv'
    <2>1. UNCHANGED <<client, process, failures, main_pc, round_robin>>
      BY <1>1, <1>14, ServingEffect DEF Spin, main_vars, family_vars, fault_vars
    <2> QED
      BY <1>1, <1>3, <1>4, <1>5, <2>1
  <1>15. ASSUME NEW w \in Workers, Die(w)
         PROVE  ShareInv'
    <2>1. /\ UNCHANGED main_vars /\ failures' = failures
          /\ \A v \in Workers : process'[v] = IF v = w THEN "zombie" ELSE process[v]
          /\ \A c \in Clients :
                \/ client'[c] = "dropped"
                     /\ (HeldAt(w, c) \/ (main_pc = "dead" /\ client[c] = "backlog"))
                \/ client'[c] = client[c] /\ ~HeldAt(w, c)
      BY <1>1, <1>15, DieEffect
    <2>2. \A c \in Clients : HeldAt(w, c) => client[c] # "undelivered"
      BY DEF HoldInv, PlacesInv, HeldAt
    <2>3. SameClients
      BY <2>1, <2>2 DEF SameClients
    <2>4. FewerUnforked /\ SameTurn
      BY <2>1 DEF Unforked, main_vars
    <2> QED
      BY <1>1, <1>5, <2>1, <2>3, <2>4
  <1> QED
    BY <1>6, <1>7, <1>8, <1>9, <1>10, <1>11, <1>12, <1>13, <1>14, <1>15, NextSplit,
       ShareBySend, ShareByForkFailure

(* A worker whose fork failed costs at most one of any MAX_WORKERS         *)
(* connections in a row.                                                   *)
THEOREM FailedForkCostsItsShare == Spec => []UndeliveredIsAShare
  <1>1. Init => OrderInv /\ ShareInv
    BY DEF Init, OrderInv, ShareInv, Undelivered, Unforked
  <1>2. ShareInv => UndeliveredIsAShare
    BY DEF ShareInv, Undelivered, UndeliveredIsAShare
  <1>3. Init => HoldInv /\ OrderInv /\ ShareInv
    BY <1>1, HoldInit
  <1>4. HoldInv /\ OrderInv /\ ShareInv /\ [Next]_vars
          => (HoldInv /\ OrderInv /\ ShareInv)'
    BY HoldStep, OrderStep, ShareStep
  <1> QED
    BY <1>2, <1>3, <1>4, PTL DEF Spec

=============================================================================
