---------------------------- MODULE ServerProofs ----------------------------
(***************************************************************************)
(* Server, for any number of servers, connections, thread ids and          *)
(* descriptors: the socket set is the set of open descriptors, the script  *)
(* gets what was read from a connection read after read, and what it       *)
(* answers is written to the connection it was meant for.                  *)
(***************************************************************************)
EXTENDS Server, FiniteSetTheorems, SequenceTheorems, TLAPS

Payloads == [event_name : {"send_data", "close_connection", "whole", "short"}, conn : Conn, tid : Tid, n : Nat]
Buffers == Seq(Conn \X Nat)
Texts == [from : Nat, to : Nat, buf : Buffers]
Events == [conn : Conn, tid : Tid, id : Nat, buf : Buffers, from : Nat, to : Nat]
Acceptors == [pc : {"new", "record", "accept", "number", "load", "spawn"},
              sockfd : Fd \cup {NoFd}, conn : Conn \cup {None}, fd : Fd \cup {NoFd}, id : Nat]
Workers == [pc : {"none", "check", "apply", "push", "pushing", "erase", "ended"},
            tid : Tid \cup {None}, fd : Fd \cup {NoFd}, id : Nat,
            message : Seq(Payloads), buf : Buffers, read : Nat, pushed : Nat]

ThreadTypes ==
  /\ process \in {"up", "ended", "torn"}
  /\ sent \in [Conn -> Nat]
  /\ acceptor \in [Listener -> Acceptors] /\ incr_id \in Nat
  /\ worker \in [Conn -> Workers]
  /\ sockets \subseteq Fd /\ socket_m \in Conn \cup {None} /\ pushing \in Conn \cup {None}

MessageTypes ==
  /\ channels \in [Tid -> Seq(Payloads)] /\ queue \in Seq(Events)
  /\ connection \in [DOMAIN connection -> [conn : Conn, tid : Tid]] /\ DOMAIN connection \subseteq Nat
  /\ todo \in Seq(Payloads)
  /\ main \in {"loop", "prompt"}
  /\ received \in [Conn -> Seq(Texts)] /\ written \in [Conn -> Seq(Payloads)]
  /\ published \in [Conn -> Nat] /\ closed \subseteq Conn /\ raised \subseteq Conn

\* What a thread has at each place of its program.
AcceptorPlaced(l) ==
  /\ acceptor[l].pc = "new" <=> acceptor[l].sockfd = NoFd
  /\ acceptor[l].conn = None <=> acceptor[l].fd = NoFd
  /\ acceptor[l].pc \in {"number", "load", "spawn"} => acceptor[l].conn # None
  /\ acceptor[l].pc \in {"new", "accept"} => acceptor[l].conn = None
  /\ acceptor[l].conn # None => /\ worker[acceptor[l].conn].pc = "none"
                                /\ \A k \in Listener \ {l} : acceptor[k].conn # acceptor[l].conn
WorkerPlaced(c) ==
  /\ worker[c].pc # "none" => worker[c].tid \in Tid /\ worker[c].fd \in Fd
  /\ worker[c].pc = "none" => worker[c].read = 0
  /\ worker[c].pc # "apply" => worker[c].message = <<>>
  /\ worker[c].pc \notin {"push", "pushing"} <=> worker[c].pushed = worker[c].read
  /\ worker[c].pushed <= worker[c].read /\ worker[c].read <= sent[c]
TidsDiffer == \A c, d \in Running : c # d => worker[c].tid # worker[d].tid

PlacesInv == /\ \A l \in Listener : AcceptorPlaced(l)
             /\ \A c \in Conn : WorkerPlaced(c)
             /\ TidsDiffer

-----------------------------------------------------------------------------
(* Types.                                                                    *)

LEMMA NoneIsNoConn == None \notin Conn /\ None \notin Tid /\ NoFd \notin Fd
BY ServerConstants DEF None, NoFd

LEMMA InitTypes == Init => ThreadTypes /\ MessageTypes /\ PlacesInv
<1> SUFFICES ASSUME Init PROVE ThreadTypes /\ MessageTypes /\ PlacesInv
  OBVIOUS
<1>1. ThreadTypes /\ MessageTypes
  BY DEF Init, ThreadTypes, MessageTypes, Workers, Acceptors, Buffers
<1>2. PlacesInv
  BY NoneIsNoConn DEF Init, PlacesInv, AcceptorPlaced, WorkerPlaced, TidsDiffer, Running, NoFd, None
<1>3. QED
  BY <1>1, <1>2

LEMMA PeerTypes == ASSUME ThreadTypes, PlacesInv, NEW c \in Conn, Peer(c) PROVE ThreadTypes' /\ PlacesInv'
<1>1. sent' \in [Conn -> Nat] /\ \A d \in Conn : sent[d] <= sent'[d]
  <2>1. sent \in [Conn -> Nat]
    BY DEF ThreadTypes
  <2>2. sent' = sent \/ sent' = [sent EXCEPT ![c] = @ + 1]
    BY DEF Peer
  <2>3. QED
    BY <2>1, <2>2
<1>2. UNCHANGED <<process, acceptor, incr_id, worker, sockets, socket_m, pushing>>
  BY DEF Peer, accepting, resource, crossing
<1>3. ThreadTypes'
  BY <1>1, <1>2 DEF ThreadTypes
<1>4. \A d \in Conn : worker[d].read \in Nat
  BY DEF ThreadTypes, Workers
<1>5. PlacesInv'
  BY <1>1, <1>2, <1>4 DEF ThreadTypes, PlacesInv, AcceptorPlaced, WorkerPlaced, TidsDiffer, Running
<1>6. QED
  BY <1>3, <1>5

LEMMA Becoming ==
  ASSUME ThreadTypes, NEW l \in Listener, NEW a \in Acceptors, Become(l, a)
  PROVE  /\ acceptor' \in [Listener -> Acceptors] /\ acceptor'[l] = a
         /\ \A k \in Listener \ {l} : acceptor'[k] = acceptor[k]
BY DEF ThreadTypes, Become

LEMMA Turning ==
  ASSUME ThreadTypes, NEW c \in Conn, NEW w \in Workers, Turn(c, w)
  PROVE  /\ worker' \in [Conn -> Workers] /\ worker'[c] = w
         /\ \A d \in Conn \ {c} : worker'[d] = worker[d]
BY DEF ThreadTypes, Turn

\* What the steps of an accepting thread, other than Spawn, make of its record.
Accepting(l) == \/ CreateSocket(l) \/ RecordSocket(l) \/ IncrId(l) \/ LoadId(l)
                \/ \E c \in Conn : Accept(l, c)
ListenStep(l, a) ==
  \/ /\ CreateSocket(l) /\ acceptor[l].pc = "new"
     /\ \E d \in Fd : Lowest(d) /\ a = [acceptor[l] EXCEPT !.pc = "record", !.sockfd = d]
  \/ /\ acceptor[l].pc = "accept"
     /\ \E c \in Conn, d \in Fd :
          /\ Lowest(d) /\ Accept(l, c)
          /\ a = [acceptor[l] EXCEPT !.pc = "record", !.conn = c, !.fd = d]
  \/ /\ RecordSocket(l) /\ acceptor[l].pc = "record"
     /\ a = [acceptor[l] EXCEPT !.pc = IF acceptor[l].conn = None THEN "accept" ELSE "number"]
  \/ IncrId(l) /\ acceptor[l].pc = "number" /\ a = [acceptor[l] EXCEPT !.pc = "load"]
  \/ LoadId(l) /\ acceptor[l].pc = "load" /\ a = [acceptor[l] EXCEPT !.pc = "spawn", !.id = incr_id]

LEMMA ListenSteps ==
  ASSUME ThreadTypes, PlacesInv, NEW l \in Listener, Accepting(l)
  PROVE  \E a \in Acceptors : Become(l, a) /\ ListenStep(l, a)
<1> USE DEF ListenStep
<1>1. acceptor[l] \in Acceptors /\ incr_id \in Nat
  BY DEF ThreadTypes
<1>2. CASE CreateSocket(l)
  <2>1. PICK d \in Fd : Lowest(d) /\ Become(l, [acceptor[l] EXCEPT !.pc = "record", !.sockfd = d])
    BY <1>2 DEF CreateSocket
  <2>2. [acceptor[l] EXCEPT !.pc = "record", !.sockfd = d] \in Acceptors
    BY <1>1 DEF Acceptors
  <2>3. QED
    BY <1>2, <2>1, <2>2 DEF CreateSocket, At
<1>3. CASE \E c \in Conn : Accept(l, c)
  <2>1. PICK c \in Conn : Accept(l, c)
    BY <1>3
  <2>2. PICK d \in Fd : Lowest(d) /\ Become(l, [acceptor[l] EXCEPT !.pc = "record", !.conn = c, !.fd = d])
    BY <2>1 DEF Accept
  <2>3. [acceptor[l] EXCEPT !.pc = "record", !.conn = c, !.fd = d] \in Acceptors
    BY <1>1 DEF Acceptors
  <2>4. QED
    BY <2>1, <2>2, <2>3 DEF Accept, At
<1>4. CASE RecordSocket(l)
  <2>1. [acceptor[l] EXCEPT !.pc = IF acceptor[l].conn = None THEN "accept" ELSE "number"] \in Acceptors
    BY <1>1 DEF Acceptors
  <2>2. QED
    BY <1>4, <2>1 DEF RecordSocket, At
<1>5. CASE IncrId(l)
  <2>1. [acceptor[l] EXCEPT !.pc = "load"] \in Acceptors
    BY <1>1 DEF Acceptors
  <2>2. QED
    BY <1>5, <2>1 DEF IncrId, At
<1>6. CASE LoadId(l)
  <2>1. [acceptor[l] EXCEPT !.pc = "spawn", !.id = incr_id] \in Acceptors
    BY <1>1 DEF Acceptors
  <2>2. QED
    BY <1>6, <2>1 DEF LoadId, At
<1>7. QED
  BY <1>2, <1>3, <1>4, <1>5, <1>6 DEF Accepting

LEMMA AcceptingTypes ==
  ASSUME ThreadTypes, MessageTypes, PlacesInv, NEW l \in Listener, Accepting(l)
  PROVE  ThreadTypes' /\ MessageTypes' /\ PlacesInv'
<1>1. PICK a \in Acceptors : Become(l, a) /\ ListenStep(l, a)
  BY ListenSteps
<1>2. /\ acceptor' \in [Listener -> Acceptors] /\ acceptor'[l] = a
      /\ \A k \in Listener \ {l} : acceptor'[k] = acceptor[k]
  BY <1>1, Becoming
<1>3. /\ UNCHANGED <<process, sent, worker, pushing, socket_m>>
      /\ UNCHANGED <<channels, queue, main, connection, todo, received, written, published, closed, raised>>
  BY <1>1 DEF ListenStep, CreateSocket, RecordSocket, IncrId, LoadId, Accept, OnlyAccepting,
              resource, peers, crossing, script
<1>4. ThreadTypes'
  <2>1. incr_id' \in Nat
    <3>1. incr_id \in Nat
      BY DEF ThreadTypes
    <3>2. incr_id' \in {incr_id, incr_id + 1}
      BY <1>1 DEF ListenStep, CreateSocket, RecordSocket, IncrId, LoadId, Accept
    <3>3. QED
      BY <3>1, <3>2
  <2>2. sockets' \subseteq Fd
    <3>1. {acceptor[l].sockfd, acceptor[l].fd} \ {NoFd} \subseteq Fd
      BY DEF ThreadTypes, Acceptors
    <3>2. QED
      BY <1>1, <3>1 DEF ListenStep, CreateSocket, RecordSocket, IncrId, LoadId, Accept, ThreadTypes, resource
  <2>3. QED
    BY <1>2, <1>3, <2>1, <2>2 DEF ThreadTypes
<1>5. MessageTypes'
  BY <1>3 DEF MessageTypes
<1>6. PlacesInv'
  <2>1. acceptor[l] \in Acceptors
    BY DEF ThreadTypes
  <2> DEFINE Placed(r) == /\ r.pc = "new" <=> r.sockfd = NoFd
                          /\ r.conn = None <=> r.fd = NoFd
                          /\ r.pc \in {"number", "load", "spawn"} => r.conn # None
                          /\ r.pc \in {"new", "accept"} => r.conn = None
                          /\ r.conn # None => /\ worker[r.conn].pc = "none"
                                              /\ \A k \in Listener \ {l} : acceptor[k].conn # r.conn
  <2>0. Placed(acceptor[l])
    BY DEF PlacesInv, AcceptorPlaced, WorkerPlaced, TidsDiffer
  <2>2. ASSUME acceptor[l].pc = "accept" PROVE Placed(a)
    <3>1. PICK c \in Conn, d \in Fd :
            Accept(l, c) /\ a = [acceptor[l] EXCEPT !.pc = "record", !.conn = c, !.fd = d]
      BY <1>1, <2>2 DEF ListenStep
    <3>2. worker[c].pc = "none" /\ \A k \in Listener : acceptor[k].conn # c
      BY <3>1 DEF Accept
    <3>3. QED
      BY <2>0, <2>1, <2>2, <3>1, <3>2, NoneIsNoConn DEF Acceptors
  <2>3. ASSUME acceptor[l].pc = "new" PROVE Placed(a)
    <3>1. PICK d \in Fd : a = [acceptor[l] EXCEPT !.pc = "record", !.sockfd = d]
      BY <1>1, <2>3 DEF ListenStep
    <3>2. QED
      BY <2>0, <2>1, <2>3, <3>1, NoneIsNoConn DEF Acceptors
  <2>4. ASSUME acceptor[l].pc \in {"record", "number", "load"} PROVE Placed(a)
    <3>1. \/ acceptor[l].pc = "record" /\ a = [acceptor[l] EXCEPT !.pc = IF acceptor[l].conn = None THEN "accept" ELSE "number"]
          \/ acceptor[l].pc = "number" /\ a = [acceptor[l] EXCEPT !.pc = "load"]
          \/ acceptor[l].pc = "load" /\ a = [acceptor[l] EXCEPT !.pc = "spawn", !.id = incr_id]
      BY <1>1, <2>4 DEF ListenStep
    <3>2. QED
      BY <2>0, <2>1, <3>1 DEF Acceptors
  <2>5. Placed(a)
    BY <1>1, <2>2, <2>3, <2>4 DEF ListenStep
  <2>6. QED
    BY <1>2, <1>3, <2>5, NoneIsNoConn DEF PlacesInv, AcceptorPlaced, WorkerPlaced, TidsDiffer, Running
<1>7. QED
  BY <1>4, <1>5, <1>6

\* The thread that is made: of the connection that was accepted, with an id of its own.
SpawnStep(l, c, t, w) ==
  /\ acceptor[l].pc = "spawn" /\ acceptor[l].conn = c /\ worker[c].pc = "none"
  /\ \A d \in Running : worker[d].tid # t
  /\ w = [worker[c] EXCEPT !.pc = "check", !.tid = t, !.fd = acceptor[l].fd, !.id = acceptor[l].id]

LEMMA SpawnSteps ==
  ASSUME ThreadTypes, PlacesInv, NEW l \in Listener, Spawn(l)
  PROVE  \E c \in Conn, t \in Tid, w \in Workers :
           /\ SpawnStep(l, c, t, w) /\ Turn(c, w) /\ acceptor[l].fd \in Fd
           /\ Become(l, [acceptor[l] EXCEPT !.pc = "accept", !.conn = None, !.fd = NoFd])
<1> DEFINE c == acceptor[l].conn
<1>1. acceptor[l] \in Acceptors /\ acceptor[l].pc = "spawn"
  BY DEF ThreadTypes, Spawn, At
<1>2. c # None /\ acceptor[l].fd # NoFd /\ worker[c].pc = "none"
  BY <1>1 DEF PlacesInv, AcceptorPlaced, WorkerPlaced, TidsDiffer
<1>3. c \in Conn /\ acceptor[l].fd \in Fd
  BY <1>1, <1>2 DEF Acceptors
<1>4. PICK t \in Tid \ {worker[d].tid : d \in Running} :
        worker' = [worker EXCEPT ![c] = [@ EXCEPT !.pc = "check", !.tid = t, !.fd = acceptor[l].fd,
                                                    !.id = acceptor[l].id]]
  BY DEF Spawn
<1>5. worker \in [Conn -> Workers]
  BY DEF ThreadTypes
<1> DEFINE w == [worker[c] EXCEPT !.pc = "check", !.tid = t, !.fd = acceptor[l].fd, !.id = acceptor[l].id]
<1>6. w \in Workers
  <2>1. worker[c] \in Workers /\ acceptor[l].id \in Nat /\ acceptor[l].fd \in Fd
    BY <1>1, <1>3, <1>5 DEF Acceptors
  <2>2. QED
    BY <2>1 DEF Workers
<1>7. Turn(c, w)
  BY <1>3, <1>4, <1>5 DEF Turn
<1>8. SpawnStep(l, c, t, w)
  BY <1>1, <1>2, <1>4 DEF SpawnStep
<1>9. QED
  BY <1>3, <1>4, <1>6, <1>7, <1>8 DEF Spawn

LEMMA SpawnTypes ==
  ASSUME ThreadTypes, MessageTypes, PlacesInv, NEW l \in Listener, Spawn(l)
  PROVE  ThreadTypes' /\ MessageTypes' /\ PlacesInv'
<1> DEFINE a == [acceptor[l] EXCEPT !.pc = "accept", !.conn = None, !.fd = NoFd]
<1>1. PICK c \in Conn, t \in Tid, w \in Workers :
        SpawnStep(l, c, t, w) /\ Turn(c, w) /\ acceptor[l].fd \in Fd /\ Become(l, a)
  BY SpawnSteps
<1>2. acceptor[l] \in Acceptors /\ a \in Acceptors /\ worker[c] \in Workers
  BY DEF ThreadTypes, Acceptors
<1>3. /\ acceptor' \in [Listener -> Acceptors] /\ acceptor'[l] = a
      /\ \A k \in Listener \ {l} : acceptor'[k] = acceptor[k]
  BY <1>1, <1>2, Becoming
<1>4. /\ worker' \in [Conn -> Workers] /\ worker'[c] = w
      /\ \A d \in Conn \ {c} : worker'[d] = worker[d]
  BY <1>1, Turning
<1>5. /\ UNCHANGED <<process, sent, incr_id, sockets, socket_m, pushing>>
      /\ UNCHANGED <<channels, queue, main, connection, todo, received, written, published, closed, raised>>
  BY DEF Spawn, OnlyAccepting, resource, peers, crossing, script
<1>6. ThreadTypes'
  BY <1>3, <1>4, <1>5 DEF ThreadTypes
<1>7. MessageTypes'
  BY <1>5 DEF MessageTypes
<1>8. /\ w.pc = "check" /\ w.tid = t /\ w.fd \in Fd /\ w.read = worker[c].read
      /\ w.message = worker[c].message /\ w.pushed = worker[c].pushed
      /\ a.pc = "accept" /\ a.sockfd = acceptor[l].sockfd /\ a.conn = None /\ a.fd = NoFd
      /\ \A d \in Running : worker[d].tid # t
      /\ worker[c].pc = "none" /\ acceptor[l].conn = c /\ acceptor[l].pc = "spawn"
  BY <1>1, <1>2 DEF SpawnStep, Workers, Acceptors
<1>9. PlacesInv'
  <2>1. ASSUME NEW k \in Listener PROVE AcceptorPlaced(k)'
    <3>1. CASE k = l
      <4>1. AcceptorPlaced(l) /\ acceptor'[l] = a
        BY <1>3 DEF PlacesInv
      <4>2. QED
        BY <1>8, <3>1, <4>1 DEF AcceptorPlaced
    <3>2. CASE k # l
      <4>1. AcceptorPlaced(k) /\ AcceptorPlaced(l)
        BY DEF PlacesInv
      <4>2. acceptor'[k] = acceptor[k] /\ acceptor[k].conn # c
        BY <1>3, <1>8, <3>2, <4>1, NoneIsNoConn DEF AcceptorPlaced
      <4>3. acceptor[k].conn # None => worker'[acceptor[k].conn] = worker[acceptor[k].conn]
        <5>1. acceptor[k].conn \in Conn \cup {None}
          BY DEF ThreadTypes, Acceptors
        <5>2. QED
          BY <1>4, <4>2, <5>1
      <4>4. \A m \in Listener \ {k} : acceptor'[m].conn = acceptor[m].conn \/ acceptor'[m].conn = None
        <5>1. acceptor'[l].conn = None /\ \A m \in Listener \ {l} : acceptor'[m] = acceptor[m]
          BY <1>3, <1>8
        <5>2. QED
          BY <5>1
      <4>5. QED
        BY <4>1, <4>2, <4>3, <4>4 DEF AcceptorPlaced
    <3>3. QED
      BY <3>1, <3>2
  <2>2. ASSUME NEW d \in Conn PROVE WorkerPlaced(d)'
    BY <1>4, <1>5, <1>8 DEF PlacesInv, WorkerPlaced
  <2>3. TidsDiffer'
    BY <1>4, <1>8 DEF PlacesInv, TidsDiffer, Running
  <2>4. QED
    BY <2>1, <2>2, <2>3 DEF PlacesInv
<1>10. QED
  BY <1>6, <1>7, <1>9

\* What the steps of a connection's thread make of its record.
ThreadStep(c, w) ==
  \/ /\ ReceiveChannelPayload(c) /\ worker[c].pc = "check"
     /\ w = [worker[c] EXCEPT !.pc = "apply", !.message = channels[worker[c].tid]]
  \/ /\ SendData(c) /\ worker[c].pc = "apply" /\ worker[c].message # <<>>
     /\ w = [worker[c] EXCEPT !.message = Tail(@)]
  \/ /\ CloseConnection(c) /\ worker[c].pc = "apply" /\ worker[c].message # <<>>
     /\ w = [worker[c] EXCEPT !.pc = "erase", !.message = <<>>]
  \/ EraseSocket(c) /\ worker[c].pc = "erase" /\ w = [worker[c] EXCEPT !.pc = "ended"]
  \/ /\ Read(c) /\ worker[c].pc = "apply" /\ worker[c].message = <<>>
     /\ \/ w = [worker[c] EXCEPT !.pc = "check"]
        \/ /\ worker[c].read # sent[c]
           /\ w = [worker[c] EXCEPT !.pc = "push", !.read = sent[c], !.buf = Kept(c, worker[c].read, sent[c])]
  \/ BeginPush(c) /\ worker[c].pc = "push" /\ w = [worker[c] EXCEPT !.pc = "pushing"]
  \/ /\ EndPush(c) /\ worker[c].pc = "pushing"
     /\ w = [worker[c] EXCEPT !.pc = "check", !.buf = <<>>, !.pushed = worker[c].read]

\* A set of natural numbers that is not empty has a least element.
LEMMA LeastOf ==
    ASSUME NEW T \in SUBSET Nat, T # {}
    PROVE  \E m \in T : \A k \in T : m <= k
<1>1. PICK m \in T : \A k \in T : ~ (<<k, m>> \in OpToRel(<, Nat))
  BY NatLessThanWellFounded, WFMin
<1>2. ASSUME NEW k \in T
      PROVE  m <= k
  <2>1. ~ (<<k, m>> \in {x \in Nat \X Nat : x[1] < x[2]})
    BY <1>1 DEF OpToRel
  <2>2. QED
    BY <2>1
<1>3. QED
  BY <1>2

\* What is kept of a read is what came before its first NUL, or all of it.
LEMMA KeptBytes ==
  ASSUME NEW c \in Conn, NEW a \in Nat, NEW b \in Nat, a <= b
  PROVE  \E k \in a..b : Kept(c, a, b) = Bytes(c, a, k) /\ (k = b \/ k + 1 \in Nul)
<1> DEFINE ends == {n - 1 : n \in Nul \cap (a + 1..b)} \cup {b}
<1>1. ends \subseteq a..b /\ ends # {}
  OBVIOUS
<1>2. \A x \in ends : x = b \/ x + 1 \in Nul
  BY ServerConstants
<1> HIDE DEF ends
<1>3. PICK m \in ends : \A x \in ends : m <= x
  <2>1. ends \in SUBSET Nat
    BY <1>1
  <2>2. QED
    BY <1>1, <2>1, LeastOf
<1>4. Min(ends) \in ends
  BY <1>3 DEF Min
<1>5. Kept(c, a, b) = Bytes(c, a, Min(ends))
  BY DEF Kept, ends
<1>6. QED
  BY <1>1, <1>2, <1>4, <1>5

LEMMA KeptType == ASSUME NEW c \in Conn, NEW a \in Nat, NEW b \in Nat, a <= b PROVE Kept(c, a, b) \in Buffers
<1>1. PICK k \in a..b : Kept(c, a, b) = Bytes(c, a, k)
  BY KeptBytes
<1>2. Bytes(c, a, k) \in Buffers
  BY DEF Bytes, Buffers
<1>3. QED
  BY <1>1, <1>2

LEMMA ThreadSteps ==
  ASSUME ThreadTypes, MessageTypes, PlacesInv, NEW c \in Conn, Thread(c)
  PROVE  \/ \E w \in Workers : Turn(c, w) /\ ThreadStep(c, w) /\ UNCHANGED process
         \/ process' = "ended" /\ UNCHANGED <<worker, written, resource>> /\ (SendData(c) \/ Read(c))
<1> USE DEF ThreadStep, Pc
<1>1. worker[c] \in Workers /\ sent[c] \in Nat
  BY DEF ThreadTypes
<1>2. CASE ReceiveChannelPayload(c)
  <2>1. worker[c].tid \in Tid
    BY <1>2 DEF ReceiveChannelPayload, PlacesInv, WorkerPlaced
  <2>2. channels[worker[c].tid] \in Seq(Payloads)
    BY <2>1 DEF MessageTypes
  <2>3. [worker[c] EXCEPT !.pc = "apply", !.message = channels[worker[c].tid]] \in Workers
    BY <1>1, <2>2 DEF Workers
  <2>4. QED
    BY <1>2, <2>3 DEF ReceiveChannelPayload
<1>3. CASE SendData(c)
  <2>1. worker[c].message \in Seq(Payloads) /\ worker[c].message # <<>>
    BY <1>1, <1>3 DEF SendData, NoMore, Workers
  <2>2. Tail(worker[c].message) \in Seq(Payloads)
    BY <2>1
  <2>3. [worker[c] EXCEPT !.message = Tail(@)] \in Workers
    BY <1>1, <2>2 DEF Workers
  <2>4. QED
    BY <1>1, <1>3, <2>1, <2>3 DEF SendData
<1>4. CASE CloseConnection(c)
  <2>1. [worker[c] EXCEPT !.pc = "erase", !.message = <<>>] \in Workers
    <3>1. <<>> \in Seq(Payloads)
      OBVIOUS
    <3>2. QED
      BY <1>1, <3>1 DEF Workers
  <2>2. QED
    BY <1>4, <2>1 DEF CloseConnection, NoMore
<1>5. CASE EraseSocket(c)
  <2>1. [worker[c] EXCEPT !.pc = "ended"] \in Workers
    BY <1>1 DEF Workers
  <2>2. QED
    BY <1>5, <2>1 DEF EraseSocket
<1>6. CASE Read(c)
  <2>1. Kept(c, worker[c].read, sent[c]) \in Buffers
    <3>1. worker[c].read \in Nat /\ worker[c].read <= sent[c]
      BY <1>1 DEF Workers, PlacesInv, WorkerPlaced
    <3>2. QED
      BY <1>1, <3>1, KeptType
  <2>2. /\ [worker[c] EXCEPT !.pc = "check"] \in Workers
        /\ [worker[c] EXCEPT !.pc = "push", !.read = sent[c], !.buf = Kept(c, worker[c].read, sent[c])] \in Workers
    BY <1>1, <2>1 DEF Workers
  <2>3. QED
    BY <1>6, <2>2 DEF Read, NoMore, resource
<1>7. CASE BeginPush(c)
  <2>1. [worker[c] EXCEPT !.pc = "pushing"] \in Workers
    BY <1>1 DEF Workers
  <2>2. QED
    BY <1>7, <2>1 DEF BeginPush
<1>8. CASE EndPush(c)
  <2>1. [worker[c] EXCEPT !.pc = "check", !.buf = <<>>, !.pushed = worker[c].read] \in Workers
    <3>1. <<>> \in Buffers
      BY DEF Buffers
    <3>2. QED
      BY <1>1, <3>1 DEF Workers
  <2>2. QED
    BY <1>8, <2>1 DEF EndPush
<1>9. QED
  BY <1>2, <1>3, <1>4, <1>5, <1>6, <1>7, <1>8 DEF Thread

\* What the places of a thread's record are after a step of it.
LEMMA ThreadPlaced ==
  ASSUME ThreadTypes, MessageTypes, PlacesInv, NEW c \in Conn, NEW w \in Workers, ThreadStep(c, w)
  PROVE  /\ w.tid = worker[c].tid /\ w.fd = worker[c].fd /\ w.id = worker[c].id
         /\ worker[c].pc # "none" /\ w.pc # "none" /\ (w.pc = "ended" <=> worker[c].pc = "erase")
         /\ worker[c].pc # "ended"
         /\ w.pc # "apply" => w.message = <<>>
         /\ w.pc \notin {"push", "pushing"} <=> w.pushed = w.read
         /\ w.pushed <= w.read /\ w.read <= sent[c] /\ worker[c].read <= w.read
<1>1. worker[c] \in Workers /\ sent[c] \in Nat
  BY DEF ThreadTypes
<1>2. WorkerPlaced(c)
  BY DEF PlacesInv
<1>3. worker[c].read \in Nat /\ w.read \in Nat /\ worker[c].pushed \in Nat
  BY <1>1 DEF Workers
<1> DEFINE Same == w.tid = worker[c].tid /\ w.fd = worker[c].fd /\ w.id = worker[c].id
<1>4. CASE worker[c].pc = "check"
  <2>1. Same /\ w.pc = "apply" /\ w.pushed = worker[c].pushed /\ w.read = worker[c].read
    BY <1>1, <1>4 DEF ThreadStep, Workers
  <2>2. QED
    BY <1>2, <1>3, <1>4, <2>1 DEF WorkerPlaced
<1>5. CASE worker[c].pc = "apply" /\ worker[c].message # <<>>
  <2>1. /\ Same /\ w.pushed = worker[c].pushed /\ w.read = worker[c].read
        /\ w.pc = "apply" \/ (w.pc = "erase" /\ w.message = <<>>)
    BY <1>1, <1>5 DEF ThreadStep, Workers
  <2>2. QED
    BY <1>2, <1>3, <1>5, <2>1 DEF WorkerPlaced
<1>6. CASE worker[c].pc = "apply" /\ worker[c].message = <<>>
  <2>1. /\ Same /\ w.message = worker[c].message
        /\ w.pushed = worker[c].pushed
        /\ \/ w.pc = "check" /\ w.read = worker[c].read
           \/ w.pc = "push" /\ w.read = sent[c] /\ worker[c].read # sent[c]
    BY <1>1, <1>6 DEF ThreadStep, Workers
  <2>2. QED
    BY <1>1, <1>2, <1>3, <1>6, <2>1 DEF WorkerPlaced
<1>7. CASE worker[c].pc \in {"erase", "push", "pushing"}
  <2>1. /\ Same /\ w.message = worker[c].message /\ w.read = worker[c].read
        /\ \/ worker[c].pc = "erase" /\ w.pc = "ended" /\ w.pushed = worker[c].pushed
           \/ worker[c].pc = "push" /\ w.pc = "pushing" /\ w.pushed = worker[c].pushed
           \/ worker[c].pc = "pushing" /\ w.pc = "check" /\ w.pushed = worker[c].read
    BY <1>1, <1>7 DEF ThreadStep, Workers
  <2>2. QED
    BY <1>2, <1>3, <1>7, <2>1 DEF WorkerPlaced
<1>8. QED
  BY <1>4, <1>5, <1>6, <1>7 DEF ThreadStep

LEMMA ThreadStepTypes ==
  ASSUME ThreadTypes, MessageTypes, PlacesInv, NEW c \in Conn, Thread(c)
  PROVE  ThreadTypes' /\ PlacesInv'
<1>1. CASE \E w \in Workers : Turn(c, w) /\ ThreadStep(c, w) /\ UNCHANGED process
  <2>1. PICK w \in Workers : Turn(c, w) /\ ThreadStep(c, w) /\ UNCHANGED process
    BY <1>1
  <2>2. /\ worker' \in [Conn -> Workers] /\ worker'[c] = w
        /\ \A d \in Conn \ {c} : worker'[d] = worker[d]
    BY <2>1, Turning
  <2>3. UNCHANGED <<sent, acceptor, incr_id>>
    BY <2>1 DEF ThreadStep, ReceiveChannelPayload, SendData, CloseConnection, EraseSocket, Read, BeginPush, EndPush,
                peers, accepting
  <2>4. ThreadTypes'
    <3>1. sockets' \subseteq Fd /\ socket_m' \in Conn \cup {None} /\ pushing' \in Conn \cup {None}
      BY <2>1 DEF ThreadTypes, ThreadStep, ReceiveChannelPayload, SendData, CloseConnection, EraseSocket, Read,
                  BeginPush, EndPush, resource, crossing
    <3>2. QED
      BY <2>1, <2>2, <2>3, <3>1 DEF ThreadTypes
  <2>5. \A k \in Listener : AcceptorPlaced(k)'
    <3>1. \A k \in Listener : AcceptorPlaced(k)
      BY DEF PlacesInv
    <3>2. worker[c].pc # "none"
      BY <2>1, ThreadPlaced
    <3>3. \A k \in Listener : acceptor[k].conn \in Conn \cup {None}
      BY DEF ThreadTypes, Acceptors
    <3>4. QED
      BY <2>2, <2>3, <3>1, <3>2, <3>3 DEF AcceptorPlaced
  <2>6. \A d \in Conn : WorkerPlaced(d)'
    <3>1. \A d \in Conn : WorkerPlaced(d)
      BY DEF PlacesInv
    <3>2. WorkerPlaced(c)'
      BY <2>1, <2>2, <2>3, <3>1, ThreadPlaced DEF WorkerPlaced
    <3>3. \A d \in Conn \ {c} : WorkerPlaced(d)'
      BY <2>2, <2>3, <3>1 DEF WorkerPlaced
    <3>4. QED
      BY <3>2, <3>3
  <2>7. TidsDiffer'
    BY <2>1, <2>2, ThreadPlaced DEF PlacesInv, TidsDiffer, Running
  <2>8. QED
    BY <2>4, <2>5, <2>6, <2>7 DEF PlacesInv
<1>2. CASE process' = "ended" /\ UNCHANGED <<worker, written, resource>> /\ (SendData(c) \/ Read(c))
  <2>1. UNCHANGED <<sent, acceptor, incr_id, worker, sockets, socket_m, pushing>>
    BY <1>2 DEF SendData, Read, peers, accepting, resource, crossing
  <2>2. QED
    BY <1>2, <2>1 DEF ThreadTypes, PlacesInv, AcceptorPlaced, WorkerPlaced, TidsDiffer, Running
<1>3. QED
  BY <1>1, <1>2, ThreadSteps

\* The event that a thread that is pushing pushes.
EventOf(c) == [conn |-> c, tid |-> worker[c].tid, id |-> worker[c].id, buf |-> worker[c].buf,
               from |-> worker[c].pushed, to |-> worker[c].read]
\* The payload that a thread has given to write.
Written(c, fate) == [Message(c) EXCEPT !.event_name = fate]

LEMMA ThreadStepMessages ==
  ASSUME ThreadTypes, MessageTypes, PlacesInv, NEW c \in Conn, Thread(c)
  PROVE  MessageTypes'
<1> USE DEF Pc
<1>0. worker[c] \in Workers /\ WorkerPlaced(c)
  BY DEF ThreadTypes, PlacesInv
<1>1. CASE ReceiveChannelPayload(c)
  <2>1. channels' \in [Tid -> Seq(Payloads)]
    <3>1. channels \in [Tid -> Seq(Payloads)] /\ <<>> \in Seq(Payloads)
      BY DEF MessageTypes
    <3>2. channels' = [channels EXCEPT ![worker[c].tid] = <<>>]
      BY <1>1 DEF ReceiveChannelPayload
    <3>3. QED
      BY <3>1, <3>2
  <2>2. QED
    BY <1>1, <2>1 DEF ReceiveChannelPayload, MessageTypes, crossing, script
<1>2. CASE SendData(c)
  <2>1. Message(c) \in Payloads
    BY <1>0, <1>2 DEF SendData, Message, NoMore, Workers
  <2>2. written' \in [Conn -> Seq(Payloads)]
    <3>1. \/ written' = written
          \/ \E fate \in {"whole", "short"} : written' = [written EXCEPT ![c] = Append(@, Written(c, fate))]
      BY <1>2 DEF SendData, Written
    <3>2. \A fate \in {"whole", "short"} : Written(c, fate) \in Payloads
      BY <2>1 DEF Written, Payloads
    <3>3. written \in [Conn -> Seq(Payloads)] /\ written[c] \in Seq(Payloads)
      BY DEF MessageTypes
    <3>4. ASSUME NEW fate \in {"whole", "short"}, written' = [written EXCEPT ![c] = Append(@, Written(c, fate))]
          PROVE  written' \in [Conn -> Seq(Payloads)]
      <4>1. Append(written[c], Written(c, fate)) \in Seq(Payloads)
        BY <3>2, <3>3
      <4>2. QED
        BY <3>3, <3>4, <4>1
    <3>5. QED
      BY <3>1, <3>3, <3>4
  <2>3. QED
    BY <1>2, <2>2 DEF SendData, MessageTypes, crossing, script
<1>3. CASE CloseConnection(c) \/ EraseSocket(c) \/ Read(c) \/ BeginPush(c)
  BY <1>3 DEF CloseConnection, EraseSocket, Read, BeginPush, MessageTypes, crossing, script
<1>4. CASE EndPush(c)
  <2>1. EventOf(c) \in Events
    BY <1>0, <1>4 DEF EndPush, EventOf, WorkerPlaced, Workers, Events
  <2>2. queue' = Append(queue, EventOf(c))
    BY <1>4 DEF EndPush, EventOf
  <2>3. queue' \in Seq(Events)
    BY <2>1, <2>2 DEF MessageTypes
  <2>4. QED
    BY <1>4, <2>3 DEF EndPush, MessageTypes, script
<1>5. QED
  BY <1>1, <1>2, <1>3, <1>4 DEF Thread

\* The objects after an event: an event of a new id adds its own.
LEMMA AcceptedTypes ==
  ASSUME MessageTypes, NEW e \in Events
  PROVE  /\ DOMAIN Accepted(e) = DOMAIN connection \cup {e.id} /\ DOMAIN Accepted(e) \subseteq Nat
         /\ Accepted(e) \in [DOMAIN Accepted(e) -> [conn : Conn, tid : Tid]]
         /\ Accepted(e)[e.id] = [conn |-> e.conn, tid |-> e.tid]
         /\ \A i \in DOMAIN connection \ {e.id} : Accepted(e)[i] = connection[i]
BY DEF Accepted, MessageTypes, Events

\* What messageCb does with an event e of the object at: the handler answers nothing,
\* or once, or once and closes, to the object o.
Answers(o, n) == {<<>>, <<Payload(o, n, "send_data")>>,
                  <<Payload(o, n, "send_data"), Payload(o, n, "close_connection")>>}
Answered(at, o, e) ==
  /\ received' = [received EXCEPT ![at.conn] = Append(@, Text(e))]
  /\ todo' \in Answers(o, published[o.conn] + 1)
  /\ published' = [published EXCEPT ![o.conn] = IF todo' = <<>> THEN @ ELSE published[o.conn] + 1]

LEMMA MessageCbAnswers ==
  ASSUME NEW e \in Events, NEW conns, MessageCb(e, conns)
  PROVE  connection' = conns /\ \E o \in Range(conns) : Answered(conns[e.id], o, e)
<1>1. PICK o \in Range(conns), answer \in {<<>>, <<"send_data">>, <<"send_data", "close_connection">>} :
        LET n == published[o.conn] + 1
        IN  /\ todo' = [i \in 1..Len(answer) |-> Payload(o, n, answer[i])]
            /\ published' = [published EXCEPT ![o.conn] = IF answer = <<>> THEN @ ELSE n]
  BY DEF MessageCb
<1> DEFINE n == published[o.conn] + 1
<1>2. /\ todo' = [i \in 1..Len(answer) |-> Payload(o, n, answer[i])]
      /\ published' = [published EXCEPT ![o.conn] = IF answer = <<>> THEN @ ELSE n]
  BY <1>1
<1>3. (todo' = <<>> <=> answer = <<>>) /\ todo' \in Answers(o, n)
  <2>1. CASE answer = <<>>
    <3>1. todo' = <<>>
      BY <1>2, <2>1
    <3>2. QED
      BY <2>1, <3>1 DEF Answers
  <2>2. CASE answer = <<"send_data">>
    <3>1. todo' = <<Payload(o, n, "send_data")>>
      BY <1>2, <2>2
    <3>2. QED
      BY <2>2, <3>1 DEF Answers
  <2>3. CASE answer = <<"send_data", "close_connection">>
    <3>1. todo' = <<Payload(o, n, "send_data"), Payload(o, n, "close_connection")>>
      BY <1>2, <2>3
    <3>2. QED
      BY <2>3, <3>1 DEF Answers
  <2>4. QED
    BY <2>1, <2>2, <2>3
<1>4. Answered(conns[e.id], o, e)
  BY <1>2, <1>3 DEF MessageCb, Answered
<1>5. QED
  BY <1>4 DEF MessageCb

\* A pop gives the event to the object of its id, be it new, or on_accept throws.
PopStep(e) ==
  \/ /\ raised' = raised
     /\ \/ e.id \in DOMAIN connection /\ connection' = connection
        \/ e.id \notin DOMAIN connection /\ connection' = Accepted(e)
     /\ \E o \in Range(connection') : Answered(connection'[e.id], o, e)
  \/ raised' = raised \cup {e.conn} /\ UNCHANGED <<connection, todo, received, published>>
Popped == Pop \/ AcceptRaises

LEMMA PopSteps ==
  ASSUME MessageTypes, Popped
  PROVE  /\ todo = <<>> /\ queue # <<>> /\ Head(queue) \in Events /\ queue' = Tail(queue)
         /\ PopStep(Head(queue))
<1>1. todo = <<>> /\ queue # <<>> /\ queue' = Tail(queue) /\ Head(queue) \in Events
  BY DEF Popped, Pop, AcceptRaises, Idle, MessageTypes
<1> DEFINE e == Head(queue)
<1>2. CASE e.id \in DOMAIN connection /\ MessageCb(e, connection) /\ UNCHANGED raised
  BY <1>1, <1>2, MessageCbAnswers DEF PopStep
<1>3. CASE e.id \notin DOMAIN connection /\ MessageCb(e, Accepted(e)) /\ UNCHANGED raised
  BY <1>1, <1>3, MessageCbAnswers DEF PopStep
<1>4. CASE AcceptRaises
  BY <1>1, <1>4 DEF AcceptRaises, PopStep
<1>5. QED
  BY <1>1, <1>2, <1>3, <1>4 DEF Popped, Pop

\* Exceptions and the prompt move the main thread only.
Prompted == TaskRaises \/ Input
LEMMA PromptSteps == ASSUME Prompted PROVE UNCHANGED <<peers, accepting, worker, resource, channels, crossing, connection,
                                                       todo, received, published, closed, raised, written>>
BY DEF Prompted, TaskRaises, Input, peers, accepting, resource, crossing

\* The message that is published: n becomes 0 when its thread was told to close.
Sent(p) == [p EXCEPT !.n = IF p.conn \in closed THEN 0 ELSE @]

LEMMA PublishSteps ==
  ASSUME MessageTypes, ChannelPublish
  PROVE  \E p \in Payloads :
           /\ todo # <<>> /\ p = Head(todo) /\ todo' = Tail(todo) /\ Sent(p) \in Payloads
           /\ channels' = [channels EXCEPT ![p.tid] = Append(@, Sent(p))]
           /\ closed' = IF p.event_name = "close_connection"
                        THEN closed \cup {c \in Running : worker[c].tid = p.tid} ELSE closed
<1>1. todo # <<>> /\ Head(todo) \in Payloads
  BY DEF ChannelPublish, MessageTypes
<1>2. Sent(Head(todo)) \in Payloads
  BY <1>1 DEF Sent, Payloads
<1>3. QED
  BY <1>1, <1>2 DEF ChannelPublish, Sent

LEMMA PopMessages == ASSUME MessageTypes, NEW e \in Events, PopStep(e), queue # <<>>, queue' = Tail(queue),
                            UNCHANGED <<channels, written, closed>>, main' \in {"loop", "prompt"}
                     PROVE  MessageTypes'
<1>1. queue' \in Seq(Events)
  BY DEF MessageTypes
<1>2. raised' \subseteq Conn
  BY DEF PopStep, MessageTypes, Events
<1>3. CASE UNCHANGED <<connection, todo, received, published>>
  BY <1>1, <1>2, <1>3 DEF MessageTypes
<1>4. CASE /\ \/ e.id \in DOMAIN connection /\ connection' = connection
              \/ e.id \notin DOMAIN connection /\ connection' = Accepted(e)
           /\ \E o \in Range(connection') : Answered(connection'[e.id], o, e)
  <2>0. PICK o \in Range(connection') : Answered(connection'[e.id], o, e)
    BY <1>4
  <2> DEFINE at == connection'[e.id]
             n == published[o.conn] + 1
  <2>1. /\ connection' \in [DOMAIN connection' -> [conn : Conn, tid : Tid]]
        /\ DOMAIN connection' \subseteq Nat /\ o \in [conn : Conn, tid : Tid] /\ at \in [conn : Conn, tid : Tid]
    <3>1. CASE e.id \in DOMAIN connection /\ connection' = connection
      BY <3>1 DEF MessageTypes, Range
    <3>2. CASE e.id \notin DOMAIN connection /\ connection' = Accepted(e)
      <4>1. e.id \in DOMAIN connection'
        BY <3>2, AcceptedTypes
      <4>2. DOMAIN Accepted(e) \subseteq Nat /\ Accepted(e) \in [DOMAIN Accepted(e) -> [conn : Conn, tid : Tid]]
        BY AcceptedTypes
      <4>3. \A id \in DOMAIN connection' : connection'[id] \in [conn : Conn, tid : Tid]
        BY <3>2, <4>2
      <4>4. QED
        BY <3>2, <4>1, <4>2, <4>3 DEF Range
    <3>3. QED
      BY <1>4, <3>1, <3>2
  <2>2. n \in Nat /\ published' \in [Conn -> Nat]
    <3>1. published \in [Conn -> Nat] /\ o.conn \in Conn
      BY <2>1 DEF MessageTypes
    <3>2. published' = published \/ published' = [published EXCEPT ![o.conn] = n]
      BY <2>0, <3>1 DEF Answered
    <3>3. QED
      BY <3>1, <3>2
  <2>3. todo' \in Seq(Payloads)
    <3>1. \A x \in {"send_data", "close_connection"} : Payload(o, n, x) \in Payloads
      BY <2>1, <2>2 DEF Payload, Payloads
    <3>2. /\ <<>> \in Seq(Payloads)
          /\ <<Payload(o, n, "send_data")>> \in Seq(Payloads)
          /\ <<Payload(o, n, "send_data"), Payload(o, n, "close_connection")>> \in Seq(Payloads)
      BY <3>1
    <3>3. QED
      BY <2>0, <3>2 DEF Answered, Answers
  <2>4. received' \in [Conn -> Seq(Texts)]
    <3>1. received \in [Conn -> Seq(Texts)] /\ Text(e) \in Texts /\ at.conn \in Conn
      BY <2>1 DEF MessageTypes, Events, Text, Texts
    <3>2. Append(received[at.conn], Text(e)) \in Seq(Texts)
      BY <3>1
    <3>3. QED
      BY <2>0, <3>1, <3>2 DEF Answered
  <2>5. QED
    BY <1>1, <1>2, <2>1, <2>2, <2>3, <2>4 DEF MessageTypes
<1>5. QED
  BY <1>3, <1>4 DEF PopStep

LEMMA MainTypes ==
  ASSUME ThreadTypes, MessageTypes, PlacesInv, Main \/ AcceptRaises \/ Prompted
  PROVE  ThreadTypes' /\ MessageTypes' /\ PlacesInv'
<1>1. /\ UNCHANGED <<sent, acceptor, incr_id, worker, sockets, socket_m, pushing>>
      /\ process' \in {process, "torn", "ended"}
  BY DEF Main, Pop, Torn, ChannelPublish, AcceptRaises, Prompted, TaskRaises, Input, Unwind, peers, accepting, resource,
         crossing
<1>2. ThreadTypes' /\ PlacesInv'
  BY <1>1 DEF ThreadTypes, PlacesInv, AcceptorPlaced, WorkerPlaced, TidsDiffer, Running
<1>3. CASE Popped
  <2>1. /\ Head(queue) \in Events /\ PopStep(Head(queue)) /\ queue # <<>> /\ queue' = Tail(queue)
        /\ UNCHANGED <<channels, written, closed>> /\ main' \in {"loop", "prompt"}
    BY <1>3, PopSteps DEF Popped, Pop, AcceptRaises, Unwind, MessageTypes
  <2>2. QED
    BY <1>2, <2>1, PopMessages
<1>4. CASE Torn
  BY <1>2, <1>4 DEF Torn, MessageTypes, crossing, script
<1>5. CASE ChannelPublish
  <2>1. PICK p \in Payloads :
           /\ todo # <<>> /\ p = Head(todo) /\ todo' = Tail(todo) /\ Sent(p) \in Payloads
           /\ channels' = [channels EXCEPT ![p.tid] = Append(@, Sent(p))]
           /\ closed' = IF p.event_name = "close_connection"
                        THEN closed \cup {c \in Running : worker[c].tid = p.tid} ELSE closed
    BY <1>5, PublishSteps
  <2>2. channels' \in [Tid -> Seq(Payloads)]
    <3>1. channels \in [Tid -> Seq(Payloads)] /\ p.tid \in Tid
      BY DEF MessageTypes, Payloads
    <3>2. QED
      BY <2>1, <3>1
  <2>3. todo' \in Seq(Payloads) /\ closed' \subseteq Conn
    BY <2>1 DEF MessageTypes, Running
  <2>4. QED
    BY <1>2, <1>5, <2>2, <2>3 DEF ChannelPublish, MessageTypes, crossing
<1>6. CASE Prompted
  <2>1. main' \in {"loop", "prompt"}
    BY <1>6 DEF Prompted, TaskRaises, Input, Unwind, MessageTypes
  <2>2. QED
    BY <1>2, <1>6, <2>1, PromptSteps DEF MessageTypes, crossing
<1>7. QED
  BY <1>2, <1>3, <1>4, <1>5, <1>6 DEF Main, Popped

TypeInv == ThreadTypes /\ MessageTypes /\ PlacesInv

LEMMA NextTypes == ASSUME TypeInv, [Next]_vars PROVE TypeInv'
<1> USE DEF TypeInv
<1>1. ASSUME NEW c \in Conn, Peer(c) PROVE TypeInv'
  BY <1>1, PeerTypes DEF Peer, MessageTypes, crossing, script
<1>2. ASSUME NEW c \in Conn, Thread(c) PROVE TypeInv'
  BY <1>2, ThreadStepTypes, ThreadStepMessages
<1>3. ASSUME NEW l \in Listener, Listen(l) PROVE TypeInv'
  BY <1>3, AcceptingTypes, SpawnTypes DEF Listen, Accepting
<1>4. ASSUME NEW l \in Listener, Error(l) PROVE TypeInv'
  BY <1>4 DEF Error, ThreadTypes, MessageTypes, PlacesInv, AcceptorPlaced, WorkerPlaced, TidsDiffer, Running,
              peers, accepting, resource, crossing, script
<1>5. CASE Main \/ AcceptRaises \/ Prompted
  BY <1>5, MainTypes
<1>6. CASE UNCHANGED vars
  BY <1>6 DEF vars, ThreadTypes, MessageTypes, PlacesInv, AcceptorPlaced, WorkerPlaced, TidsDiffer, Running,
              peers, accepting, resource, crossing, script
<1>7. QED
  BY <1>1, <1>2, <1>3, <1>4, <1>5, <1>6 DEF Next, Prompted

\* Every state is one in which the threads are where their records say.
THEOREM TypeCorrect == Spec => [](TypeInv /\ TypeOK)
<1>1. Init => TypeInv
  BY InitTypes DEF TypeInv
<1>2. TypeInv /\ [Next]_vars => TypeInv'
  BY NextTypes
<1>3. TypeInv => TypeOK
  BY DEF TypeInv, TypeOK, ThreadTypes, MessageTypes, PlacesInv, WorkerPlaced
<1>4. QED
  BY <1>1, <1>2, <1>3, PTL DEF Spec

-----------------------------------------------------------------------------
(* The socket set.                                                           *)

\* The connection's descriptor is open.
Live(c) == worker[c].pc \notin {"none", "erase", "ended"}
\* The descriptors of an accepting thread that it has recorded.
Listed(l) ==
  (IF acceptor[l].pc = "new" \/ (acceptor[l].pc = "record" /\ acceptor[l].conn = None)
   THEN {} ELSE {acceptor[l].sockfd})
    \cup (IF acceptor[l].pc \in {"number", "load", "spawn"} THEN {acceptor[l].fd} ELSE {})

\* No descriptor is open for two.
OwnersDiffer ==
  /\ \A c, d \in Conn : Live(c) /\ Live(d) /\ c # d => worker[c].fd # worker[d].fd
  /\ \A c \in Conn, l \in Listener : Live(c) => worker[c].fd \notin {acceptor[l].sockfd, acceptor[l].fd}
  /\ \A l \in Listener : acceptor[l].sockfd # NoFd =>
       /\ acceptor[l].sockfd # acceptor[l].fd
       /\ \A k \in Listener \ {l} : acceptor[l].sockfd \notin {acceptor[k].sockfd, acceptor[k].fd}
  /\ \A l, k \in Listener : acceptor[l].fd # NoFd /\ l # k => acceptor[l].fd # acceptor[k].fd

\* Who erases holds the mutex, and what it erases nobody has recorded again.
EraserInv ==
  /\ \A c \in Conn : worker[c].pc = "erase" <=> socket_m = c
  /\ \A c \in Conn : worker[c].pc = "erase" =>
       /\ \A d \in Conn : Live(d) => worker[d].fd # worker[c].fd
       /\ \A l \in Listener : worker[c].fd \notin Listed(l)

RecordedInv ==
  /\ \A c \in Conn : Live(c) => worker[c].fd \in sockets
  /\ \A l \in Listener : Listed(l) \subseteq sockets
  /\ \A s \in sockets :
       \/ \E c \in Conn : (Live(c) \/ worker[c].pc = "erase") /\ worker[c].fd = s
       \/ \E l \in Listener : s \in {acceptor[l].sockfd, acceptor[l].fd}

SocketInv == OwnersDiffer /\ EraserInv /\ RecordedInv

LEMMA OpenOwners == \A s : s \in Open <=> \/ \E c \in Conn : Live(c) /\ worker[c].fd = s
                                         \/ \E l \in Listener : s \in {acceptor[l].sockfd, acceptor[l].fd}
BY DEF Open, Running, Live

LEMMA SocketsFollow == ASSUME TypeInv, SocketInv PROVE SocketsRecorded
<1>1. TypeOK
  BY DEF TypeInv, TypeOK, ThreadTypes, MessageTypes, PlacesInv, WorkerPlaced
<1>2. \A c \in Running : worker[c].pc # "erase" => worker[c].fd \in sockets
  BY DEF SocketInv, RecordedInv, Running, Live
<1>3. ASSUME NEW s \in sockets \ Open PROVE \E c \in Running : worker[c].pc = "erase" /\ worker[c].fd = s
  BY OpenOwners DEF SocketInv, RecordedInv, Running
<1>4. QED
  BY <1>1, <1>2, <1>3 DEF SocketsRecorded

LEMMA InitSockets == Init => SocketInv
BY NoneIsNoConn DEF Init, SocketInv, OwnersDiffer, EraserInv, RecordedInv, Live, Listed

\* Steps that leave the places and descriptors of the connections' threads alone.
LEMMA SocketsStand ==
  ASSUME SocketInv, UNCHANGED <<acceptor, sockets, socket_m>>,
         \A c \in Conn : /\ worker'[c].fd = worker[c].fd
                         /\ worker'[c].pc = worker[c].pc \/ (Live(c) /\ worker'[c].pc \notin {"none", "erase", "ended"})
  PROVE  SocketInv'
<1>1. \A c \in Conn : Live(c)' = Live(c) /\ (worker'[c].pc = "erase" <=> worker[c].pc = "erase")
  BY DEF Live
<1>2. \A l \in Listener : Listed(l)' = Listed(l)
  BY DEF Listed
<1>3. OwnersDiffer'
  BY <1>1 DEF SocketInv, OwnersDiffer
<1>4. EraserInv'
  BY <1>1, <1>2 DEF SocketInv, EraserInv
<1>5. RecordedInv'
  BY <1>1, <1>2 DEF SocketInv, RecordedInv
<1>6. QED
  BY <1>3, <1>4, <1>5 DEF SocketInv

\* close makes the descriptor free, under the mutex.
LEMMA CloseSockets ==
  ASSUME TypeInv, SocketInv, NEW c \in Conn, NEW w \in Workers, Turn(c, w), CloseConnection(c),
         w.pc = "erase", w.fd = worker[c].fd, worker[c].pc = "apply"
  PROVE  SocketInv'
<1>1. /\ worker'[c] = w /\ \A d \in Conn \ {c} : worker'[d] = worker[d]
  BY Turning DEF TypeInv
<1>2. acceptor' = acceptor /\ sockets' = sockets /\ socket_m = None /\ socket_m' = c
  BY DEF CloseConnection, accepting
<1>3. \A d \in Conn \ {c} : Live(d)' = Live(d) /\ worker[d].pc # "erase"
  BY <1>1, <1>2, NoneIsNoConn DEF SocketInv, EraserInv, Live
<1>4. Live(c) /\ ~Live(c)' /\ \A l \in Listener : Listed(l)' = Listed(l)
  BY <1>1, <1>2 DEF Live, Listed
<1>5. OwnersDiffer'
  BY <1>1, <1>2, <1>3, <1>4 DEF SocketInv, OwnersDiffer
<1>6. EraserInv'
  <2>1. \A d \in Conn : worker'[d].pc = "erase" <=> socket_m' = d
    BY <1>1, <1>2, <1>3
  <2>2. \A d \in Conn : Live(d)' => worker'[d].fd # worker'[c].fd
    BY <1>1, <1>3, <1>4 DEF SocketInv, OwnersDiffer
  <2>3. \A l \in Listener : Listed(l) \subseteq {acceptor[l].sockfd, acceptor[l].fd}
    BY DEF Listed
  <2>4. \A l \in Listener : worker'[c].fd \notin Listed(l)'
    BY <1>1, <1>4, <2>3 DEF SocketInv, OwnersDiffer
  <2>5. QED
    BY <1>1, <1>3, <2>1, <2>2, <2>4 DEF EraserInv
<1>7. RecordedInv'
  BY <1>1, <1>2, <1>3, <1>4 DEF SocketInv, RecordedInv
<1>8. QED
  BY <1>5, <1>6, <1>7 DEF SocketInv

LEMMA EraseSockets ==
  ASSUME TypeInv, SocketInv, NEW c \in Conn, NEW w \in Workers, Turn(c, w), EraseSocket(c),
         w.pc = "ended", worker[c].pc = "erase"
  PROVE  SocketInv'
<1>1. /\ worker'[c] = w /\ \A d \in Conn \ {c} : worker'[d] = worker[d]
  BY Turning DEF TypeInv
<1>2. acceptor' = acceptor /\ sockets' = sockets \ {worker[c].fd} /\ socket_m = c /\ socket_m' = None
  BY DEF EraseSocket, accepting, SocketInv, EraserInv
<1>3. \A d \in Conn : Live(d)' = Live(d) /\ worker'[d].pc # "erase" /\ (d # c => worker[d].pc # "erase")
  BY <1>1, <1>2 DEF SocketInv, EraserInv, Live
<1>4. ~Live(c) /\ \A l \in Listener : Listed(l)' = Listed(l)
  BY <1>2 DEF Live, Listed
<1>5. OwnersDiffer'
  BY <1>1, <1>2, <1>3, <1>4 DEF SocketInv, OwnersDiffer
<1>6. EraserInv'
  BY <1>2, <1>3, NoneIsNoConn DEF EraserInv
<1>7. RecordedInv'
  <2>1. \A d \in Conn : Live(d) => worker[d].fd \in sockets'
    BY <1>2 DEF SocketInv, RecordedInv, EraserInv
  <2>2. \A l \in Listener : Listed(l) \subseteq sockets'
    BY <1>2 DEF SocketInv, RecordedInv, EraserInv
  <2>3. \A s \in sockets' : \/ \E d \in Conn : Live(d) /\ worker[d].fd = s
                           \/ \E l \in Listener : s \in {acceptor[l].sockfd, acceptor[l].fd}
    BY <1>2, <1>3 DEF SocketInv, RecordedInv
  <2>4. \A d \in Conn : Live(d) => worker'[d] = worker[d]
    BY <1>1, <1>4
  <2>5. QED
    BY <1>2, <1>3, <1>4, <2>1, <2>2, <2>3, <2>4 DEF RecordedInv
<1>8. QED
  BY <1>5, <1>6, <1>7 DEF SocketInv

LEMMA ThreadSockets == ASSUME TypeInv, SocketInv, NEW c \in Conn, Thread(c) PROVE SocketInv'
<1> USE DEF TypeInv
<1>1. CASE \E w \in Workers : Turn(c, w) /\ ThreadStep(c, w) /\ UNCHANGED process
  <2>1. PICK w \in Workers : Turn(c, w) /\ ThreadStep(c, w)
    BY <1>1
  <2>2. w.fd = worker[c].fd /\ worker[c] \in Workers
    BY <2>1, ThreadPlaced DEF ThreadTypes
  <2>3. /\ worker'[c] = w /\ \A d \in Conn \ {c} : worker'[d] = worker[d]
    BY <2>1, Turning
  <2>4. CASE CloseConnection(c) /\ worker[c].pc = "apply" /\ w = [worker[c] EXCEPT !.pc = "erase", !.message = <<>>]
    BY <2>1, <2>2, <2>4, CloseSockets DEF Workers
  <2>5. CASE EraseSocket(c) /\ worker[c].pc = "erase" /\ w = [worker[c] EXCEPT !.pc = "ended"]
    BY <2>1, <2>2, <2>5, EraseSockets DEF Workers
  <2>6. CASE ReceiveChannelPayload(c) \/ SendData(c) \/ Read(c) \/ BeginPush(c) \/ EndPush(c)
    <3>1. UNCHANGED <<acceptor, sockets, socket_m>>
      BY <2>6 DEF ReceiveChannelPayload, SendData, Read, BeginPush, EndPush, accepting, resource
    <3>2. worker[c].pc \in {"check", "apply", "push", "pushing"}
      BY <2>6 DEF ReceiveChannelPayload, SendData, Read, BeginPush, EndPush, Pc
    <3>3. w.pc \in {"check", "apply", "push", "pushing"}
      BY <2>1, <2>2, <2>6, <3>2 DEF ThreadStep, CloseConnection, ReceiveChannelPayload, SendData, Read,
                                    BeginPush, EndPush, Pc, Workers, NoMore
    <3>4. QED
      BY <2>2, <2>3, <3>1, <3>2, <3>3, SocketsStand DEF Live
  <2>7. QED
    BY <2>1, <2>4, <2>5, <2>6 DEF ThreadStep
<1>2. CASE process' = "ended" /\ UNCHANGED <<worker, written, resource>> /\ (SendData(c) \/ Read(c))
  <2>1. UNCHANGED <<acceptor, sockets, socket_m, worker>>
    BY <1>2 DEF SendData, Read, accepting, resource
  <2>2. QED
    BY <2>1, SocketsStand
<1>3. QED
  BY <1>1, <1>2, ThreadSteps

\* A descriptor that the system gives is nobody's.
LEMMA LowestIsFree ==
  ASSUME NEW d \in Fd, Lowest(d)
  PROVE  /\ \A c \in Conn : Live(c) => worker[c].fd # d
         /\ \A l \in Listener : d \notin {acceptor[l].sockfd, acceptor[l].fd}
BY OpenOwners DEF Lowest

\* Steps of an accepting thread that leave its descriptors, and what it has recorded, alone,
\* or add one that was nobody's.
LEMMA AcceptorSockets ==
  ASSUME TypeInv, SocketInv, NEW l \in Listener, NEW a \in Acceptors, Become(l, a),
         UNCHANGED <<worker, sockets, socket_m>>, Listed(l)' = Listed(l),
         \/ a.sockfd = acceptor[l].sockfd /\ a.fd = acceptor[l].fd
         \/ a.sockfd = acceptor[l].sockfd /\ acceptor[l].fd = NoFd /\ \E d \in Fd : Lowest(d) /\ a.fd = d
         \/ acceptor[l].sockfd = NoFd /\ acceptor[l].fd = NoFd /\ a.fd = NoFd /\ \E d \in Fd : Lowest(d) /\ a.sockfd = d
  PROVE  SocketInv'
<1>1. /\ acceptor'[l] = a /\ \A k \in Listener \ {l} : acceptor'[k] = acceptor[k]
  BY Becoming DEF TypeInv
<1>2. \A k \in Listener : Listed(k)' = Listed(k)
  BY <1>1 DEF Listed
<1>3. \A c \in Conn : Live(c)' = Live(c) /\ worker'[c] = worker[c] /\ (Live(c) => worker[c].fd \in Fd)
  BY DEF Live, TypeInv, PlacesInv, WorkerPlaced
<1>4. OwnersDiffer'
  <2>1. CASE a.sockfd = acceptor[l].sockfd /\ a.fd = acceptor[l].fd
    BY <1>1, <1>3, <2>1 DEF SocketInv, OwnersDiffer
  <2>2. CASE a.sockfd = acceptor[l].sockfd /\ acceptor[l].fd = NoFd /\ \E d \in Fd : Lowest(d) /\ a.fd = d
    BY <1>1, <1>3, <2>2, LowestIsFree, NoneIsNoConn DEF SocketInv, OwnersDiffer
  <2>3. CASE acceptor[l].sockfd = NoFd /\ acceptor[l].fd = NoFd /\ a.fd = NoFd /\ \E d \in Fd : Lowest(d) /\ a.sockfd = d
    BY <1>1, <1>3, <2>3, LowestIsFree, NoneIsNoConn DEF SocketInv, OwnersDiffer
  <2>4. QED
    BY <2>1, <2>2, <2>3
<1>5. EraserInv'
  BY <1>2, <1>3 DEF SocketInv, EraserInv
<1>6. RecordedInv'
  <2>1. NoFd \notin sockets
    BY NoneIsNoConn DEF TypeInv, ThreadTypes
  <2>2. \A s \in sockets : s \in {acceptor[l].sockfd, acceptor[l].fd} => s \in {a.sockfd, a.fd}
    BY <2>1
  <2>3. QED
    BY <1>1, <1>2, <1>3, <2>2 DEF SocketInv, RecordedInv
<1>7. QED
  BY <1>4, <1>5, <1>6 DEF SocketInv

\* No thread erases while one records.
LEMMA RecordSockets ==
  ASSUME TypeInv, SocketInv, NEW l \in Listener, NEW a \in Acceptors, Become(l, a), RecordSocket(l),
         acceptor[l].pc = "record", a.pc \in {"accept", "number"}, a.conn = None <=> a.pc = "accept",
         a.sockfd = acceptor[l].sockfd, a.fd = acceptor[l].fd
  PROVE  SocketInv'
<1>1. /\ acceptor'[l] = a /\ \A k \in Listener \ {l} : acceptor'[k] = acceptor[k]
  BY Becoming DEF TypeInv
<1>2. /\ worker' = worker /\ socket_m = None /\ socket_m' = None
      /\ sockets' = sockets \cup ({acceptor[l].sockfd, acceptor[l].fd} \ {NoFd})
  BY DEF RecordSocket
<1>3. \A c \in Conn : Live(c)' = Live(c) /\ worker[c].pc # "erase"
  BY <1>2, NoneIsNoConn DEF Live, SocketInv, EraserInv
<1>4. OwnersDiffer'
  BY <1>1, <1>2, <1>3 DEF SocketInv, OwnersDiffer
<1>5. EraserInv'
  BY <1>2, <1>3, NoneIsNoConn DEF EraserInv
<1>6. RecordedInv'
  <2>1. AcceptorPlaced(l)
    BY DEF TypeInv, PlacesInv
  <2>2. acceptor[l].sockfd # NoFd /\ (a.pc = "number" => acceptor[l].fd # NoFd \/ acceptor[l].conn = None)
    BY <2>1 DEF AcceptorPlaced
  <2>3. Listed(l)' \subseteq sockets'
    <3>1. acceptor[l].conn = a.conn
      BY <1>1 DEF RecordSocket, Become, TypeInv, ThreadTypes, Acceptors
    <3>2. QED
      BY <1>1, <1>2, <2>2, <3>1 DEF Listed
  <2>4. \A k \in Listener \ {l} : Listed(k)' \subseteq sockets'
    BY <1>1, <1>2 DEF SocketInv, RecordedInv, Listed
  <2>5. QED
    BY <1>1, <1>2, <1>3, <2>3, <2>4 DEF SocketInv, RecordedInv
<1>7. QED
  BY <1>4, <1>5, <1>6 DEF SocketInv

\* The thread of the connection takes the descriptor over.
LEMMA SpawnSockets ==
  ASSUME TypeInv, SocketInv, NEW l \in Listener, Spawn(l)
  PROVE  SocketInv'
<1> DEFINE a == [acceptor[l] EXCEPT !.pc = "accept", !.conn = None, !.fd = NoFd]
<1>1. PICK c \in Conn, t \in Tid, w \in Workers :
        SpawnStep(l, c, t, w) /\ Turn(c, w) /\ acceptor[l].fd \in Fd /\ Become(l, a)
  BY SpawnSteps DEF TypeInv
<1>2. acceptor[l] \in Acceptors /\ a \in Acceptors /\ worker[c] \in Workers
  BY DEF TypeInv, ThreadTypes, Acceptors
<1>3. /\ acceptor'[l] = a /\ \A k \in Listener \ {l} : acceptor'[k] = acceptor[k]
  BY <1>1, <1>2, Becoming DEF TypeInv
<1>4. /\ worker'[c] = w /\ \A d \in Conn \ {c} : worker'[d] = worker[d]
  BY <1>1, Turning DEF TypeInv
<1>5. UNCHANGED <<sockets, socket_m>>
  BY DEF Spawn, resource
<1>6. /\ w.pc = "check" /\ w.fd = acceptor[l].fd /\ a.sockfd = acceptor[l].sockfd /\ a.fd = NoFd
      /\ a.pc = "accept" /\ worker[c].pc = "none" /\ acceptor[l].pc = "spawn"
  BY <1>1, <1>2 DEF SpawnStep, Workers, Acceptors
<1>7. /\ Live(c)' /\ ~Live(c) /\ \A d \in Conn \ {c} : Live(d)' = Live(d)
      /\ \A d \in Conn : worker'[d].pc = "erase" <=> worker[d].pc = "erase"
  BY <1>4, <1>6 DEF Live
<1>8. /\ Listed(l) = {acceptor[l].sockfd, acceptor[l].fd} /\ Listed(l)' = {acceptor[l].sockfd}
      /\ \A k \in Listener \ {l} : Listed(k)' = Listed(k)
  BY <1>3, <1>6 DEF Listed
<1>9. OwnersDiffer'
  <2>1. \A d \in Conn \ {c} : Live(d) => worker[d].fd # acceptor[l].fd
    BY DEF SocketInv, OwnersDiffer
  <2>2. acceptor[l].fd # NoFd
    BY <1>1, NoneIsNoConn
  <2>3. \A k \in Listener : acceptor[k].sockfd # acceptor[l].fd /\ (k # l => acceptor[k].fd # acceptor[l].fd)
    BY <2>2 DEF SocketInv, OwnersDiffer
  <2>4. \A k \in Listener : /\ acceptor'[k].sockfd = acceptor[k].sockfd
                           /\ acceptor'[k].fd = IF k = l THEN NoFd ELSE acceptor[k].fd
    BY <1>3, <1>6
  <2>5. \A k \in Listener : acceptor[l].fd \notin {acceptor'[k].sockfd, acceptor'[k].fd}
    BY <2>2, <2>3, <2>4
  <2>6. \A d, e \in Conn : Live(d)' /\ Live(e)' /\ d # e => worker'[d].fd # worker'[e].fd
    BY <1>4, <1>6, <1>7, <2>1 DEF SocketInv, OwnersDiffer
  <2>7. \A d \in Conn, k \in Listener : Live(d)' => worker'[d].fd \notin {acceptor'[k].sockfd, acceptor'[k].fd}
    <3>1. ASSUME NEW d \in Conn \ {c}, Live(d)
          PROVE  worker[d].fd # NoFd /\ \A k \in Listener : worker[d].fd \notin {acceptor[k].sockfd, acceptor[k].fd}
      BY <3>1, NoneIsNoConn DEF SocketInv, OwnersDiffer, Live, TypeInv, PlacesInv, WorkerPlaced
    <3>2. ASSUME NEW d \in Conn \ {c}, Live(d), NEW k \in Listener
          PROVE  worker[d].fd \notin {acceptor'[k].sockfd, acceptor'[k].fd}
      BY <2>4, <3>1, <3>2
    <3>3. QED
      BY <1>4, <1>6, <1>7, <2>5, <3>2
  <2>8. \A k \in Listener : acceptor'[k].sockfd # NoFd =>
          /\ acceptor'[k].sockfd # acceptor'[k].fd
          /\ \A m \in Listener \ {k} : acceptor'[k].sockfd \notin {acceptor'[m].sockfd, acceptor'[m].fd}
    <3>1. ASSUME NEW k \in Listener, acceptor[k].sockfd # NoFd, NEW m \in Listener
          PROVE  acceptor[k].sockfd # acceptor'[m].fd /\ (m # k => acceptor[k].sockfd # acceptor[m].sockfd)
      BY <2>4, <3>1 DEF SocketInv, OwnersDiffer
    <3>2. QED
      BY <2>4, <3>1
  <2>9. \A k, m \in Listener : acceptor'[k].fd # NoFd /\ k # m => acceptor'[k].fd # acceptor'[m].fd
    BY <2>4 DEF SocketInv, OwnersDiffer
  <2>10. QED
    BY <2>6, <2>7, <2>8, <2>9 DEF OwnersDiffer
<1>10. EraserInv'
  BY <1>4, <1>5, <1>6, <1>7, <1>8 DEF SocketInv, EraserInv
<1>11. RecordedInv'
  <2>1. acceptor[l].fd \in sockets
    BY <1>8 DEF SocketInv, RecordedInv
  <2>2. \A d \in Conn : Live(d)' => worker'[d].fd \in sockets'
    BY <1>4, <1>5, <1>6, <1>7, <2>1 DEF SocketInv, RecordedInv
  <2>3. \A k \in Listener : Listed(k)' \subseteq sockets'
    BY <1>5, <1>8 DEF SocketInv, RecordedInv
  <2>4. NoFd \notin sockets
    BY NoneIsNoConn DEF TypeInv, ThreadTypes
  <2>5. ASSUME NEW s \in sockets
        PROVE  \/ \E d \in Conn : (Live(d)' \/ worker'[d].pc = "erase") /\ worker'[d].fd = s
               \/ \E k \in Listener : s \in {acceptor'[k].sockfd, acceptor'[k].fd}
    <3>1. CASE s = acceptor[l].fd
      BY <1>4, <1>6, <1>7, <3>1
    <3>2. CASE s = acceptor[l].sockfd
      BY <1>3, <1>6, <3>2
    <3>3. CASE \E d \in Conn : (Live(d) \/ worker[d].pc = "erase") /\ worker[d].fd = s
      BY <1>4, <1>6, <1>7, <3>3
    <3>4. CASE \E k \in Listener \ {l} : s \in {acceptor[k].sockfd, acceptor[k].fd}
      BY <1>3, <3>4
    <3>5. QED
      BY <3>1, <3>2, <3>3, <3>4 DEF SocketInv, RecordedInv
  <2>6. QED
    BY <1>5, <2>2, <2>3, <2>5 DEF RecordedInv
<1>12. QED
  BY <1>9, <1>10, <1>11 DEF SocketInv

LEMMA NextSockets == ASSUME TypeInv, SocketInv, [Next]_vars PROVE SocketInv'
<1>1. ASSUME UNCHANGED <<acceptor, sockets, socket_m, worker>> PROVE SocketInv'
  BY <1>1, SocketsStand
<1>2. ASSUME NEW l \in Listener, Accepting(l) PROVE SocketInv'
  <2>1. PICK a \in Acceptors : Become(l, a) /\ ListenStep(l, a)
    BY <1>2, ListenSteps DEF TypeInv
  <2>2. acceptor'[l] = a /\ acceptor[l] \in Acceptors /\ AcceptorPlaced(l)
    BY <2>1, Becoming DEF TypeInv, ThreadTypes, PlacesInv
  <2>3. CASE acceptor[l].pc = "new"
    <3>1. PICK d \in Fd : Lowest(d) /\ a = [acceptor[l] EXCEPT !.pc = "record", !.sockfd = d]
      BY <2>1, <2>3 DEF ListenStep
    <3>2. /\ acceptor[l].sockfd = NoFd /\ acceptor[l].fd = NoFd /\ acceptor[l].conn = None
          /\ a.pc = "record" /\ a.sockfd = d /\ a.fd = NoFd /\ a.conn = None
      BY <2>2, <2>3, <3>1 DEF AcceptorPlaced, Acceptors
    <3>3. UNCHANGED <<worker, sockets, socket_m>>
      BY <2>1, <2>3 DEF ListenStep, CreateSocket, resource
    <3>4. Listed(l)' = Listed(l)
      BY <2>2, <2>3, <3>2 DEF Listed
    <3>5. QED
      BY <2>1, <3>1, <3>2, <3>3, <3>4, AcceptorSockets
  <2>4. CASE acceptor[l].pc = "accept"
    <3>1. PICK c \in Conn, d \in Fd :
            Lowest(d) /\ Accept(l, c) /\ a = [acceptor[l] EXCEPT !.pc = "record", !.conn = c, !.fd = d]
      BY <2>1, <2>4 DEF ListenStep
    <3>2. /\ acceptor[l].fd = NoFd /\ acceptor[l].conn = None
          /\ a.pc = "record" /\ a.sockfd = acceptor[l].sockfd /\ a.fd = d /\ a.conn = c
      BY <2>2, <2>4, <3>1 DEF AcceptorPlaced, Acceptors
    <3>3. UNCHANGED <<worker, sockets, socket_m>>
      BY <3>1 DEF Accept, resource
    <3>4. Listed(l)' = Listed(l)
      BY <2>2, <2>4, <3>2, NoneIsNoConn DEF Listed
    <3>5. QED
      BY <2>1, <3>1, <3>2, <3>3, <3>4, AcceptorSockets
  <2>5. CASE acceptor[l].pc = "record"
    <3>1. /\ RecordSocket(l)
          /\ a = [acceptor[l] EXCEPT !.pc = IF acceptor[l].conn = None THEN "accept" ELSE "number"]
      BY <2>1, <2>5 DEF ListenStep
    <3>2. /\ a.pc \in {"accept", "number"} /\ (a.conn = None <=> a.pc = "accept")
          /\ a.sockfd = acceptor[l].sockfd /\ a.fd = acceptor[l].fd
      BY <2>2, <3>1 DEF Acceptors
    <3>3. QED
      BY <2>1, <2>5, <3>1, <3>2, RecordSockets
  <2>6. CASE acceptor[l].pc \in {"number", "load"}
    <3>1. /\ a.pc \in {"load", "spawn"} /\ a.conn = acceptor[l].conn
          /\ a.sockfd = acceptor[l].sockfd /\ a.fd = acceptor[l].fd
      BY <2>1, <2>2, <2>6 DEF ListenStep, Acceptors
    <3>2. UNCHANGED <<worker, sockets, socket_m>>
      BY <2>1, <2>6 DEF ListenStep, IncrId, LoadId, resource
    <3>3. Listed(l)' = Listed(l)
      BY <2>2, <2>6, <3>1 DEF Listed
    <3>4. QED
      BY <2>1, <3>1, <3>2, <3>3, AcceptorSockets
  <2>7. QED
    BY <2>1, <2>3, <2>4, <2>5, <2>6 DEF ListenStep
<1>3. CASE \E c \in Conn : Peer(c) \/ Thread(c)
  BY <1>1, <1>3, ThreadSockets DEF Peer, accepting, resource
<1>4. CASE \E l \in Listener : Listen(l) \/ Error(l)
  BY <1>1, <1>2, <1>4, SpawnSockets DEF Listen, Accepting, Error, accepting, resource
<1>5. CASE Main \/ AcceptRaises \/ Prompted
  BY <1>1, <1>5, PromptSteps DEF Main, Pop, Torn, ChannelPublish, AcceptRaises, accepting, resource
<1>6. CASE UNCHANGED vars
  BY <1>1, <1>6 DEF vars, accepting, resource
<1>7. QED
  BY <1>3, <1>4, <1>5, <1>6 DEF Next, Prompted

\* The socket set is the set of the open descriptors, but for one that is closed
\* and about to be erased: for any number of servers and connections.
THEOREM SocketsRecordedHolds == Spec => []SocketsRecorded
<1>1. Init => TypeInv /\ SocketInv
  BY InitTypes, InitSockets DEF TypeInv
<1>2. TypeInv /\ SocketInv /\ [Next]_vars => TypeInv' /\ SocketInv'
  BY NextTypes, NextSockets
<1>3. TypeInv /\ SocketInv => SocketsRecorded
  BY SocketsFollow
<1>4. QED
  BY <1>1, <1>2, <1>3, PTL DEF Spec

-----------------------------------------------------------------------------
(* What is read from a connection, when there is one server.                 *)

\* Every thread has an id of its own, the one of its object and of its events.
IdsInv ==
  /\ \A c, d \in Conn : worker[c].pc # "none" /\ worker[d].pc # "none" /\ c # d => worker[c].id # worker[d].id
  /\ \A c \in Conn, l \in Listener : worker[c].pc # "none" =>
       /\ worker[c].id <= incr_id
       /\ acceptor[l].pc \in {"load", "spawn"} => worker[c].id < incr_id
  /\ \A l \in Listener : acceptor[l].pc = "spawn" => acceptor[l].id = incr_id

Known(c, id) == worker[c].pc # "none" /\ worker[c].id = id
ObjectsInv ==
  /\ \A id \in DOMAIN connection : Known(connection[id].conn, id)
  /\ \A i \in DOMAIN queue : Known(queue[i].conn, queue[i].id)

\* A text m is what is kept of a read of c.
OfRead(c, m) == m.from < m.to /\ m.buf = Kept(c, m.from, m.to)
ReadsInv ==
  /\ \A c \in Conn : worker[c].pushed < worker[c].read =>
       worker[c].buf = Kept(c, worker[c].pushed, worker[c].read)
  /\ \A i \in DOMAIN queue : OfRead(queue[i].conn, queue[i])

\* c's events in the queue are the reads that were pushed and not received, in order.
StreamOf(c) ==
  LET r == Heard(c)
  IN  /\ \A i \in DOMAIN received[c] : /\ OfRead(c, received[c][i]) /\ received[c][i].to <= worker[c].pushed
                                       /\ received[c][i].from = IF i = 1 THEN 0 ELSE received[c][i - 1].to
      /\ r <= worker[c].pushed
      /\ \A i \in DOMAIN queue : queue[i].conn = c => r <= queue[i].from /\ queue[i].to <= worker[c].pushed
      /\ \A i, j \in DOMAIN queue : i < j /\ queue[i].conn = c /\ queue[j].conn = c => queue[i].to <= queue[j].from
      /\ \A n \in (r + 1)..worker[c].pushed : \E i \in DOMAIN queue :
           queue[i].conn = c /\ queue[i].from < n /\ n <= queue[i].to

StreamInv == IdsInv /\ ObjectsInv /\ ReadsInv /\ \A c \in Conn \ raised : StreamOf(c)

LEMMA EventTypes ==
  ASSUME TypeInv, NEW i \in DOMAIN queue
  PROVE  queue[i] \in Events /\ queue[i].conn \in Conn /\ queue[i].tid \in Tid /\ queue[i].id \in Nat
<1>1. queue \in Seq(Events)
  BY DEF TypeInv, MessageTypes
<1>2. queue[i] \in Events
  BY <1>1, ElementOfSeq, LenProperties
<1>3. QED
  BY <1>2 DEF Events

LEMMA StreamTypes ==
  ASSUME TypeInv, NEW c \in Conn
  PROVE  /\ worker[c].pushed \in Nat /\ worker[c].read \in Nat /\ sent[c] \in Nat /\ Heard(c) \in Nat
         /\ worker[c].pushed <= worker[c].read /\ worker[c].read <= sent[c]
         /\ \A i \in DOMAIN received[c] : received[c][i] \in Texts
         /\ \A i \in DOMAIN queue : queue[i].from \in Nat /\ queue[i].to \in Nat
<1>1. worker[c] \in Workers /\ WorkerPlaced(c) /\ sent[c] \in Nat /\ received[c] \in Seq(Texts) /\ queue \in Seq(Events)
  BY DEF TypeInv, ThreadTypes, MessageTypes, PlacesInv
<1>2. \A i \in DOMAIN received[c] : received[c][i] \in Texts
  BY <1>1
<1>3. \A i \in DOMAIN queue : queue[i].from \in Nat /\ queue[i].to \in Nat
  <2>1. \A i \in DOMAIN queue : queue[i] \in Events
    BY EventTypes
  <2>2. QED
    BY <2>1 DEF Events
<1>4. Heard(c) \in Nat
  <2>1. received[c] # <<>> => Len(received[c]) \in DOMAIN received[c]
    BY <1>1
  <2>2. QED
    BY <1>2, <2>1 DEF Heard, Texts
<1>5. QED
  BY <1>1, <1>2, <1>3, <1>4 DEF Workers, WorkerPlaced

LEMMA TextBytes ==
  ASSUME NEW c \in Conn, NEW m \in Texts, OfRead(c, m)
  PROVE  \E k \in m.from..m.to : m.buf = Bytes(c, m.from, k) /\ (k = m.to \/ k + 1 \in Nul)
<1> DEFINE a == m.from
           b == m.to
<1>1. a \in Nat /\ b \in Nat /\ a <= b /\ m.buf = Kept(c, a, b)
  BY DEF Texts, OfRead
<1> HIDE DEF a, b
<1>2. \E k \in a..b : Kept(c, a, b) = Bytes(c, a, k) /\ (k = b \/ k + 1 \in Nul)
  BY <1>1, KeptBytes
<1>3. QED
  BY <1>1, <1>2 DEF a, b

LEMMA StreamFollows == ASSUME TypeInv, StreamInv PROVE StreamKept
<1>1. ASSUME NEW c \in Conn \ raised, NEW i \in DOMAIN received[c]
      PROVE  LET text == received[c][i]
             IN  /\ text.from = IF i = 1 THEN 0 ELSE received[c][i - 1].to
                 /\ text.from < text.to /\ text.to <= sent[c]
                 /\ \E k \in text.from..text.to : /\ text.buf = Bytes(c, text.from, k)
                                                  /\ k = text.to \/ k + 1 \in Nul
  <2> DEFINE text == received[c][i]
  <2>1. /\ OfRead(c, text) /\ text.to <= worker[c].pushed
        /\ text.from = IF i = 1 THEN 0 ELSE received[c][i - 1].to
    BY DEF StreamInv, StreamOf
  <2>2. /\ worker[c].pushed \in Nat /\ worker[c].read \in Nat /\ sent[c] \in Nat /\ text \in Texts
        /\ worker[c].pushed <= worker[c].read /\ worker[c].read <= sent[c]
    BY StreamTypes
  <2>3. text.from \in Nat /\ text.to \in Nat /\ text.from < text.to /\ text.to <= sent[c]
    BY <2>1, <2>2 DEF Texts, OfRead
  <2>4. \E k \in text.from..text.to : text.buf = Bytes(c, text.from, k) /\ (k = text.to \/ k + 1 \in Nul)
    BY <2>1, <2>2, TextBytes
  <2>5. QED
    BY <2>1, <2>3, <2>4
<1>2. QED
  BY <1>1 DEF StreamKept

LEMMA InitStream == Init => StreamInv
<1> SUFFICES ASSUME Init PROVE StreamInv
  OBVIOUS
<1>1. IdsInv /\ ObjectsInv /\ ReadsInv
  BY DEF Init, IdsInv, ObjectsInv, ReadsInv, Known
<1>2. \A c \in Conn : StreamOf(c)
  <2>1. \A c \in Conn : received[c] = <<>> /\ worker[c].pushed = 0 /\ queue = <<>>
    BY DEF Init
  <2>2. QED
    BY <2>1 DEF StreamOf, Heard
<1>3. QED
  BY <1>1, <1>2 DEF StreamInv

\* Steps that do not touch what the stream of bytes is made of.
LEMMA StreamStands ==
  ASSUME TypeInv, StreamInv, UNCHANGED <<acceptor, incr_id, queue, connection, received, raised>>,
         \A c \in Conn : /\ worker'[c].id = worker[c].id /\ worker'[c].read = worker[c].read
                         /\ worker'[c].buf = worker[c].buf /\ worker'[c].pushed = worker[c].pushed
                         /\ worker'[c].pc # "none" <=> worker[c].pc # "none"
  PROVE  StreamInv'
<1>1. IdsInv'
  BY DEF StreamInv, IdsInv
<1>2. ObjectsInv'
  <2>1. \A i \in DOMAIN queue : queue[i].conn \in Conn
    BY EventTypes
  <2>2. \A id \in DOMAIN connection : connection[id].conn \in Conn
    BY DEF TypeInv, MessageTypes
  <2>3. QED
    BY <2>1, <2>2 DEF StreamInv, ObjectsInv, Known
<1>3. \A c \in Conn : Heard(c)' = Heard(c)
  BY DEF Heard
<1>4. ReadsInv'
  BY DEF StreamInv, ReadsInv
<1>5. \A c \in Conn \ raised' : StreamOf(c)'
  BY <1>3 DEF StreamInv, StreamOf
<1>6. QED
  BY <1>1, <1>2, <1>4, <1>5 DEF StreamInv

\* The ids of one server's connections count up.
LEMMA ListenStream ==
  ASSUME TypeInv, StreamInv, NEW l, Listener = {l}, Listen(l)
  PROVE  StreamInv'
<1>1. UNCHANGED <<queue, connection, received, raised>>
  BY DEF Listen, CreateSocket, RecordSocket, IncrId, LoadId, Spawn, Accept, OnlyAccepting, crossing, script
<1>2. incr_id \in Nat /\ \A c \in Conn : worker[c].id \in Nat
  BY DEF TypeInv, ThreadTypes, Workers
<1>3. CASE Accepting(l)
  <2>1. PICK a \in Acceptors : Become(l, a) /\ ListenStep(l, a)
    BY <1>3, ListenSteps DEF TypeInv
  <2>2. acceptor'[l] = a /\ acceptor[l] \in Acceptors
    BY <2>1, Becoming DEF TypeInv, ThreadTypes
  <2>3. worker' = worker
    BY <2>1 DEF ListenStep, CreateSocket, RecordSocket, IncrId, LoadId, Accept
  <2>4. IdsInv'
    <3>1. CASE acceptor[l].pc = "number"
      <4>1. incr_id' = incr_id + 1 /\ a.pc = "load"
        BY <2>1, <2>2, <3>1 DEF ListenStep, IncrId, Acceptors
      <4>2. QED
        BY <1>2, <2>2, <2>3, <4>1 DEF StreamInv, IdsInv
    <3>2. CASE acceptor[l].pc = "load"
      <4>1. incr_id' = incr_id /\ a.pc = "spawn" /\ a.id = incr_id
        BY <2>1, <2>2, <3>2 DEF ListenStep, LoadId, Acceptors
      <4>2. QED
        BY <1>2, <2>2, <2>3, <3>2, <4>1 DEF StreamInv, IdsInv
    <3>3. CASE acceptor[l].pc \in {"new", "accept", "record"}
      <4>1. incr_id' = incr_id /\ a.pc \in {"record", "accept", "number"}
        BY <2>1, <2>2, <3>3 DEF ListenStep, CreateSocket, Accept, RecordSocket, Acceptors
      <4>2. QED
        BY <1>2, <2>2, <2>3, <4>1 DEF StreamInv, IdsInv
    <3>4. QED
      BY <2>1, <3>1, <3>2, <3>3 DEF ListenStep
  <2>5. ObjectsInv' /\ ReadsInv' /\ \A c \in Conn \ raised' : StreamOf(c)'
    BY <1>1, <2>3 DEF StreamInv, ObjectsInv, ReadsInv, Known, StreamOf, Heard
  <2>6. QED
    BY <2>4, <2>5 DEF StreamInv
<1>4. CASE Spawn(l)
  <2> DEFINE a == [acceptor[l] EXCEPT !.pc = "accept", !.conn = None, !.fd = NoFd]
  <2>1. PICK c \in Conn, t \in Tid, w \in Workers : SpawnStep(l, c, t, w) /\ Turn(c, w) /\ Become(l, a)
    BY <1>4, SpawnSteps DEF TypeInv
  <2>2. acceptor[l] \in Acceptors /\ a \in Acceptors /\ worker[c] \in Workers /\ WorkerPlaced(c)
    BY DEF TypeInv, ThreadTypes, PlacesInv, Acceptors
  <2>3. acceptor'[l] = a
    BY <2>1, <2>2, Becoming DEF TypeInv
  <2>4. /\ worker'[c] = w /\ \A d \in Conn \ {c} : worker'[d] = worker[d]
    BY <2>1, Turning DEF TypeInv
  <2>5. /\ w.pc = "check" /\ w.id = acceptor[l].id /\ a.pc = "accept"
        /\ w.read = worker[c].read /\ w.buf = worker[c].buf /\ w.pushed = worker[c].pushed
        /\ acceptor[l].pc = "spawn" /\ worker[c].pc = "none"
    BY <2>1, <2>2 DEF SpawnStep, Workers, Acceptors
  <2>6. incr_id' = incr_id
    BY <1>4 DEF Spawn
  <2>7. IdsInv'
    <3>1. w.id = incr_id /\ \A d \in Conn : worker[d].pc # "none" => worker[d].id < incr_id
      BY <2>5 DEF StreamInv, IdsInv
    <3>2. \A d \in Conn : worker'[d].pc # "none" => d = c \/ worker[d].pc # "none"
      BY <2>4
    <3>3. \A d, e \in Conn : worker'[d].pc # "none" /\ worker'[e].pc # "none" /\ d # e => worker'[d].id # worker'[e].id
      BY <1>2, <2>4, <3>1, <3>2 DEF StreamInv, IdsInv
    <3>4. \A d \in Conn : worker'[d].pc # "none" => worker'[d].id <= incr_id
      BY <1>2, <2>4, <3>1, <3>2
    <3>5. QED
      BY <2>3, <2>5, <2>6, <3>3, <3>4 DEF IdsInv
  <2>8. ObjectsInv'
    <3>1. \A d \in Conn : worker[d].pc # "none" => worker'[d] = worker[d]
      BY <2>4, <2>5
    <3>2. \A i \in DOMAIN queue : queue[i].conn \in Conn
      BY EventTypes
    <3>3. \A id \in DOMAIN connection : connection[id].conn \in Conn
      BY DEF TypeInv, MessageTypes
    <3>4. QED
      BY <1>1, <3>1, <3>2, <3>3 DEF StreamInv, ObjectsInv, Known
  <2>9. \A d \in Conn : /\ worker'[d].buf = worker[d].buf /\ worker'[d].read = worker[d].read
                        /\ worker'[d].pushed = worker[d].pushed
    BY <2>4, <2>5
  <2>10. ReadsInv' /\ \A d \in Conn \ raised' : StreamOf(d)'
    BY <1>1, <2>9 DEF StreamInv, ReadsInv, StreamOf, Heard
  <2>11. QED
    BY <2>7, <2>8, <2>10 DEF StreamInv
<1>5. QED
  BY <1>3, <1>4 DEF Listen, Accepting

\* What is read waits behind what was pushed.
LEMMA ReadStream ==
  ASSUME TypeInv, StreamInv, NEW c \in Conn, NEW w \in Workers, Turn(c, w), Read(c),
         w.pc # "none", worker[c].pc # "none", w.id = worker[c].id,
         worker[c].pushed = worker[c].read, w.pushed = worker[c].pushed,
         w.read = sent[c], w.buf = Kept(c, worker[c].read, sent[c])
  PROVE  StreamInv'
<1>1. /\ worker'[c] = w /\ \A d \in Conn \ {c} : worker'[d] = worker[d]
  BY Turning DEF TypeInv
<1>2. UNCHANGED <<acceptor, incr_id, queue, connection, received, raised>>
  BY DEF Read, accepting, crossing, script
<1>3. \A d \in Conn : worker'[d].pushed = worker[d].pushed
  BY <1>1
<1>4. IdsInv' /\ ObjectsInv'
  <2>1. \A d \in Conn : worker'[d].id = worker[d].id /\ (worker'[d].pc # "none" <=> worker[d].pc # "none")
    BY <1>1
  <2>2. \A i \in DOMAIN queue : queue[i].conn \in Conn
    BY EventTypes
  <2>3. \A id \in DOMAIN connection : connection[id].conn \in Conn
    BY DEF TypeInv, MessageTypes
  <2>4. QED
    BY <1>2, <2>1, <2>2, <2>3 DEF StreamInv, IdsInv, ObjectsInv, Known
<1>5. ReadsInv'
  BY <1>1, <1>2 DEF StreamInv, ReadsInv
<1>6. \A d \in Conn \ raised' : StreamOf(d)'
  BY <1>2, <1>3 DEF StreamInv, StreamOf, Heard
<1>7. QED
  BY <1>4, <1>5, <1>6 DEF StreamInv

LEMMA PushStream ==
  ASSUME TypeInv, StreamInv, NEW c \in Conn, NEW w \in Workers, Turn(c, w), EndPush(c), worker[c].pc = "pushing",
         w.pc # "none", w.id = worker[c].id, w.read = worker[c].read, w.pushed = worker[c].read
  PROVE  StreamInv'
<1> DEFINE e == EventOf(c)
           n == Len(queue) + 1
<1>1. /\ worker'[c] = w /\ \A d \in Conn \ {c} : worker'[d] = worker[d]
  BY Turning DEF TypeInv
<1>2. UNCHANGED <<acceptor, incr_id, connection, received, raised>> /\ queue' = Append(queue, e)
  BY DEF EndPush, EventOf, accepting, script
<1>3. WorkerPlaced(c) /\ worker[c] \in Workers /\ queue \in Seq(Events)
  BY DEF TypeInv, ThreadTypes, MessageTypes, PlacesInv
<1>4. /\ e \in Events /\ e.conn = c /\ e.id = worker[c].id /\ e.buf = worker[c].buf
      /\ e.from = worker[c].pushed /\ e.to = worker[c].read
  BY <1>3 DEF EventOf, Events, Workers, WorkerPlaced
<1>5. /\ DOMAIN queue' = 1..n /\ DOMAIN queue = 1..(n - 1) /\ n \in Nat /\ n >= 1
      /\ queue'[n] = e /\ \A i \in 1..(n - 1) : queue'[i] = queue[i]
  BY <1>2, <1>3, <1>4, AppendProperties, LenProperties
<1>6. CASE worker[c].pushed < worker[c].read
  <2>1. OfRead(c, e) /\ e.to = worker[c].read /\ e.from = worker[c].pushed
    BY <1>4, <1>6 DEF StreamInv, ReadsInv, OfRead
  <2>2. e.from \in Nat /\ e.to \in Nat /\ e.from < e.to
    BY <1>4, <2>1 DEF OfRead, Events
  <2>3. worker'[c].pushed = e.to /\ \A d \in Conn \ {c} : worker'[d].pushed = worker[d].pushed
    BY <1>1, <2>1
  <2>4. IdsInv'
    BY <1>1, <1>2 DEF StreamInv, IdsInv
  <2>5. ObjectsInv'
    <3>1. \A d \in Conn : worker'[d].id = worker[d].id /\ (worker'[d].pc # "none" <=> worker[d].pc # "none")
      BY <1>1
    <3>2. \A i \in DOMAIN queue : queue[i].conn \in Conn
      BY EventTypes
    <3>3. \A id \in DOMAIN connection : connection[id].conn \in Conn
      BY DEF TypeInv, MessageTypes
    <3>4. QED
      BY <1>2, <1>4, <1>5, <3>1, <3>2, <3>3 DEF StreamInv, ObjectsInv, Known
  <2>6. ReadsInv'
    <3>1. \A i \in DOMAIN queue' : OfRead(queue'[i].conn, queue'[i])
      BY <1>4, <1>5, <2>1 DEF StreamInv, ReadsInv
    <3>2. \A d \in Conn : worker'[d].pushed < worker'[d].read =>
            worker'[d].buf = Kept(d, worker'[d].pushed, worker'[d].read)
      BY <1>1, <1>3, <2>1, <2>3 DEF StreamInv, ReadsInv, Workers
    <3>3. QED
      BY <3>1, <3>2 DEF ReadsInv, OfRead, Kept, Bytes
  <2>7. ASSUME NEW d \in Conn \ raised' PROVE StreamOf(d)'
    <3>1. /\ StreamOf(d) /\ Heard(d) \in Nat /\ worker[d].pushed \in Nat
          /\ received'[d] = received[d] /\ Heard(d)' = Heard(d)
          /\ \A i \in DOMAIN received[d] : received[d][i].to \in Nat
      BY <1>2, StreamTypes DEF StreamInv, Heard, Texts
    <3>2. CASE d # c
      <4> DEFINE r == Heard(d)
      <4>1. received' = received /\ worker'[d].pushed = worker[d].pushed /\ queue'[n].conn # d
        BY <1>2, <1>4, <1>5, <2>3, <3>2
      <4>2. \A i \in DOMAIN queue' : queue'[i].conn = d => i \in DOMAIN queue /\ queue'[i] = queue[i]
        BY <1>5, <4>1
      <4>3. \A i \in DOMAIN queue : i \in DOMAIN queue' /\ queue'[i] = queue[i]
        BY <1>5
      <4>4. /\ r <= worker'[d].pushed
            /\ \A i \in DOMAIN received[d] : /\ OfRead(d, received[d][i]) /\ received[d][i].to <= worker'[d].pushed
                                             /\ received[d][i].from = IF i = 1 THEN 0 ELSE received[d][i - 1].to
            /\ \A i \in DOMAIN queue' : queue'[i].conn = d => r <= queue'[i].from /\ queue'[i].to <= worker'[d].pushed
        BY <3>1, <4>1, <4>2 DEF StreamOf
      <4>5. \A i, j \in DOMAIN queue' : i < j /\ queue'[i].conn = d /\ queue'[j].conn = d =>
              queue'[i].to <= queue'[j].from
        BY <3>1, <4>2 DEF StreamOf
      <4>6. \A k \in (r + 1)..worker'[d].pushed : \E i \in DOMAIN queue' :
              queue'[i].conn = d /\ queue'[i].from < k /\ k <= queue'[i].to
        <5>1. \A k \in (r + 1)..worker[d].pushed : \E i \in DOMAIN queue :
                queue[i].conn = d /\ queue[i].from < k /\ k <= queue[i].to
          BY <3>1 DEF StreamOf
        <5>2. QED
          BY <4>1, <4>3, <5>1
      <4>7. QED
        BY <3>1, <4>4, <4>5, <4>6 DEF StreamOf
    <3>3. CASE d = c
      <4> DEFINE r == Heard(c)
      <4>1. /\ r <= worker'[c].pushed
            /\ \A i \in DOMAIN received[c] : /\ OfRead(c, received[c][i]) /\ received[c][i].to <= worker'[c].pushed
                                             /\ received[c][i].from = IF i = 1 THEN 0 ELSE received[c][i - 1].to
        BY <2>1, <2>2, <2>3, <3>1, <3>3 DEF StreamOf
      <4>2. \A i \in DOMAIN queue' : queue'[i].conn = c => r <= queue'[i].from /\ queue'[i].to <= worker'[c].pushed
        <5>1. \A i \in DOMAIN queue : queue[i].conn = c => /\ r <= queue[i].from /\ queue[i].to <= worker[c].pushed
                                                         /\ queue[i].to \in Nat
          BY <3>1, <3>3, StreamTypes DEF StreamOf
        <5>2. r <= e.from
          BY <2>1, <3>1, <3>3 DEF StreamOf
        <5>3. QED
          BY <1>5, <2>1, <2>2, <2>3, <3>1, <3>3, <5>1, <5>2
      <4>3. \A i, j \in DOMAIN queue' : i < j /\ queue'[i].conn = c /\ queue'[j].conn = c =>
              queue'[i].to <= queue'[j].from
        BY <1>5, <2>1, <3>1, <3>3 DEF StreamOf
      <4>4. ASSUME NEW k \in (r + 1)..(worker'[c].pushed)
            PROVE  \E i \in DOMAIN queue' : queue'[i].conn = c /\ queue'[i].from < k /\ k <= queue'[i].to
        <5>1. CASE k <= worker[c].pushed
          <6>1. k \in (r + 1)..worker[c].pushed
            BY <3>1, <3>3, <5>1
          <6>2. PICK i \in DOMAIN queue : queue[i].conn = c /\ queue[i].from < k /\ k <= queue[i].to
            BY <3>1, <3>3, <6>1 DEF StreamOf
          <6>3. QED
            BY <1>5, <6>2
        <5>2. CASE k > worker[c].pushed
          BY <1>4, <1>5, <2>1, <2>2, <2>3, <5>2
        <5>3. QED
          BY <3>1, <3>3, <5>1, <5>2
      <4>5. QED
        BY <3>1, <3>3, <4>1, <4>2, <4>3, <4>4 DEF StreamOf
    <3>4. QED
      BY <3>2, <3>3
  <2>8. QED
    BY <2>4, <2>5, <2>6, <2>7 DEF StreamInv
<1>7. worker[c].pushed < worker[c].read
  BY <1>3 DEF WorkerPlaced, Workers
<1>8. QED
  BY <1>6, <1>7

\* The object that an event is given to is the one of its connection.
LEMMA OwnObject ==
  ASSUME TypeInv, IdsInv, ObjectsInv, queue # <<>>, NEW e \in Events, e = Head(queue),
         \/ e.id \in DOMAIN connection /\ connection' = connection
         \/ e.id \notin DOMAIN connection /\ connection' = Accepted(e)
  PROVE  connection'[e.id].conn = e.conn
<1>1. 1 \in DOMAIN queue /\ queue[1] = e
  BY DEF TypeInv, MessageTypes
<1>2. Known(e.conn, e.id) /\ e.conn \in Conn
  BY <1>1, EventTypes DEF ObjectsInv
<1>3. CASE e.id \in DOMAIN connection /\ connection' = connection
  <2>1. Known(connection[e.id].conn, e.id) /\ connection[e.id].conn \in Conn
    BY <1>3 DEF ObjectsInv, TypeInv, MessageTypes
  <2>2. QED
    BY <1>2, <1>3, <2>1 DEF Known, IdsInv
<1>4. CASE e.id \notin DOMAIN connection /\ connection' = Accepted(e)
  <2>1. MessageTypes
    BY DEF TypeInv
  <2>2. connection'[e.id] = [conn |-> e.conn, tid |-> e.tid]
    BY <1>4, <2>1, AcceptedTypes
  <2>3. QED
    BY <2>2
<1>5. QED
  BY <1>3, <1>4

LEMMA PopStream == ASSUME TypeInv, StreamInv, Popped PROVE StreamInv'
<1> DEFINE e == Head(queue)
           q == queue'
<1>1. queue # <<>> /\ e \in Events /\ queue' = Tail(queue) /\ PopStep(e)
  BY PopSteps DEF TypeInv
<1>2. UNCHANGED <<acceptor, incr_id, worker>>
  BY DEF Popped, Pop, AcceptRaises, accepting
<1>3. /\ 1 \in DOMAIN queue /\ queue[1] = e
      /\ \A i \in DOMAIN q : i \in Nat /\ i > 0 /\ i + 1 \in DOMAIN queue /\ q[i] = queue[i + 1]
      /\ \A i \in DOMAIN queue : i \in Nat /\ i > 0 /\ (i > 1 => i - 1 \in DOMAIN q)
  <2>1. queue \in Seq(Events)
    BY DEF TypeInv, MessageTypes
  <2>2. QED
    BY <1>1, <2>1, HeadTailProperties
<1>4. IdsInv'
  BY <1>2 DEF StreamInv, IdsInv
<1>5. e.from \in Nat /\ e.to \in Nat
  BY <1>1 DEF Events
<1>6. ReadsInv'
  <2>1. \A i \in DOMAIN q : OfRead(q[i].conn, q[i])
    BY <1>3 DEF StreamInv, ReadsInv
  <2>2. QED
    BY <1>2, <2>1 DEF StreamInv, ReadsInv, OfRead, Kept, Bytes
<1>7. ObjectsInv'
  <2>1. \A i \in DOMAIN q : Known(q[i].conn, q[i].id)
    BY <1>3 DEF StreamInv, ObjectsInv
  <2>2. CASE connection' = connection
    BY <1>2, <2>1, <2>2 DEF StreamInv, ObjectsInv, Known
  <2>3. CASE e.id \notin DOMAIN connection /\ connection' = Accepted(e)
    <3>1. Known(e.conn, e.id)
      BY <1>3 DEF StreamInv, ObjectsInv
    <3>2. ASSUME NEW id \in DOMAIN connection' PROVE Known(connection'[id].conn, id)
      <4>0. MessageTypes
        BY DEF TypeInv
      <4>1. /\ DOMAIN connection' = DOMAIN connection \cup {e.id}
            /\ connection'[e.id] = [conn |-> e.conn, tid |-> e.tid]
            /\ \A i \in DOMAIN connection \ {e.id} : connection'[i] = connection[i]
        <5>1. \A f \in Events : /\ DOMAIN Accepted(f) = DOMAIN connection \cup {f.id}
                               /\ Accepted(f)[f.id] = [conn |-> f.conn, tid |-> f.tid]
                               /\ \A i \in DOMAIN connection \ {f.id} : Accepted(f)[i] = connection[i]
          BY <4>0, AcceptedTypes
        <5>2. QED
          BY <1>1, <2>3, <5>1
      <4>2. CASE id = e.id
        BY <3>1, <4>1, <4>2
      <4>3. CASE id # e.id
        BY <3>2, <4>1, <4>3 DEF StreamInv, ObjectsInv
      <4>4. QED
        BY <4>2, <4>3
    <3>3. QED
      BY <1>2, <2>1, <3>2 DEF ObjectsInv, Known
  <2>4. QED
    BY <1>1, <2>2, <2>3 DEF PopStep
<1>8. ASSUME NEW c \in Conn \ raised' PROVE StreamOf(c)'
  <2> DEFINE r == Heard(c)
             p == worker[c].pushed
  <2>1. StreamOf(c) /\ c \in Conn /\ p \in Nat
    BY <1>1, <1>8, StreamTypes DEF StreamInv, PopStep
  <2>2. received[c] \in Seq(Texts) /\ r \in Nat
    BY StreamTypes DEF TypeInv, MessageTypes
  <2>3. \A i \in DOMAIN queue : queue[i].from \in Nat /\ queue[i].to \in Nat
                                /\ queue[i].from < queue[i].to
    BY StreamTypes DEF StreamInv, ReadsInv, OfRead
  <2>4. \A i, j \in DOMAIN q : i < j /\ q[i].conn = c /\ q[j].conn = c => q[i].to <= q[j].from
    <3>1. ASSUME NEW i \in DOMAIN q, NEW j \in DOMAIN q, i < j PROVE i + 1 < j + 1 /\ i + 1 \in DOMAIN queue /\ j + 1 \in DOMAIN queue
      BY <1>3, <3>1
    <3>2. QED
      BY <1>3, <2>1, <3>1 DEF StreamOf
  <2>5. CASE e.conn # c
    <3>1. received'[c] = received[c]
      <4>1. CASE UNCHANGED <<connection, todo, received, published>>
        BY <4>1
      <4>2. CASE /\ \E o \in Range(connection') : Answered(connection'[e.id], o, e)
                 /\ \/ e.id \in DOMAIN connection /\ connection' = connection
                    \/ e.id \notin DOMAIN connection /\ connection' = Accepted(e)
        <5>1. connection'[e.id].conn = e.conn
          BY <1>1, <4>2, OwnObject DEF StreamInv
        <5>2. received \in [Conn -> Seq(Texts)]
          BY DEF TypeInv, MessageTypes
        <5>3. received' = [received EXCEPT ![e.conn] = Append(@, Text(e))]
          BY <4>2, <5>1 DEF Answered
        <5>4. QED
          BY <2>5, <5>2, <5>3
      <4>3. QED
        BY <1>1, <4>1, <4>2 DEF PopStep
    <3>2. \A i \in DOMAIN q : q[i].conn = c => r <= q[i].from /\ q[i].to <= p
      BY <1>3, <2>1 DEF StreamOf
    <3>3. ASSUME NEW n \in (r + 1)..p
          PROVE  \E i \in DOMAIN q : q[i].conn = c /\ q[i].from < n /\ n <= q[i].to
      <4>1. PICK i \in DOMAIN queue : queue[i].conn = c /\ queue[i].from < n /\ n <= queue[i].to
        BY <2>1 DEF StreamOf
      <4>2. i # 1
        BY <1>3, <2>5, <4>1
      <4>3. i - 1 \in DOMAIN q /\ q[i - 1] = queue[i]
        <5>1. i \in Nat /\ i > 1 /\ i - 1 \in DOMAIN q
          BY <1>3, <4>2
        <5>2. q[i - 1] = queue[(i - 1) + 1] /\ (i - 1) + 1 = i
          BY <1>3, <5>1
        <5>3. QED
          BY <5>1, <5>2
      <4>4. QED
        BY <4>1, <4>3
    <3>4. QED
      BY <1>2, <2>1, <2>4, <3>1, <3>2, <3>3 DEF StreamOf, Heard
  <2>6. CASE e.conn = c
    <3> DEFINE t == e.to
               m == Len(received[c]) + 1
    <3>1. /\ \E o \in Range(connection') : Answered(connection'[e.id], o, e)
          /\ \/ e.id \in DOMAIN connection /\ connection' = connection
             \/ e.id \notin DOMAIN connection /\ connection' = Accepted(e)
      BY <1>1, <1>8, <2>6 DEF PopStep
    <3>2. received'[c] = Append(received[c], Text(e))
      <4>1. connection'[e.id].conn = c
        BY <1>1, <2>6, <3>1, OwnObject DEF StreamInv
      <4>2. received \in [Conn -> Seq(Texts)]
        BY DEF TypeInv, MessageTypes
      <4>3. received' = [received EXCEPT ![c] = Append(@, Text(e))]
        BY <3>1, <4>1 DEF Answered
      <4>4. QED
        BY <4>2, <4>3
    <3>3. e.from \in Nat /\ t \in Nat /\ e.from < t /\ r <= e.from /\ t <= p
      BY <1>3, <2>1, <2>3, <2>6 DEF StreamOf
    <3>4. \A i \in DOMAIN queue : i # 1 /\ queue[i].conn = c => t <= queue[i].from
      BY <1>3, <2>1, <2>6 DEF StreamOf
    <3>5. e.from = r
      <4>1. r + 1 \in (r + 1)..p
        BY <2>1, <2>2, <3>3
      <4>2. PICK i \in DOMAIN queue : queue[i].conn = c /\ queue[i].from < r + 1
        BY <2>1, <4>1 DEF StreamOf
      <4>3. i = 1
        BY <2>2, <2>3, <3>3, <3>4, <4>2
      <4>4. QED
        BY <1>3, <2>2, <3>3, <4>2, <4>3
    <3>6. /\ Heard(c)' = t
          /\ \A i \in DOMAIN received'[c] : /\ OfRead(c, received'[c][i]) /\ received'[c][i].to <= p
                                           /\ received'[c][i].from = IF i = 1 THEN 0 ELSE received'[c][i - 1].to
      <4>1. Text(e) \in Texts /\ Text(e).from = r /\ Text(e).to = t /\ Text(e).buf = e.buf
        BY <1>1, <3>5 DEF Text, Texts, Events
      <4>2. OfRead(c, Text(e))
        BY <1>3, <2>6, <3>5, <4>1 DEF StreamInv, ReadsInv, OfRead
      <4>3. /\ m \in Nat /\ m >= 1 /\ DOMAIN received[c] = 1..(m - 1) /\ Len(received'[c]) = m
            /\ DOMAIN received'[c] = 1..m /\ received'[c][m] = Text(e)
            /\ \A i \in 1..(m - 1) : received'[c][i] = received[c][i]
        BY <2>2, <3>2, <4>1
      <4>4. received'[c] # <<>>
        BY <2>2, <3>2, <4>1
      <4>5. Heard(c)' = t
        BY <4>1, <4>3, <4>4 DEF Heard
      <4>6. r = IF m = 1 THEN 0 ELSE received[c][m - 1].to
        <5>1. received[c] = <<>> <=> m = 1
          BY <2>2
        <5>2. Len(received[c]) = m - 1
          BY <2>2
        <5>3. QED
          BY <5>1, <5>2 DEF Heard
      <4>7. \A i \in 1..(m - 1) : /\ OfRead(c, received[c][i]) /\ received[c][i].to <= p
                                  /\ received[c][i].from = IF i = 1 THEN 0 ELSE received[c][i - 1].to
        BY <2>1, <4>3 DEF StreamOf
      <4>8. ASSUME NEW i \in 1..m
            PROVE  /\ OfRead(c, received'[c][i]) /\ received'[c][i].to <= p
                   /\ received'[c][i].from = IF i = 1 THEN 0 ELSE received'[c][i - 1].to
        <5>1. CASE i = m
          <6>1. i # 1 => received'[c][i - 1] = received[c][m - 1]
            BY <4>3, <5>1
          <6>2. QED
            BY <3>3, <4>1, <4>2, <4>3, <4>6, <5>1, <6>1
        <5>2. CASE i # m
          <6>1. i \in 1..(m - 1) /\ (i # 1 => i - 1 \in 1..(m - 1))
            BY <4>3, <5>2
          <6>2. received'[c][i] = received[c][i] /\ (i # 1 => received'[c][i - 1] = received[c][i - 1])
            BY <4>3, <6>1
          <6>3. QED
            BY <4>7, <6>1, <6>2
        <5>3. QED
          BY <5>1, <5>2
      <4>9. QED
        BY <4>3, <4>5, <4>8
    <3>7. \A i \in DOMAIN q : q[i].conn = c => t <= q[i].from /\ q[i].to <= p
      <4>1. ASSUME NEW i \in DOMAIN q PROVE i + 1 # 1 /\ i + 1 \in DOMAIN queue /\ q[i] = queue[i + 1]
        BY <1>3
      <4>2. QED
        BY <2>1, <3>4, <4>1 DEF StreamOf
    <3>8. ASSUME NEW n \in (t + 1)..p
          PROVE  \E i \in DOMAIN q : q[i].conn = c /\ q[i].from < n /\ n <= q[i].to
      <4>1. n \in (r + 1)..p /\ n > t
        BY <2>1, <2>2, <3>3
      <4>2. PICK i \in DOMAIN queue : queue[i].conn = c /\ queue[i].from < n /\ n <= queue[i].to
        BY <2>1, <4>1 DEF StreamOf
      <4>3. i # 1
        BY <1>3, <3>3, <4>1, <4>2
      <4>4. i - 1 \in DOMAIN q /\ q[i - 1] = queue[i]
        <5>1. i \in Nat /\ i > 1 /\ i - 1 \in DOMAIN q
          BY <1>3, <4>3
        <5>2. q[i - 1] = queue[(i - 1) + 1] /\ (i - 1) + 1 = i
          BY <1>3, <5>1
        <5>3. QED
          BY <5>1, <5>2
      <4>5. QED
        BY <4>2, <4>4
    <3>9. QED
      BY <1>2, <2>4, <3>3, <3>6, <3>7, <3>8 DEF StreamOf
  <2>7. QED
    BY <2>5, <2>6
<1>9. QED
  BY <1>4, <1>6, <1>7, <1>8 DEF StreamInv

LEMMA ThreadStream == ASSUME TypeInv, StreamInv, NEW c \in Conn, Thread(c) PROVE StreamInv'
<1> USE DEF TypeInv
<1>1. CASE \E w \in Workers : Turn(c, w) /\ ThreadStep(c, w) /\ UNCHANGED process
  <2>1. PICK w \in Workers : Turn(c, w) /\ ThreadStep(c, w)
    BY <1>1
  <2>2. worker[c] \in Workers /\ WorkerPlaced(c)
    BY DEF ThreadTypes, PlacesInv
  <2>3. w.id = worker[c].id /\ worker[c].pc # "none" /\ w.pc # "none"
    BY <2>1, ThreadPlaced
  <2>4. /\ worker'[c] = w /\ \A d \in Conn \ {c} : worker'[d] = worker[d]
    BY <2>1, Turning
  <2>5. UNCHANGED <<acceptor, incr_id, connection, received, raised>>
    BY <2>1 DEF ThreadStep, ReceiveChannelPayload, SendData, CloseConnection, EraseSocket, Read, BeginPush, EndPush,
                accepting, script
  <2>6. CASE /\ Read(c) /\ worker[c].read # sent[c] /\ worker[c].pc = "apply"
             /\ w = [worker[c] EXCEPT !.pc = "push", !.read = sent[c], !.buf = Kept(c, worker[c].read, sent[c])]
    <3>1. w.read = sent[c] /\ w.buf = Kept(c, worker[c].read, sent[c]) /\ w.pushed = worker[c].pushed
      BY <2>2, <2>6 DEF Workers
    <3>2. worker[c].pushed = worker[c].read
      BY <2>2, <2>6 DEF WorkerPlaced
    <3>3. QED
      BY <2>1, <2>3, <2>6, <3>1, <3>2, ReadStream
  <2>7. CASE /\ EndPush(c) /\ worker[c].pc = "pushing"
             /\ w = [worker[c] EXCEPT !.pc = "check", !.buf = <<>>, !.pushed = worker[c].read]
    <3>1. w.read = worker[c].read /\ w.pushed = worker[c].read
      BY <2>2, <2>7 DEF Workers
    <3>2. QED
      BY <2>1, <2>3, <2>7, <3>1, PushStream
  <2>8. CASE /\ ReceiveChannelPayload(c) \/ SendData(c) \/ CloseConnection(c) \/ EraseSocket(c) \/ Read(c) \/ BeginPush(c)
             /\ w.buf = worker[c].buf /\ w.read = worker[c].read /\ w.pushed = worker[c].pushed
    <3>1. queue' = queue
      BY <2>8 DEF ReceiveChannelPayload, SendData, CloseConnection, EraseSocket, Read, BeginPush, crossing
    <3>2. QED
      BY <2>3, <2>4, <2>5, <2>8, <3>1, StreamStands
  <2>9. QED
    BY <2>1, <2>2, <2>6, <2>7, <2>8 DEF ThreadStep, Workers
<1>2. CASE process' = "ended" /\ UNCHANGED <<worker, written, resource>> /\ (SendData(c) \/ Read(c))
  <2>1. UNCHANGED <<acceptor, incr_id, queue, connection, received, raised, worker>>
    BY <1>2 DEF SendData, Read, accepting, crossing, script
  <2>2. QED
    BY <2>1, StreamStands
<1>3. QED
  BY <1>1, <1>2, ThreadSteps

LEMMA NextStream ==
  ASSUME TypeInv, StreamInv, NEW l, Listener = {l}, [Next]_vars
  PROVE  StreamInv'
<1>1. ASSUME UNCHANGED <<acceptor, incr_id, queue, connection, received, raised, worker>> PROVE StreamInv'
  BY <1>1, StreamStands
<1>2. CASE \E c \in Conn : Peer(c)
  BY <1>1, <1>2 DEF Peer, accepting, crossing, script
<1>3. CASE \E c \in Conn : Thread(c)
  BY <1>3, ThreadStream
<1>4. CASE \E k \in Listener : Listen(k)
  BY <1>4, ListenStream
<1>5. CASE \E k \in Listener : Error(k)
  BY <1>1, <1>5 DEF Error, accepting, crossing, script
<1>6. CASE Popped
  BY <1>6, PopStream
<1>7. CASE Torn \/ ChannelPublish \/ Prompted
  BY <1>1, <1>7, PromptSteps DEF Torn, ChannelPublish, accepting, crossing, script
<1>8. CASE UNCHANGED vars
  BY <1>1, <1>8 DEF vars, accepting, crossing, script
<1>9. QED
  BY <1>2, <1>3, <1>4, <1>5, <1>6, <1>7, <1>8 DEF Next, Main, Popped, Prompted

\* With one server, the texts that the handler of a connection gets are what was read
\* from it, read after read, each up to its first NUL, whatever number of threads push
\* to the queue.
THEOREM StreamKeptHolds == Spec => []StreamKept
<1>1. CASE Cardinality(Listener) = 1
  <2>1. PICK l : Listener = {l}
    BY <1>1, ServerConstants, FS_Singleton
  <2>2. Init => TypeInv /\ StreamInv
    BY InitTypes, InitStream DEF TypeInv
  <2>3. TypeInv /\ StreamInv /\ [Next]_vars => TypeInv' /\ StreamInv'
    BY <2>1, NextTypes, NextStream
  <2>4. TypeInv /\ StreamInv => StreamKept
    BY StreamFollows
  <2>5. QED
    BY <2>2, <2>3, <2>4, PTL DEF Spec
<1>2. CASE Cardinality(Listener) # 1
  <2>1. StreamKept
    BY <1>2 DEF StreamKept
  <2>2. QED
    BY <2>1, PTL
<1>3. QED
  BY <1>1, <1>2

-----------------------------------------------------------------------------
(* The answers.                                                              *)

\* The thread of d ends without a look into its channel.
Closes(s) == \E i \in DOMAIN s : s[i].event_name = "close_connection"
Doomed(d) == worker[d].pc \in {"erase", "ended"} \/ Closes(worker[d].message)

\* An event, an object, a message: made for a connection that has sent something.
Meant(p) == worker[p.conn].tid = p.tid /\ worker[p.conn].read > 0
MeantInv ==
  /\ \A i \in DOMAIN queue : Meant(queue[i])
  /\ \A id \in DOMAIN connection : Meant(connection[id])
  /\ \A i \in DOMAIN todo : Meant(todo[i])
  /\ \A c \in Conn : worker[c].read = 0 => published[c] = 0

\* A thread that is about to end was told so, unless what ends it is a close that
\* it found in its channel: then it has read nothing, and nothing was sent to it.
DoomInv ==
  /\ \A d \in Conn : Doomed(d) => d \in closed \/ worker[d].read = 0
  /\ \A d \in Running : Closes(channels[worker[d].tid]) =>
       d \in closed \/ (worker[d].pc = "check" /\ worker[d].read = 0)

\* What is sent is in the channel of a thread that will take it, or taken by it.
ChannelInv ==
  /\ \A t \in Tid : \A i \in DOMAIN channels[t] : channels[t][i].n # 0 =>
       LET d == channels[t][i].conn
       IN  d \in Running /\ ~Doomed(d) /\ worker[d].tid = t
  /\ \A c \in Conn : \A i \in DOMAIN worker[c].message :
       worker[c].message[i].n # 0 => worker[c].message[i].conn = c
  /\ \A c \in Conn : \A i \in DOMAIN written[c] :
       written[c][i].n # 0 => written[c][i].conn = c /\ written[c][i].event_name # "close_connection"

\* The answers to c in s are those numbered a+1 to b, in order.
Own(p, c) == p.event_name # "close_connection" /\ p.conn = c /\ p.n # 0
Counts(s, c, a, b) ==
  /\ a <= b
  /\ \A i \in DOMAIN s : Own(s[i], c) => a < s[i].n /\ s[i].n <= b
  /\ \A i, j \in DOMAIN s : i < j /\ Own(s[i], c) /\ Own(s[j], c) => s[i].n < s[j].n
  /\ \A n \in (a + 1)..b : \E i \in DOMAIN s : Own(s[i], c) /\ s[i].n = n

\* Written, taken, in the channel, still to publish: the answers follow each other.
Numbered(c, j, k, m) ==
  /\ j <= k /\ k <= m /\ m <= published[c]
  /\ Counts(written[c], c, 0, j)
  /\ Live(c) => Counts(worker[c].message, c, j, k) /\ Counts(channels[worker[c].tid], c, k, m)
  /\ c \notin closed => Counts(todo, c, m, published[c])
NumbersInv == \A c \in Conn : \E j, k, m \in 0..published[c] : Numbered(c, j, k, m)

AnswersInv == MeantInv /\ DoomInv /\ ChannelInv /\ NumbersInv

LEMMA CountsNone ==
  ASSUME NEW c, NEW a \in Nat, NEW b \in Nat
  PROVE  Counts(<<>>, c, a, a) /\ (Counts(<<>>, c, a, b) => a = b)
<1>1. DOMAIN <<>> = {}
  OBVIOUS
<1>2. Counts(<<>>, c, a, a)
  BY <1>1 DEF Counts
<1>3. ASSUME Counts(<<>>, c, a, b) PROVE a = b
  <2>1. a <= b /\ \A n \in (a + 1)..b : FALSE
    BY <1>1, <1>3 DEF Counts
  <2>2. a + 1 \notin (a + 1)..b
    BY <2>1
  <2>3. QED
    BY <2>1, <2>2
<1>4. QED
  BY <1>2, <1>3

LEMMA CountsOne ==
  ASSUME NEW c, NEW p, NEW x, NEW a \in Nat, Own(p, c), p.n = a + 1, ~Own(x, c)
  PROVE  Counts(<<p>>, c, a, a + 1) /\ Counts(<<p, x>>, c, a, a + 1)
<1>1. \A n \in (a + 1)..(a + 1) : n = a + 1
  OBVIOUS
<1>2. Counts(<<p>>, c, a, a + 1)
  <2>1. DOMAIN <<p>> = {1} /\ <<p>>[1] = p
    OBVIOUS
  <2>2. QED
    BY <1>1, <2>1 DEF Counts
<1>3. Counts(<<p, x>>, c, a, a + 1)
  <2>1. DOMAIN <<p, x>> = {1, 2} /\ <<p, x>>[1] = p /\ <<p, x>>[2] = x
    OBVIOUS
  <2>2. \A i \in DOMAIN <<p, x>> : Own(<<p, x>>[i], c) => i = 1
    BY <2>1
  <2>3. QED
    BY <1>1, <2>1, <2>2 DEF Counts
<1>4. QED
  BY <1>2, <1>3

LEMMA CountsAppend ==
  ASSUME NEW c, NEW s \in Seq(Payloads), NEW x \in Payloads, NEW a \in Nat, NEW b \in Nat, Counts(s, c, a, b)
  PROVE  /\ ~Own(x, c) => Counts(Append(s, x), c, a, b)
         /\ Own(x, c) /\ x.n = b + 1 => Counts(Append(s, x), c, a, b + 1)
<1> DEFINE z == Append(s, x)
           l == Len(s) + 1
<1>1. /\ DOMAIN z = 1..l /\ DOMAIN s = 1..(l - 1) /\ l \in Nat /\ l >= 1
      /\ z[l] = x /\ \A i \in 1..(l - 1) : z[i] = s[i] /\ s[i].n \in Nat
  <2>1. Len(s) \in Nat /\ DOMAIN s = 1..Len(s) /\ \A i \in 1..Len(s) : s[i] \in Payloads
    BY LenProperties, ElementOfSeq
  <2>2. QED
    BY <2>1, AppendProperties DEF Payloads
<1>2. /\ \A i \in 1..(l - 1) : Own(s[i], c) => a < s[i].n /\ s[i].n <= b
      /\ \A i, j \in 1..(l - 1) : i < j /\ Own(s[i], c) /\ Own(s[j], c) => s[i].n < s[j].n
      /\ \A n \in (a + 1)..b : \E i \in 1..(l - 1) : Own(s[i], c) /\ s[i].n = n
      /\ a <= b
  BY <1>1 DEF Counts
<1>3. ASSUME ~Own(x, c) PROVE Counts(z, c, a, b)
  <2>1. \A i \in 1..l : Own(z[i], c) => i \in 1..(l - 1)
    BY <1>1, <1>3
  <2>2. \A i \in 1..(l - 1) : i \in 1..l
    BY <1>1
  <2>3. QED
    BY <1>1, <1>2, <2>1, <2>2 DEF Counts
<1>4. ASSUME Own(x, c), x.n = b + 1 PROVE Counts(z, c, a, b + 1)
  <2>1. \A i \in 1..l : Own(z[i], c) => a < z[i].n /\ z[i].n <= b + 1
    BY <1>1, <1>2, <1>4
  <2>2. ASSUME NEW i \in 1..l, NEW j \in 1..l, i < j, Own(z[i], c), Own(z[j], c) PROVE z[i].n < z[j].n
    <3>1. i \in 1..(l - 1) /\ (j = l \/ j \in 1..(l - 1))
      BY <1>1, <2>2
    <3>2. z[i] = s[i] /\ s[i].n <= b /\ s[i].n \in Nat
      BY <1>1, <1>2, <2>2, <3>1
    <3>3. CASE j = l
      BY <1>1, <1>4, <3>2, <3>3
    <3>4. CASE j \in 1..(l - 1)
      BY <1>1, <1>2, <2>2, <3>1, <3>4
    <3>5. QED
      BY <3>1, <3>3, <3>4
  <2>3. ASSUME NEW n \in (a + 1)..(b + 1) PROVE \E i \in 1..l : Own(z[i], c) /\ z[i].n = n
    <3>1. CASE n = b + 1
      BY <1>1, <1>4, <3>1
    <3>2. CASE n # b + 1
      <4>1. n \in (a + 1)..b
        BY <3>2
      <4>2. PICK i \in 1..(l - 1) : Own(s[i], c) /\ s[i].n = n
        BY <1>2, <4>1
      <4>3. QED
        BY <1>1, <4>2
    <3>3. QED
      BY <3>1, <3>2
  <2>4. a <= b + 1 /\ DOMAIN z = 1..l
    BY <1>1, <1>2
  <2>5. QED
    BY <2>1, <2>2, <2>3, <2>4 DEF Counts
<1>5. QED
  BY <1>3, <1>4

LEMMA CountsTail ==
  ASSUME NEW c, NEW s \in Seq(Payloads), s # <<>>, NEW a \in Nat, NEW b \in Nat, Counts(s, c, a, b)
  PROVE  /\ ~Own(Head(s), c) => Counts(Tail(s), c, a, b)
         /\ Own(Head(s), c) => Head(s).n = a + 1 /\ a + 1 <= b /\ Counts(Tail(s), c, a + 1, b)
<1> DEFINE z == Tail(s)
           x == Head(s)
<1>1. /\ 1 \in DOMAIN s /\ s[1] = x
      /\ \A i \in DOMAIN z : i \in Nat /\ i > 0 /\ i + 1 \in DOMAIN s /\ z[i] = s[i + 1]
      /\ \A i \in DOMAIN s : i \in Nat /\ i > 0 /\ s[i].n \in Nat /\ (i > 1 => i - 1 \in DOMAIN z /\ z[i - 1] = s[i])
  <2>1. /\ 1 \in DOMAIN s /\ s[1] = x /\ DOMAIN s = 1..Len(s) /\ DOMAIN z = 1..(Len(s) - 1) /\ Len(s) \in Nat
        /\ \A i \in 1..(Len(s) - 1) : z[i] = s[i + 1]
        /\ \A i \in 1..Len(s) : s[i] \in Payloads
    BY HeadTailProperties, LenProperties, ElementOfSeq
  <2>2. ASSUME NEW i \in 1..Len(s), i > 1 PROVE i - 1 \in 1..(Len(s) - 1) /\ z[i - 1] = s[i]
    <3>1. i - 1 \in 1..(Len(s) - 1) /\ (i - 1) + 1 = i
      BY <2>1, <2>2
    <3>2. QED
      BY <2>1, <3>1
  <2>3. QED
    BY SMTT(30), <2>1, <2>2 DEF Payloads
<1>2. /\ a <= b
      /\ \A i \in DOMAIN z : Own(z[i], c) => a < z[i].n /\ z[i].n <= b
      /\ \A i, j \in DOMAIN z : i < j /\ Own(z[i], c) /\ Own(z[j], c) => z[i].n < z[j].n
  <2>1. \A i, j \in DOMAIN z : i < j => i + 1 < j + 1
    BY <1>1
  <2>2. QED
    BY <1>1, <2>1 DEF Counts
<1>3. ASSUME ~Own(x, c) PROVE Counts(z, c, a, b)
  <2>1. ASSUME NEW n \in (a + 1)..b PROVE \E i \in DOMAIN z : Own(z[i], c) /\ z[i].n = n
    <3>1. PICK i \in DOMAIN s : Own(s[i], c) /\ s[i].n = n
      BY DEF Counts
    <3>2. i - 1 \in DOMAIN z /\ z[i - 1] = s[i]
      BY <1>1, <1>3, <3>1
    <3>3. QED
      BY <3>1, <3>2
  <2>2. QED
    BY <1>2, <2>1 DEF Counts
<1>4. ASSUME Own(x, c) PROVE x.n = a + 1 /\ a + 1 <= b /\ Counts(z, c, a + 1, b)
  <2>1. a < x.n /\ x.n <= b /\ x.n \in Nat
    BY <1>1, <1>4 DEF Counts
  <2>2. \A i \in DOMAIN s : i # 1 /\ Own(s[i], c) => x.n < s[i].n
    BY <1>1, <1>4 DEF Counts
  <2>3. x.n = a + 1
    <3>1. a + 1 \in (a + 1)..b
      BY <2>1
    <3>2. PICK i \in DOMAIN s : Own(s[i], c) /\ s[i].n = a + 1
      BY <3>1 DEF Counts
    <3>3. i = 1
      BY <2>1, <2>2, <3>2
    <3>4. QED
      BY <1>1, <3>2, <3>3
  <2>4. \A i \in DOMAIN z : Own(z[i], c) => a + 1 < z[i].n
    BY <1>1, <2>2, <2>3
  <2>5. ASSUME NEW n \in (a + 1 + 1)..b PROVE \E i \in DOMAIN z : Own(z[i], c) /\ z[i].n = n
    <3>1. n \in (a + 1)..b /\ n # a + 1
      OBVIOUS
    <3>2. PICK i \in DOMAIN s : Own(s[i], c) /\ s[i].n = n
      BY <3>1 DEF Counts
    <3>3. i # 1
      BY <1>1, <2>3, <3>1, <3>2
    <3>4. i - 1 \in DOMAIN z /\ z[i - 1] = s[i]
      BY <1>1, <3>3
    <3>5. QED
      BY <3>2, <3>4
  <2>6. QED
    BY <1>2, <2>1, <2>3, <2>4, <2>5 DEF Counts
<1>5. QED
  BY <1>3, <1>4

\* A message that goes from the head of one sequence to the end of another.
LEMMA CountsMove ==
  ASSUME NEW c, NEW s \in Seq(Payloads), NEW t \in Seq(Payloads), t # <<>>, NEW x \in Payloads,
         Own(x, c) <=> Own(Head(t), c), Own(x, c) => x.n = Head(t).n,
         NEW a \in Nat, NEW b \in Nat, NEW d \in Nat, Counts(s, c, a, b), Counts(t, c, b, d)
  PROVE  \E m \in b..d : Counts(Append(s, x), c, a, m) /\ Counts(Tail(t), c, m, d)
<1>1. CASE Own(x, c)
  <2>1. Head(t).n = b + 1 /\ b + 1 <= d /\ Counts(Tail(t), c, b + 1, d)
    BY <1>1, CountsTail
  <2>2. Counts(Append(s, x), c, a, b + 1)
    BY <1>1, <2>1, CountsAppend
  <2>3. b + 1 \in b..d
    BY <2>1
  <2>4. QED
    BY <2>1, <2>2, <2>3
<1>2. CASE ~Own(x, c)
  <2>1. Counts(Tail(t), c, b, d) /\ Counts(Append(s, x), c, a, b)
    BY <1>2, CountsTail, CountsAppend
  <2>2. b \in b..d
    BY DEF Counts
  <2>3. QED
    BY <2>1, <2>2
<1>3. QED
  BY <1>1, <1>2

\* The numbers before the answer n are those of all the answers before it.
\* Whether write takes a message whole does not matter to its number.
LEMMA CountsAlike ==
  ASSUME NEW c, NEW a \in Nat, NEW b \in Nat, NEW s, NEW t, DOMAIN s = DOMAIN t, Counts(s, c, a, b),
         \A i \in DOMAIN s : s[i].n = t[i].n /\ (Own(s[i], c) <=> Own(t[i], c))
  PROVE  Counts(t, c, a, b)
BY DEF Counts

LEMMA AnswersFollow == ASSUME TypeInv, AnswersInv PROVE AnswersInOrder
<1> SUFFICES ASSUME NEW c \in Conn, NEW i \in DOMAIN written[c], written[c][i].n # 0
             PROVE  /\ written[c][i].conn = c
                    /\ {written[c][j].n : j \in 1..(i - 1)} \ {0} = 1..(written[c][i].n - 1)
  BY DEF AnswersInOrder
<1> DEFINE s == written[c]
           n == s[i].n
<1>1. /\ DOMAIN s = 1..Len(s) /\ Len(s) \in Nat /\ \A j \in DOMAIN s : s[j].n \in Nat
  <2>1. s \in Seq(Payloads)
    BY DEF TypeInv, MessageTypes
  <2>2. \A j \in DOMAIN s : s[j] \in Payloads
    BY <2>1, ElementOfSeq, LenProperties
  <2>3. QED
    BY <2>1, <2>2, LenProperties DEF Payloads
<1>2. \A j \in DOMAIN s : s[j].n # 0 => Own(s[j], c)
  BY DEF AnswersInv, ChannelInv, Own
<1>3. PICK m \in Nat : Counts(s, c, 0, m)
  <2>1. published[c] \in Nat
    BY DEF TypeInv, MessageTypes
  <2>2. QED
    BY <2>1 DEF AnswersInv, NumbersInv, Numbered
<1>4. ASSUME NEW k \in 1..(n - 1) PROVE k \in {s[j].n : j \in 1..(i - 1)} \ {0}
  <2>1. k \in (0 + 1)..m /\ n <= m
    BY <1>1, <1>2, <1>3 DEF Counts
  <2>2. PICK j \in DOMAIN s : Own(s[j], c) /\ s[j].n = k
    BY <1>3, <2>1 DEF Counts
  <2>3. j < i
    <3>1. j # i
      BY <1>1, <2>2
    <3>2. i < j => n < k
      <4>1. Own(s[i], c)
        BY <1>2
      <4>2. \A a, b \in DOMAIN s : a < b /\ Own(s[a], c) /\ Own(s[b], c) => s[a].n < s[b].n
        BY <1>3 DEF Counts
      <4>3. QED
        BY <2>2, <4>1, <4>2
    <3>3. QED
      BY <1>1, <3>1, <3>2
  <2>4. j \in 1..(i - 1) /\ k # 0
    BY <1>1, <2>3
  <2>5. QED
    BY <2>2, <2>4
<1>5. ASSUME NEW j \in 1..(i - 1), s[j].n # 0 PROVE s[j].n \in 1..(n - 1)
  <2>1. j \in DOMAIN s /\ j < i
    BY <1>1
  <2>2. s[j].n < n
    BY <1>2, <1>3, <1>5, <2>1 DEF Counts
  <2>3. QED
    BY <1>1, <1>5, <2>1, <2>2
<1>6. s[i].conn = c
  BY <1>2 DEF Own
<1>7. QED
  BY <1>4, <1>5, <1>6

LEMMA InitAnswers == Init => AnswersInv
<1> SUFFICES ASSUME Init PROVE AnswersInv
  OBVIOUS
<1>1. MeantInv
  BY DEF Init, MeantInv
<1>2. DoomInv /\ ChannelInv
  BY DEF Init, DoomInv, ChannelInv, Doomed, Closes, Running
<1>3. ASSUME NEW c \in Conn PROVE Numbered(c, 0, 0, 0)
  <2>1. published[c] = 0 /\ written[c] = <<>> /\ todo = <<>> /\ ~Live(c)
    BY DEF Init, Live
  <2>2. Counts(<<>>, c, 0, 0)
    BY CountsNone
  <2>3. QED
    BY <2>1, <2>2 DEF Numbered
<1>4. \A c \in Conn : 0 \in 0..published[c]
  BY DEF Init
<1>5. NumbersInv
  BY <1>3, <1>4 DEF NumbersInv
<1>6. QED
  BY <1>1, <1>2, <1>5 DEF AnswersInv

LEMMA MeantTypes ==
  ASSUME TypeInv
  PROVE  /\ \A i \in DOMAIN queue : queue[i].conn \in Conn
         /\ \A id \in DOMAIN connection : connection[id].conn \in Conn
         /\ \A i \in DOMAIN todo : todo[i].conn \in Conn
         /\ \A c \in Conn : worker[c].read \in Nat
<1>1. \A i \in DOMAIN queue : queue[i].conn \in Conn
  BY EventTypes
<1>2. \A id \in DOMAIN connection : connection[id].conn \in Conn
  BY DEF TypeInv, MessageTypes
<1>3. \A i \in DOMAIN todo : todo[i].conn \in Conn
  <2>1. todo \in Seq(Payloads)
    BY DEF TypeInv, MessageTypes
  <2>2. \A i \in DOMAIN todo : todo[i] \in Payloads
    BY <2>1, ElementOfSeq, LenProperties
  <2>3. QED
    BY <2>2 DEF Payloads
<1>4. \A c \in Conn : worker[c].read \in Nat
  BY DEF TypeInv, ThreadTypes, Workers
<1>5. QED
  BY <1>1, <1>2, <1>3, <1>4

LEMMA MeantStands ==
  ASSUME TypeInv, MeantInv, UNCHANGED <<queue, connection, todo, published>>,
         \A c \in Conn : /\ worker[c].read > 0 => worker'[c].tid = worker[c].tid
                         /\ worker'[c].read \in Nat /\ worker[c].read <= worker'[c].read
  PROVE  MeantInv'
<1>1. \A c \in Conn : worker[c].read \in Nat /\ (worker[c].read > 0 => worker'[c].read > 0)
  BY MeantTypes
<1>2. QED
  BY <1>1, MeantTypes DEF MeantInv, Meant

\* Steps of a thread that neither take from its channel nor write.
LEMMA TurnAnswers ==
  ASSUME TypeInv, AnswersInv, NEW c \in Conn, NEW w \in Workers, Turn(c, w), MeantInv',
         UNCHANGED <<channels, todo, published, closed, written>>,
         w.tid = worker[c].tid, worker[c].pc \notin {"none", "check", "ended"},
         \/ /\ Live(c) /\ w.pc \notin {"none", "erase", "ended"} /\ w.message = worker[c].message
            /\ Closes(worker[c].message) => w.read = worker[c].read
         \/ /\ w.pc \in {"erase", "ended"} /\ w.message = <<>> /\ w.read = worker[c].read
            /\ Closes(worker[c].message) \/ worker[c].pc = "erase"
  PROVE  AnswersInv'
<1>1. /\ worker'[c] = w /\ \A d \in Conn \ {c} : worker'[d] = worker[d]
  BY Turning DEF TypeInv
<1>2. \A d \in Conn : Doomed(d)' <=> Doomed(d)
  <2>1. \A d \in Conn \ {c} : Doomed(d)' <=> Doomed(d)
    BY <1>1 DEF Doomed
  <2>2. Doomed(c)' <=> Doomed(c)
    BY <1>1 DEF Doomed, Live
  <2>3. QED
    BY <2>1, <2>2
<1>3. \A d \in Conn : worker'[d].tid = worker[d].tid /\ (d \in Running' => d \in Running)
  BY <1>1 DEF Running
<1>4. \A d \in Running : ~Doomed(d) => d \in Running'
  BY <1>1 DEF Running, Doomed
<1>5. DoomInv'
  <2>1. \A d \in Conn : Doomed(d) => worker'[d].read = worker[d].read
    BY <1>1 DEF Doomed, Live
  <2>2. \A d \in Conn : worker[d].pc = "check" => worker'[d] = worker[d]
    BY <1>1
  <2>3. \A d \in Conn : Doomed(d)' => d \in closed \/ worker'[d].read = 0
    BY <1>2, <2>1 DEF AnswersInv, DoomInv
  <2>4. \A d \in Running' : Closes(channels[worker'[d].tid]) => d \in closed \/ (worker'[d].pc = "check" /\ worker'[d].read = 0)
    BY <1>3, <2>2 DEF AnswersInv, DoomInv, Running
  <2>5. QED
    BY <2>3, <2>4 DEF DoomInv
<1>6. ChannelInv'
  <2>1. \A t \in Tid : \A i \in DOMAIN channels[t] : channels[t][i].n # 0 =>
          LET d == channels[t][i].conn
          IN  d \in Running' /\ ~Doomed(d)' /\ worker'[d].tid = t
    BY <1>2, <1>3, <1>4 DEF AnswersInv, ChannelInv, Running
  <2>2. \A d \in Conn : \A i \in DOMAIN worker'[d].message : worker'[d].message[i].n # 0 => worker'[d].message[i].conn = d
    <3>1. \A d \in Conn : worker'[d].message = worker[d].message \/ worker'[d].message = <<>>
      BY <1>1
    <3>2. QED
      BY <3>1 DEF AnswersInv, ChannelInv
  <2>3. QED
    BY <2>1, <2>2 DEF AnswersInv, ChannelInv
<1>7. NumbersInv'
  <2>1. \A d \in Conn : Live(d)' => Live(d) /\ worker'[d].message = worker[d].message
    BY <1>1 DEF Live
  <2>2. \A d \in Conn : \A j, k, m \in 0..published[d] : Numbered(d, j, k, m) => Numbered(d, j, k, m)'
    BY <1>3, <2>1 DEF Numbered
  <2>3. QED
    BY <2>2 DEF AnswersInv, NumbersInv
<1>8. QED
  BY <1>5, <1>6, <1>7 DEF AnswersInv

\* Steps that leave the threads of the connections, and what is sent to them, alone.
LEMMA AnswersStand ==
  ASSUME TypeInv, AnswersInv, UNCHANGED <<worker, queue, connection, channels, todo, published, closed, written>>
  PROVE  AnswersInv'
BY DEF AnswersInv, MeantInv, Meant, DoomInv, Doomed, ChannelInv, NumbersInv, Numbered, Live, Running

\* A thread takes its channel.
LEMMA ReceiveAnswers ==
  ASSUME TypeInv, AnswersInv, NEW c \in Conn, NEW w \in Workers, Turn(c, w), ReceiveChannelPayload(c), MeantInv',
         worker[c].pc = "check", w.pc = "apply", w.tid = worker[c].tid, w.read = worker[c].read,
         w.message = channels[worker[c].tid]
  PROVE  AnswersInv'
<1> DEFINE t == worker[c].tid
<1>1. /\ worker'[c] = w /\ \A d \in Conn \ {c} : worker'[d] = worker[d]
  BY Turning DEF TypeInv
<1>2. UNCHANGED <<todo, published, closed, written>>
  BY DEF ReceiveChannelPayload, script
<1>3. worker[c].message = <<>> /\ t \in Tid /\ c \in Running
  BY DEF TypeInv, PlacesInv, WorkerPlaced, Running
<1>4. /\ channels'[t] = <<>> /\ \A u \in Tid \ {t} : channels'[u] = channels[u]
  BY <1>3 DEF ReceiveChannelPayload, TypeInv, MessageTypes
<1>5. \A d \in Running : d # c => worker[d].tid # t
  BY <1>3 DEF TypeInv, PlacesInv, TidsDiffer
<1>6. Running' = Running /\ \A d \in Conn : worker'[d].tid = worker[d].tid /\ (Live(d)' <=> Live(d))
  BY <1>1 DEF Running, Live
<1>7. \A d \in Running : worker[d].tid \in Tid
  BY DEF TypeInv, PlacesInv, WorkerPlaced, Running
<1>8. DoomInv'
  <2>1. ASSUME NEW d \in Conn, Doomed(d)' PROVE d \in closed \/ worker'[d].read = 0
    <3>1. CASE d # c
      BY <1>1, <2>1, <3>1 DEF Doomed, AnswersInv, DoomInv
    <3>2. CASE d = c
      <4>1. Closes(channels[t])
        BY <1>1, <2>1, <3>2 DEF Doomed
      <4>2. QED
        BY <1>1, <1>3, <3>2, <4>1 DEF AnswersInv, DoomInv
    <3>3. QED
      BY <3>1, <3>2
  <2>2. ASSUME NEW d \in Running', Closes(channels'[worker'[d].tid])
        PROVE  d \in closed \/ (worker'[d].pc = "check" /\ worker'[d].read = 0)
    <3>1. d # c
      BY <1>4, <1>6, <2>2 DEF Closes
    <3>2. worker'[d] = worker[d] /\ d \in Conn /\ d \in Running
      BY <1>1, <1>6, <3>1 DEF Running
    <3>3. channels'[worker'[d].tid] = channels[worker[d].tid]
      <4>1. worker[d].tid \in Tid /\ worker[d].tid # t
        BY <1>5, <1>7, <3>1, <3>2
      <4>2. QED
        BY <1>4, <3>2, <4>1
    <3>4. QED
      BY <1>6, <2>2, <3>2, <3>3 DEF AnswersInv, DoomInv
  <2>3. QED
    BY <1>2, <2>1, <2>2 DEF DoomInv
<1>9. ChannelInv'
  <2>1. ASSUME NEW u \in Tid, NEW i \in DOMAIN channels'[u], channels'[u][i].n # 0
        PROVE  LET d == channels'[u][i].conn
               IN  /\ d \in Running' /\ worker'[d].tid = u
                   /\ worker'[d].pc \notin {"erase", "ended"} /\ ~Closes(worker'[d].message)
    <3> DEFINE d == channels[u][i].conn
    <3>1. u # t /\ channels'[u] = channels[u]
      BY <1>4, <2>1
    <3>2. d \in Running /\ ~Doomed(d) /\ worker[d].tid = u
      BY <2>1, <3>1 DEF AnswersInv, ChannelInv
    <3>3. worker'[d] = worker[d]
      BY <1>1, <3>1, <3>2 DEF Running
    <3>4. QED
      BY <1>6, <3>1, <3>2, <3>3 DEF Doomed
  <2>2. ASSUME NEW d \in Conn, NEW i \in DOMAIN worker'[d].message, worker'[d].message[i].n # 0
        PROVE  worker'[d].message[i].conn = d
    <3>1. CASE d # c
      BY <1>1, <2>2, <3>1 DEF AnswersInv, ChannelInv
    <3>2. CASE d = c
      <4>1. channels[t][i].conn \in Running /\ worker[channels[t][i].conn].tid = t
        BY <1>1, <1>3, <2>2, <3>2 DEF AnswersInv, ChannelInv
      <4>2. QED
        BY <1>1, <1>5, <3>2, <4>1
    <3>3. QED
      BY <3>1, <3>2
  <2>3. QED
    BY <1>2, <2>1, <2>2 DEF AnswersInv, ChannelInv, Doomed
<1>10. NumbersInv'
  <2>1. ASSUME NEW d \in Conn PROVE \E j, k, m \in 0..published[d] : Numbered(d, j, k, m)'
    <3>1. PICK j \in 0..published[d], k \in 0..published[d], m \in 0..published[d] : Numbered(d, j, k, m)
      BY DEF AnswersInv, NumbersInv
    <3>2. CASE d # c
      <4>1. Live(d) => channels'[worker[d].tid] = channels[worker[d].tid] /\ worker'[d] = worker[d]
        BY <1>1, <1>4, <1>5, <1>7, <3>2 DEF Live, Running
      <4>2. Numbered(d, j, k, m)'
        BY <1>2, <1>6, <3>1, <4>1 DEF Numbered
      <4>3. QED
        BY <4>2
    <3>3. CASE d = c
      <4>1. j \in Nat /\ k \in Nat /\ m \in Nat
        <5>1. published[d] \in Nat
          BY DEF TypeInv, MessageTypes
        <5>2. QED
          BY <5>1
      <4>2. j = k /\ Counts(channels[t], c, k, m)
        <5>1. Counts(<<>>, c, j, k) /\ Counts(channels[t], c, k, m)
          BY <1>3, <3>1, <3>3 DEF Numbered, Live
        <5>2. QED
          BY <4>1, <5>1, CountsNone
      <4>3. Counts(<<>>, c, m, m)
        BY <4>1, CountsNone
      <4>4. m <= m
        BY <4>1
      <4>5. Numbered(c, j, m, m)'
        BY <1>1, <1>2, <1>4, <3>1, <3>3, <4>2, <4>3, <4>4 DEF Numbered
      <4>6. QED
        BY <3>3, <4>5
    <3>4. QED
      BY <3>2, <3>3
  <2>2. QED
    BY <1>2, <2>1 DEF NumbersInv
<1>11. QED
  BY <1>8, <1>9, <1>10 DEF AnswersInv

\* A thread writes an answer.
LEMMA SendAnswers ==
  ASSUME TypeInv, AnswersInv, NEW c \in Conn, NEW w \in Workers, Turn(c, w), SendData(c), MeantInv',
         worker[c].pc = "apply", worker[c].message # <<>>, process' = process,
         w.pc = "apply", w.tid = worker[c].tid, w.read = worker[c].read, w.message = Tail(worker[c].message)
  PROVE  AnswersInv'
<1> DEFINE s == worker[c].message
           len == Len(written[c]) + 1
<1>1. /\ worker'[c] = w /\ \A d \in Conn \ {c} : worker'[d] = worker[d]
  BY Turning DEF TypeInv
<1>2. UNCHANGED <<channels, todo, published, closed>>
  BY DEF SendData, script
<1>3. s \in Seq(Payloads) /\ Head(s) \in Payloads /\ Head(s) = s[1] /\ 1 \in DOMAIN s
  <2>1. worker[c] \in Workers
    BY DEF TypeInv, ThreadTypes
  <2>2. s \in Seq(Payloads)
    BY <2>1 DEF Workers
  <2>3. QED
    BY <2>2
<1>4. PICK h \in Payloads :
        /\ Head(s).event_name = "send_data" /\ h.event_name \in {"whole", "short"}
        /\ h.conn = Head(s).conn /\ h.n = Head(s).n
        /\ written'[c] = Append(written[c], h) /\ \A d \in Conn \ {c} : written'[d] = written[d]
        /\ written[c] \in Seq(Payloads)
  <2>1. written \in [Conn -> Seq(Payloads)]
    BY DEF TypeInv, MessageTypes
  <2>2. worker' # worker
    <3>1. worker[c].message # w.message
      <4>1. Len(Tail(s)) = Len(s) - 1 /\ Len(s) \in Nat
        BY <1>3, HeadTailProperties, LenProperties
      <4>2. Len(Tail(s)) # Len(s)
        BY <4>1
      <4>3. QED
        BY <4>2, Zenon
    <3>2. QED
      BY <1>1, <3>1
  <2>3. PICK fate \in {"whole", "short"} : written' = [written EXCEPT ![c] = Append(@, Written(c, fate))]
    BY <2>2 DEF SendData, Written
  <2>4. Head(s).event_name = "send_data"
    BY DEF SendData, Message
  <2>5. /\ Written(c, fate) \in Payloads /\ Written(c, fate).event_name \in {"whole", "short"}
        /\ Written(c, fate).conn = Head(s).conn /\ Written(c, fate).n = Head(s).n
    BY <1>3 DEF Written, Message, Payloads
  <2>6. QED
    BY <2>1, <2>3, <2>4, <2>5
<1>5. \A i \in DOMAIN Tail(s) : i + 1 \in DOMAIN s /\ Tail(s)[i] = s[i + 1]
  <2>1. /\ DOMAIN s = 1..Len(s) /\ DOMAIN Tail(s) = 1..(Len(s) - 1) /\ Len(s) \in Nat
        /\ \A i \in 1..(Len(s) - 1) : Tail(s)[i] = s[i + 1]
    BY <1>3, HeadTailProperties, LenProperties
  <2>2. QED
    BY <2>1
<1>6. Running' = Running /\ \A d \in Conn : worker'[d].tid = worker[d].tid /\ (Live(d)' <=> Live(d))
  BY <1>1 DEF Running, Live
<1>7. \A d \in Conn : Doomed(d)' => Doomed(d)
  <2>1. \A d \in Conn \ {c} : Doomed(d)' => Doomed(d)
    BY <1>1 DEF Doomed
  <2>2. Doomed(c)' => Doomed(c)
    BY ZenonT(30), <1>1, <1>5 DEF Doomed, Closes
  <2>3. QED
    BY <2>1, <2>2
<1>8. DoomInv'
  <2>1. \A d \in Conn : worker'[d].read = worker[d].read
    BY <1>1
  <2>2. \A d \in Running : d \in Conn /\ (worker[d].pc = "check" => worker'[d].pc = "check")
    BY <1>1 DEF Running
  <2>3. QED
    BY <1>2, <1>6, <1>7, <2>1, <2>2 DEF AnswersInv, DoomInv
<1>9. ChannelInv'
  <2>1. ASSUME NEW u \in Tid, NEW i \in DOMAIN channels[u], channels[u][i].n # 0
        PROVE  LET d == channels[u][i].conn
               IN  /\ d \in Running' /\ worker'[d].tid = u
                   /\ worker'[d].pc \notin {"erase", "ended"} /\ ~Closes(worker'[d].message)
    <3>1. PICK d \in Running : d = channels[u][i].conn /\ ~Doomed(d) /\ worker[d].tid = u
      BY <2>1 DEF AnswersInv, ChannelInv
    <3>2. d \in Conn /\ ~Doomed(d)'
      BY <1>7, <3>1 DEF Running
    <3>3. QED
      BY <1>6, <3>1, <3>2 DEF Doomed
  <2>2. ASSUME NEW d \in Conn, NEW i \in DOMAIN worker'[d].message, worker'[d].message[i].n # 0
        PROVE  worker'[d].message[i].conn = d
    <3>1. CASE d # c
      BY <1>1, <2>2, <3>1 DEF AnswersInv, ChannelInv
    <3>2. CASE d = c
      <4>1. i + 1 \in DOMAIN s /\ worker'[c].message[i] = s[i + 1]
        BY <1>1, <1>5, <2>2, <3>2
      <4>2. QED
        BY <2>2, <3>2, <4>1 DEF AnswersInv, ChannelInv
    <3>3. QED
      BY <3>1, <3>2
  <2>3. ASSUME NEW d \in Conn, NEW i \in DOMAIN written'[d], written'[d][i].n # 0
        PROVE  written'[d][i].conn = d /\ written'[d][i].event_name # "close_connection"
    <3>1. CASE d # c \/ i \in DOMAIN written[d]
      <4>1. written'[d][i] = written[d][i] /\ i \in DOMAIN written[d]
        <5>1. \A j \in DOMAIN written[c] : Append(written[c], h)[j] = written[c][j]
          BY <1>3, <1>4, AppendProperties, LenProperties
        <5>2. QED
          BY <1>4, <2>3, <3>1, <5>1
      <4>2. QED
        BY <2>3, <4>1 DEF AnswersInv, ChannelInv
    <3>2. CASE d = c /\ i \notin DOMAIN written[c]
      <4>1. written'[c][i] = h
        <5>1. /\ DOMAIN written'[c] = 1..(Len(written[c]) + 1) /\ DOMAIN written[c] = 1..Len(written[c])
              /\ Len(written[c]) \in Nat /\ written'[c][Len(written[c]) + 1] = h
          BY <1>3, <1>4, AppendProperties, LenProperties
        <5>2. i = Len(written[c]) + 1
          BY <2>3, <3>2, <5>1
        <5>3. QED
          BY <5>1, <5>2
      <4>2. Head(s).n # 0
        BY <1>4, <2>3, <3>2, <4>1
      <4>3. s[1].conn = c
        BY <1>3, <4>2 DEF AnswersInv, ChannelInv
      <4>4. QED
        BY <1>3, <1>4, <3>2, <4>1, <4>3
    <3>3. QED
      BY <3>1, <3>2
  <2>4. QED
    BY <1>2, <2>1, <2>2, <2>3 DEF ChannelInv, Doomed
<1>10. NumbersInv'
  <2>1. ASSUME NEW d \in Conn PROVE \E j, k, m \in 0..published[d] : Numbered(d, j, k, m)'
    <3>1. PICK j \in 0..published[d], k \in 0..published[d], m \in 0..published[d] : Numbered(d, j, k, m)
      BY DEF AnswersInv, NumbersInv
    <3>2. CASE d # c
      <4>1. worker'[d] = worker[d] /\ written'[d] = written[d]
        BY <1>1, <1>4, <3>2
      <4>2. Numbered(d, j, k, m)'
        BY <1>2, <1>6, <3>1, <4>1 DEF Numbered
      <4>3. QED
        BY <4>2
    <3>3. CASE d = c
      <4>1. j \in Nat /\ k \in Nat /\ m \in Nat /\ published[d] \in Nat
        <5>1. published[d] \in Nat
          BY DEF TypeInv, MessageTypes
        <5>2. QED
          BY <5>1
      <4>2. Counts(written[c], c, 0, j) /\ Counts(s, c, j, k)
        BY <3>1, <3>3 DEF Numbered, Live
      <4>3. PICK i \in j..k : Counts(written'[c], c, 0, i) /\ Counts(Tail(s), c, i, k)
        <5>1. written[c] \in Seq(Payloads) /\ s \in Seq(Payloads) /\ Head(s) \in Payloads /\ 0 \in Nat
          BY <1>3, <1>4
        <5>2. \E i \in j..k : Counts(Append(written[c], Head(s)), c, 0, i) /\ Counts(Tail(s), c, i, k)
          BY <4>1, <4>2, <5>1, CountsMove
        <5>3. /\ DOMAIN Append(written[c], h) = 1..len /\ DOMAIN Append(written[c], Head(s)) = 1..len
              /\ Append(written[c], h)[len] = h /\ Append(written[c], Head(s))[len] = Head(s)
              /\ \A g \in 1..(len - 1) : Append(written[c], h)[g] = Append(written[c], Head(s))[g]
              /\ len \in Nat
          BY <1>3, <1>4, AppendProperties, LenProperties
        <5>4. Own(h, c) <=> Own(Head(s), c)
          BY <1>4 DEF Own
        <5>5. \A g \in 1..len : /\ Append(written[c], Head(s))[g].n = Append(written[c], h)[g].n
                                /\ Own(Append(written[c], Head(s))[g], c) <=> Own(Append(written[c], h)[g], c)
          <6>1. \A g \in 1..len : g = len \/ g \in 1..(len - 1)
            BY <5>3
          <6>2. QED
            BY <1>4, <5>3, <5>4, <6>1
        <5>6. \A i \in j..k : Counts(Append(written[c], Head(s)), c, 0, i) => Counts(Append(written[c], h), c, 0, i)
          <6>1. \A i \in j..k : i \in Nat
            BY <4>1
          <6>2. QED
            BY <5>3, <5>5, <6>1, CountsAlike
        <5>7. QED
          BY <1>4, <5>2, <5>6
      <4>4. i <= k /\ i \in 0..published[d]
        BY <3>1, <4>1, <4>3
      <4>5. Numbered(c, i, k, m)'
        BY <1>1, <1>2, <3>1, <3>3, <4>3, <4>4 DEF Numbered, Live
      <4>6. QED
        BY <3>3, <4>4, <4>5
    <3>4. QED
      BY <3>2, <3>3
  <2>2. QED
    BY <1>2, <2>1 DEF NumbersInv
<1>11. QED
  BY <1>8, <1>9, <1>10 DEF AnswersInv

LEMMA ThreadAnswers == ASSUME TypeInv, AnswersInv, NEW c \in Conn, Thread(c) PROVE AnswersInv'
<1>1. CASE \E w \in Workers : Turn(c, w) /\ ThreadStep(c, w) /\ UNCHANGED process
  <2>1. PICK w \in Workers : Turn(c, w) /\ ThreadStep(c, w) /\ process' = process
    BY <1>1
  <2>2. worker[c] \in Workers /\ WorkerPlaced(c) /\ worker[c].read \in Nat /\ w.read \in Nat
    BY DEF TypeInv, ThreadTypes, PlacesInv, Workers
  <2>3. /\ w.tid = worker[c].tid /\ worker[c].pc \notin {"none", "ended"} /\ worker[c].read <= w.read
        /\ w.pc # "none" /\ (w.pc # "apply" => w.message = <<>>)
    BY <2>1, ThreadPlaced DEF TypeInv
  <2>4. /\ worker'[c] = w /\ \A d \in Conn \ {c} : worker'[d] = worker[d]
    BY <2>1, Turning DEF TypeInv
  <2>5. UNCHANGED <<connection, todo, published, closed>>
    BY <2>1 DEF ThreadStep, ReceiveChannelPayload, SendData, CloseConnection, EraseSocket, Read, BeginPush, EndPush, script
  <2>6. \A d \in Conn : /\ worker'[d].tid = worker[d].tid
                        /\ worker'[d].read \in Nat /\ worker[d].read <= worker'[d].read
    BY <2>2, <2>3, <2>4, MeantTypes
  <2>7. MeantInv'
    <3>1. CASE queue' = queue
      BY <2>5, <2>6, <3>1, MeantStands DEF AnswersInv
    <3>2. CASE EndPush(c) /\ worker[c].pc = "pushing"
      <4> DEFINE Stays(p) == worker'[p.conn].tid = p.tid /\ worker'[p.conn].read > 0
      <4>0. ASSUME NEW p, p.conn \in Conn, Meant(p) PROVE Stays(p)
        <5>1. worker[p.conn].read \in Nat
          BY <4>0, MeantTypes
        <5>2. QED
          BY <2>6, <4>0, <5>1 DEF Meant
      <4>1. queue' = Append(queue, EventOf(c)) /\ queue \in Seq(Events) /\ EventOf(c) \in Events
        BY <2>2, <3>2 DEF EndPush, EventOf, TypeInv, MessageTypes, WorkerPlaced, Workers, Events
      <4>2. worker'[c].tid = EventOf(c).tid /\ worker'[c].read > 0 /\ EventOf(c).conn = c
        BY <2>2, <2>3, <2>4, <3>2 DEF EventOf, WorkerPlaced, Workers
      <4>3. ASSUME NEW i \in DOMAIN queue' PROVE Stays(queue'[i])
        <5>1. queue'[i] = EventOf(c) \/ (i \in DOMAIN queue /\ queue'[i] = queue[i])
          BY <4>1, AppendProperties, LenProperties
        <5>2. CASE queue'[i] = EventOf(c)
          BY <4>2, <5>2
        <5>3. CASE i \in DOMAIN queue /\ queue'[i] = queue[i]
          <6>1. Meant(queue[i]) /\ queue[i].conn \in Conn
            BY <5>3, MeantTypes DEF AnswersInv, MeantInv
          <6>2. Stays(queue[i])
            BY <4>0, <6>1
          <6>3. QED
            BY <5>3, <6>2
        <5>4. QED
          BY <5>1, <5>2, <5>3
      <4>4. \A id \in DOMAIN connection : Stays(connection[id])
        BY <4>0, MeantTypes DEF AnswersInv, MeantInv
      <4>5. \A i \in DOMAIN todo : Stays(todo[i])
        BY <4>0, MeantTypes DEF AnswersInv, MeantInv
      <4>6. ASSUME NEW d \in Conn, worker'[d].read = 0 PROVE published[d] = 0
        <5>1. worker[d].read \in Nat /\ worker[d].read <= 0
          BY <2>6, <4>6, MeantTypes
        <5>2. worker[d].read = 0
          BY <5>1
        <5>3. QED
          BY <5>2 DEF AnswersInv, MeantInv
      <4>7. QED
        BY <2>5, <4>3, <4>4, <4>5, <4>6 DEF MeantInv, Meant
    <3>3. QED
      BY <2>1, <3>1, <3>2 DEF ThreadStep, ReceiveChannelPayload, SendData, CloseConnection, EraseSocket, Read,
                              BeginPush, crossing
  <2>8. CASE ReceiveChannelPayload(c) /\ worker[c].pc = "check" /\ w = [worker[c] EXCEPT !.pc = "apply", !.message = channels[worker[c].tid]]
    <3>1. w.pc = "apply" /\ w.read = worker[c].read /\ w.message = channels[worker[c].tid]
      BY <2>2, <2>8 DEF Workers
    <3>2. QED
      BY <2>1, <2>3, <2>7, <2>8, <3>1, ReceiveAnswers
  <2>9. CASE SendData(c) /\ worker[c].pc = "apply" /\ worker[c].message # <<>> /\ w = [worker[c] EXCEPT !.message = Tail(@)]
    <3>1. w.pc = "apply" /\ w.read = worker[c].read /\ w.message = Tail(worker[c].message)
      BY <2>2, <2>9 DEF Workers
    <3>2. QED
      BY <2>1, <2>3, <2>7, <2>9, <3>1, SendAnswers
  <2>10. CASE \/ /\ CloseConnection(c) /\ worker[c].pc = "apply" /\ worker[c].message # <<>>
                 /\ w = [worker[c] EXCEPT !.pc = "erase", !.message = <<>>]
              \/ EraseSocket(c) /\ worker[c].pc = "erase" /\ w = [worker[c] EXCEPT !.pc = "ended"]
    <3>1. /\ w.pc \in {"erase", "ended"} /\ w.message = <<>> /\ w.read = worker[c].read
          /\ worker[c].pc \in {"apply", "erase"}
      BY <2>2, <2>3, <2>10 DEF Workers
    <3>2. UNCHANGED <<channels, written>>
      BY <2>10 DEF CloseConnection, EraseSocket
    <3>3. CASE worker[c].pc = "erase"
      BY <2>1, <2>3, <2>5, <2>7, <3>1, <3>2, <3>3, TurnAnswers
    <3>4. CASE CloseConnection(c) /\ worker[c].pc = "apply"
      <4>1. worker[c].message \in Seq(Payloads) /\ worker[c].message # <<>> /\ Head(worker[c].message).event_name = "close_connection"
        BY <2>2, <3>4 DEF CloseConnection, NoMore, Message, Workers
      <4>2. Closes(worker[c].message)
        BY <4>1 DEF Closes
      <4>3. QED
        BY <2>1, <2>3, <2>5, <2>7, <3>1, <3>2, <3>4, <4>2, TurnAnswers
    <3>5. QED
      BY <2>10, <3>3, <3>4
  <2>11. CASE /\ Read(c) \/ BeginPush(c) \/ EndPush(c)
              /\ worker[c].pc \in {"apply", "push", "pushing"} /\ w.pc \in {"check", "push", "pushing"}
              /\ worker[c].message = <<>>
    <3>1. UNCHANGED <<channels, written>> /\ ~Closes(worker[c].message) /\ w.message = worker[c].message
      BY <2>3, <2>11 DEF Read, BeginPush, EndPush, Closes
    <3>2. Live(c)
      BY <2>11 DEF Live
    <3>3. QED
      BY <2>1, <2>3, <2>5, <2>7, <2>11, <3>1, <3>2, TurnAnswers
  <2>12. QED
    <3>1. \/ Read(c) /\ worker[c].pc = "apply" /\ worker[c].message = <<>> /\ w.pc \in {"check", "push"}
          \/ BeginPush(c) /\ worker[c].pc = "push" /\ w.pc = "pushing"
          \/ EndPush(c) /\ worker[c].pc = "pushing" /\ w.pc = "check"
          \/ ReceiveChannelPayload(c) \/ SendData(c) \/ CloseConnection(c) \/ EraseSocket(c)
      BY <2>1, <2>2 DEF ThreadStep, Workers
    <3>2. CASE Read(c) \/ BeginPush(c) \/ EndPush(c)
      <4>1. /\ worker[c].pc \in {"apply", "push", "pushing"} /\ w.pc \in {"check", "push", "pushing"}
            /\ worker[c].message = <<>>
        BY <2>2, <3>1, <3>2 DEF WorkerPlaced, Read, BeginPush, EndPush, ReceiveChannelPayload, SendData,
                                CloseConnection, EraseSocket, Pc, NoMore
      <4>2. QED
        BY <2>11, <3>2, <4>1
    <3>3. CASE ReceiveChannelPayload(c) \/ SendData(c) \/ CloseConnection(c) \/ EraseSocket(c)
      BY <2>1, <2>8, <2>9, <2>10, <3>2 DEF ThreadStep
    <3>4. QED
      BY <3>1, <3>2, <3>3
<1>2. CASE process' = "ended" /\ UNCHANGED <<worker, written, resource>> /\ (SendData(c) \/ Read(c))
  <2>1. UNCHANGED <<worker, queue, connection, channels, todo, published, closed, written>>
    BY <1>2 DEF SendData, Read, crossing, script
  <2>2. QED
    BY <2>1, AnswersStand
<1>3. QED
  BY <1>1, <1>2, ThreadSteps DEF TypeInv

\* A thread that starts with the id of one that has ended finds no answer in its channel.
LEMMA SpawnAnswers == ASSUME TypeInv, AnswersInv, NEW l \in Listener, Spawn(l) PROVE AnswersInv'
<1>1. PICK c \in Conn, t \in Tid, w \in Workers : SpawnStep(l, c, t, w) /\ Turn(c, w)
  BY SpawnSteps DEF TypeInv
<1>2. /\ worker'[c] = w /\ \A d \in Conn \ {c} : worker'[d] = worker[d]
  BY <1>1, Turning DEF TypeInv
<1>3. UNCHANGED <<queue, connection, channels, todo, published, closed, written>>
  BY DEF Spawn, OnlyAccepting, crossing, script
<1>4. /\ worker[c].pc = "none" /\ worker[c].read = 0 /\ worker[c].message = <<>>
      /\ w.pc = "check" /\ w.tid = t /\ w.read = 0 /\ w.message = <<>>
      /\ \A d \in Running : worker[d].tid # t
  <2>1. worker[c] \in Workers /\ WorkerPlaced(c)
    BY DEF TypeInv, ThreadTypes, PlacesInv
  <2>2. QED
    BY <1>1, <2>1 DEF SpawnStep, WorkerPlaced, Workers
<1>5. MeantInv'
  <2>1. \A d \in Conn : /\ worker[d].read > 0 => worker'[d].tid = worker[d].tid
                        /\ worker'[d].read \in Nat /\ worker[d].read <= worker'[d].read
    BY <1>2, <1>4, MeantTypes
  <2>2. QED
    BY <1>3, <2>1, MeantStands DEF AnswersInv
<1>6. ~Doomed(c)' /\ Running' = Running \cup {c} /\ c \notin Running
  BY <1>2, <1>4 DEF Doomed, Closes, Running
<1>7. \A i \in DOMAIN channels[t] : channels[t][i].n = 0
  BY <1>4 DEF AnswersInv, ChannelInv
<1>8. DoomInv'
  <2>1. ASSUME NEW d \in Conn, Doomed(d)' PROVE d \in closed \/ worker'[d].read = 0
    <3>1. d # c /\ worker'[d] = worker[d]
      BY <1>2, <1>6, <2>1
    <3>2. Doomed(d)
      BY <2>1, <3>1 DEF Doomed
    <3>3. QED
      BY <3>1, <3>2 DEF AnswersInv, DoomInv
  <2>2. ASSUME NEW d \in Running', Closes(channels[worker'[d].tid])
        PROVE  d \in closed \/ (worker'[d].pc = "check" /\ worker'[d].read = 0)
    <3>1. CASE d = c
      BY <1>2, <1>4, <3>1
    <3>2. CASE d # c
      <4>1. d \in Running /\ worker'[d] = worker[d]
        BY <1>2, <1>6, <3>2 DEF Running
      <4>2. QED
        BY <2>2, <4>1 DEF AnswersInv, DoomInv
    <3>3. QED
      BY <3>1, <3>2
  <2>3. QED
    BY <1>3, <2>1, <2>2 DEF DoomInv
<1>9. ChannelInv'
  <2>1. ASSUME NEW u \in Tid, NEW i \in DOMAIN channels[u], channels[u][i].n # 0
        PROVE  LET d == channels[u][i].conn
               IN  /\ d \in Running' /\ worker'[d].tid = u
                   /\ worker'[d].pc \notin {"erase", "ended"} /\ ~Closes(worker'[d].message)
    <3>1. PICK d \in Running : d = channels[u][i].conn /\ ~Doomed(d) /\ worker[d].tid = u
      BY <2>1 DEF AnswersInv, ChannelInv
    <3>2. d \in Running' /\ worker'[d] = worker[d]
      BY <1>2, <1>6, <3>1 DEF Running
    <3>3. QED
      BY <3>1, <3>2 DEF Doomed
  <2>2. \A d \in Conn : worker'[d].message = worker[d].message
    BY <1>2, <1>4
  <2>3. QED
    BY <1>3, <2>1, <2>2 DEF AnswersInv, ChannelInv, Doomed
<1>10. NumbersInv'
  <2>1. ASSUME NEW d \in Conn PROVE \E j, k, m \in 0..published[d] : Numbered(d, j, k, m)'
    <3>1. PICK j \in 0..published[d], k \in 0..published[d], m \in 0..published[d] : Numbered(d, j, k, m)
      BY DEF AnswersInv, NumbersInv
    <3>2. CASE d # c
      <4>1. worker'[d] = worker[d]
        BY <1>2, <3>2
      <4>2. Numbered(d, j, k, m)'
        BY <1>3, <3>1, <4>1 DEF Numbered, Live
      <4>3. QED
        BY <4>2
    <3>3. CASE d = c
      <4>1. published[c] = 0 /\ j = 0 /\ k = 0 /\ m = 0
        BY <1>4, <3>3 DEF AnswersInv, MeantInv
      <4>2. Counts(channels[t], c, 0, 0)
        BY <1>7 DEF Counts, Own
      <4>3. Counts(<<>>, c, 0, 0)
        BY CountsNone
      <4>4. Numbered(c, 0, 0, 0)'
        BY <1>2, <1>3, <1>4, <3>1, <3>3, <4>1, <4>2, <4>3 DEF Numbered
      <4>5. QED
        BY <3>1, <3>3, <4>1, <4>4
    <3>4. QED
      BY <3>2, <3>3
  <2>2. QED
    BY <1>3, <2>1 DEF NumbersInv
<1>11. QED
  BY <1>5, <1>8, <1>9, <1>10 DEF AnswersInv

\* The handler of a connection's object answers: the next number.
LEMMA PopAnswers == ASSUME TypeInv, AnswersInv, Popped PROVE AnswersInv'
<1> DEFINE e == Head(queue)
<1>1. todo = <<>> /\ queue # <<>> /\ e \in Events /\ queue' = Tail(queue) /\ PopStep(e)
  BY PopSteps DEF TypeInv
<1>2. UNCHANGED <<worker, channels, closed, written>>
  BY DEF Popped, Pop, AcceptRaises
<1>3. 1 \in DOMAIN queue /\ queue[1] = e /\ \A i \in DOMAIN queue' : i + 1 \in DOMAIN queue /\ queue'[i] = queue[i + 1]
  <2>1. queue \in Seq(Events)
    BY DEF TypeInv, MessageTypes
  <2>2. QED
    BY <1>1, <2>1, HeadTailProperties
<1>4. DoomInv'
  BY <1>2 DEF AnswersInv, DoomInv, Doomed, Running
<1>5. ChannelInv'
  BY <1>2 DEF AnswersInv, ChannelInv, Doomed, Running
<1>6. \A i \in DOMAIN queue' : Meant(queue'[i])
  BY <1>3 DEF AnswersInv, MeantInv
<1>7. CASE UNCHANGED <<connection, todo, received, published>>
  <2>1. MeantInv'
    BY <1>2, <1>6, <1>7 DEF AnswersInv, MeantInv, Meant
  <2>2. NumbersInv'
    BY <1>2, <1>7 DEF AnswersInv, NumbersInv, Numbered, Live
  <2>3. QED
    BY <1>4, <1>5, <2>1, <2>2 DEF AnswersInv
<1>8. CASE /\ \/ e.id \in DOMAIN connection /\ connection' = connection
              \/ e.id \notin DOMAIN connection /\ connection' = Accepted(e)
           /\ \E o \in Range(connection') : Answered(connection'[e.id], o, e)
  <2>0. PICK o \in Range(connection') : Answered(connection'[e.id], o, e)
    BY <1>8
  <2> DEFINE n == published[o.conn] + 1
  <2>1. /\ \A id \in DOMAIN connection' : Meant(connection'[id]) /\ connection'[id].conn \in Conn
        /\ e.id \in DOMAIN connection'
    <3>1. CASE e.id \in DOMAIN connection /\ connection' = connection
      BY <3>1, MeantTypes DEF AnswersInv, MeantInv
    <3>2. CASE e.id \notin DOMAIN connection /\ connection' = Accepted(e)
      <4>1. MessageTypes
        BY DEF TypeInv
      <4>2. \A f \in Events : /\ DOMAIN Accepted(f) = DOMAIN connection \cup {f.id}
                              /\ Accepted(f)[f.id] = [conn |-> f.conn, tid |-> f.tid]
                              /\ \A i \in DOMAIN connection \ {f.id} : Accepted(f)[i] = connection[i]
        BY <4>1, AcceptedTypes
      <4>3. /\ DOMAIN connection' = DOMAIN connection \cup {e.id}
            /\ connection'[e.id] = [conn |-> e.conn, tid |-> e.tid]
            /\ \A i \in DOMAIN connection \ {e.id} : connection'[i] = connection[i]
        BY <1>1, <3>2, <4>2
      <4>4. Meant(e) /\ e.conn \in Conn
        BY <1>3, MeantTypes DEF AnswersInv, MeantInv
      <4>5. Meant(connection'[e.id]) /\ connection'[e.id].conn \in Conn
        BY <4>3, <4>4 DEF Meant
      <4>6. \A id \in DOMAIN connection : Meant(connection[id]) /\ connection[id].conn \in Conn
        BY MeantTypes DEF AnswersInv, MeantInv
      <4>7. ASSUME NEW id \in DOMAIN connection' PROVE Meant(connection'[id]) /\ connection'[id].conn \in Conn
        <5>1. CASE id = e.id
          BY <4>5, <5>1
        <5>2. CASE id # e.id
          BY <4>3, <4>6, <4>7, <5>2
        <5>3. QED
          BY <5>1, <5>2
      <4>8. QED
        BY <4>3, <4>7
    <3>3. QED
      BY <1>8, <3>1, <3>2
  <2>2. Meant(o) /\ o.conn \in Conn
    BY <2>1 DEF Range
  <2>3. published \in [Conn -> Nat] /\ n \in Nat /\ n # 0 /\ published[o.conn] \in Nat
    <3>1. published \in [Conn -> Nat]
      BY DEF TypeInv, MessageTypes
    <3>2. QED
      BY <2>2, <3>1
  <2>4. /\ todo' \in Answers(o, n)
        /\ published'[o.conn] = IF todo' = <<>> THEN published[o.conn] ELSE n
        /\ \A d \in Conn \ {o.conn} : published'[d] = published[d]
    BY <2>0, <2>2, <2>3 DEF Answered
  <2> DEFINE p == Payload(o, n, "send_data")
             x == Payload(o, n, "close_connection")
  <2>5. /\ p.conn = o.conn /\ p.tid = o.tid /\ x.conn = o.conn /\ x.tid = o.tid /\ Own(p, o.conn) /\ p.n = n
        /\ \A d \in Conn : ~Own(x, d) /\ (Own(p, d) => d = o.conn)
    BY <2>3 DEF Payload, Own
  <2>6. todo' = <<>> \/ todo' = <<p>> \/ todo' = <<p, x>>
    BY <2>4 DEF Answers
  <2>7. \A i \in DOMAIN todo' : todo'[i] \in {p, x}
    BY <2>6
  <2>8. MeantInv'
    <3>1. Meant(p) /\ Meant(x)
      BY <2>2, <2>5 DEF Meant
    <3>2. \A i \in DOMAIN todo' : Meant(todo'[i])
      BY <2>7, <3>1
    <3>3. \A d \in Conn : worker[d].read = 0 => published'[d] = 0
      BY <2>2, <2>4, MeantTypes DEF AnswersInv, MeantInv, Meant
    <3>4. QED
      BY <1>2, <1>6, <2>1, <3>2, <3>3 DEF MeantInv, Meant
  <2>9. NumbersInv'
    <3>1. ASSUME NEW d \in Conn PROVE \E j, k, m \in 0..published'[d] : Numbered(d, j, k, m)'
      <4>1. PICK j \in 0..published[d], k \in 0..published[d], m \in 0..published[d] : Numbered(d, j, k, m)
        BY DEF AnswersInv, NumbersInv
      <4>2. j \in Nat /\ k \in Nat /\ m \in Nat /\ published[d] \in Nat /\ published'[d] \in Nat /\ published[d] <= published'[d]
        BY <2>3, <2>4
      <4>3. d \notin closed => Counts(todo', d, m, published'[d])
        <5>1. d \notin closed => m = published[d]
          BY <1>1, <4>1, <4>2, CountsNone DEF Numbered
        <5>2. Counts(<<>>, d, published[d], published[d])
          BY <4>2, CountsNone
        <5>3. CASE d = o.conn /\ todo' # <<>>
          <6>1. published'[d] = published[d] + 1 /\ n = published[d] + 1
            BY <2>4, <5>3
          <6>2. Own(p, d) /\ p.n = published[d] + 1 /\ ~Own(x, d)
            BY <2>5, <5>3, <6>1
          <6>3. Counts(<<p>>, d, published[d], published[d] + 1) /\ Counts(<<p, x>>, d, published[d], published[d] + 1)
            BY <4>2, <6>2, CountsOne
          <6>4. QED
            BY <2>6, <5>1, <5>3, <6>1, <6>3
        <5>4. CASE d # o.conn \/ todo' = <<>>
          <6>1. \A i \in DOMAIN todo' : ~Own(todo'[i], d)
            <7>1. DOMAIN <<>> = {}
              OBVIOUS
            <7>2. QED
              BY <2>5, <2>7, <5>4, <7>1
          <6>2. published'[d] = published[d]
            BY <2>4, <5>4
          <6>3. Counts(todo', d, published[d], published[d])
            BY <4>2, <6>1 DEF Counts
          <6>4. QED
            BY <5>1, <6>2, <6>3
        <5>5. QED
          BY <5>3, <5>4
      <4>4. m <= published'[d]
        BY <4>1, <4>2
      <4>5. Numbered(d, j, k, m)'
        BY <1>2, <4>1, <4>3, <4>4 DEF Numbered, Live
      <4>6. j \in 0..published'[d] /\ k \in 0..published'[d] /\ m \in 0..published'[d]
        BY <4>1, <4>2
      <4>7. QED
        BY <4>5, <4>6
    <3>2. QED
      BY <3>1 DEF NumbersInv
  <2>10. QED
    BY <1>4, <1>5, <2>8, <2>9 DEF AnswersInv
<1>9. QED
  BY <1>1, <1>7, <1>8 DEF PopStep

\* A message goes to the channel of the thread that its connection has, or had.
LEMMA PublishAnswers == ASSUME TypeInv, AnswersInv, ChannelPublish PROVE AnswersInv'
<1>1. PICK p \in Payloads :
        /\ todo # <<>> /\ p = Head(todo) /\ todo' = Tail(todo) /\ Sent(p) \in Payloads
        /\ channels' = [channels EXCEPT ![p.tid] = Append(@, Sent(p))]
        /\ closed' = IF p.event_name = "close_connection"
                     THEN closed \cup {c \in Running : worker[c].tid = p.tid} ELSE closed
  BY PublishSteps DEF TypeInv
<1> DEFINE t == p.tid
           x == Sent(p)
<1>2. UNCHANGED <<worker, queue, connection, published, written>>
  BY DEF ChannelPublish, crossing
<1>3. todo \in Seq(Payloads) /\ p.conn \in Conn /\ t \in Tid /\ p.n \in Nat /\ x \in Payloads
  BY <1>1 DEF TypeInv, MessageTypes, Payloads
<1>4. /\ 1 \in DOMAIN todo /\ todo[1] = p
      /\ \A i \in DOMAIN todo' : i + 1 \in DOMAIN todo /\ todo'[i] = todo[i + 1]
  BY <1>1, <1>3, HeadTailProperties
<1>5. /\ x.conn = p.conn /\ x.event_name = p.event_name /\ (p.conn \notin closed => x.n = p.n)
      /\ x.n # 0 => p.conn \notin closed
  BY <1>1 DEF Sent, Payloads
<1>6. /\ channels'[t] = Append(channels[t], x) /\ \A u \in Tid \ {t} : channels'[u] = channels[u]
      /\ channels[t] \in Seq(Payloads)
  <2>1. channels \in [Tid -> Seq(Payloads)]
    BY DEF TypeInv, MessageTypes
  <2>2. QED
    BY <1>1, <1>3, <2>1
<1>7. \A i \in DOMAIN channels'[t] : channels'[t][i] = x \/ (i \in DOMAIN channels[t] /\ channels'[t][i] = channels[t][i])
  BY <1>3, <1>6, AppendProperties, LenProperties
<1>8. closed \subseteq closed'
  BY <1>1
<1>9. worker[p.conn].tid = t /\ worker[p.conn].read # 0 /\ worker[p.conn].pc # "none"
  <2>1. Meant(p) /\ worker[p.conn].read \in Nat /\ WorkerPlaced(p.conn)
    BY <1>3, <1>4, MeantTypes DEF AnswersInv, MeantInv, TypeInv, PlacesInv
  <2>2. QED
    BY <2>1 DEF Meant, WorkerPlaced
<1>10. p.conn \notin closed => ~Doomed(p.conn) /\ p.conn \in Running /\ Live(p.conn)
  <2>1. p.conn \notin closed => ~Doomed(p.conn)
    BY <1>3, <1>9 DEF AnswersInv, DoomInv
  <2>2. QED
    BY <1>3, <1>9, <2>1 DEF Doomed, Running, Live
<1>11. MeantInv'
  <2>1. \A i \in DOMAIN todo' : Meant(todo'[i])
    BY <1>4 DEF AnswersInv, MeantInv
  <2>2. QED
    BY <1>2, <2>1 DEF AnswersInv, MeantInv, Meant
<1>12. DoomInv'
  <2>1. \A d \in Conn : Doomed(d) => d \in closed' \/ worker[d].read = 0
    BY <1>8 DEF AnswersInv, DoomInv
  <2>2. ASSUME NEW d \in Running, Closes(channels'[worker[d].tid])
        PROVE  d \in closed' \/ (worker[d].pc = "check" /\ worker[d].read = 0)
    <3>1. worker[d].tid \in Tid
      BY DEF TypeInv, PlacesInv, WorkerPlaced, Running
    <3>2. CASE Closes(channels[worker[d].tid])
      BY <1>8, <3>2 DEF AnswersInv, DoomInv
    <3>3. CASE ~Closes(channels[worker[d].tid])
      <4>1. worker[d].tid = t
        BY <1>6, <2>2, <3>1, <3>3
      <4>2. x.event_name = "close_connection"
        BY <1>7, <2>2, <3>3, <4>1 DEF Closes
      <4>3. QED
        BY <1>1, <1>5, <4>1, <4>2
    <3>4. QED
      BY <3>2, <3>3
  <2>3. QED
    BY <1>2, <2>1, <2>2 DEF DoomInv, Doomed, Running
<1>13. ChannelInv'
  <2>1. ASSUME NEW u \in Tid, NEW i \in DOMAIN channels'[u], channels'[u][i].n # 0
        PROVE  LET d == channels'[u][i].conn
               IN  d \in Running /\ worker[d].tid = u /\ worker[d].pc \notin {"erase", "ended"} /\ ~Closes(worker[d].message)
    <3>1. CASE u # t \/ channels'[u][i] # x
      <4>1. i \in DOMAIN channels[u] /\ channels'[u][i] = channels[u][i]
        BY <1>6, <1>7, <2>1, <3>1
      <4>2. QED
        BY <2>1, <4>1 DEF AnswersInv, ChannelInv, Doomed
    <3>2. CASE u = t /\ channels'[u][i] = x
      <4>1. p.conn \notin closed /\ channels'[u][i].conn = p.conn
        BY <1>5, <2>1, <3>2
      <4>2. QED
        BY <1>9, <1>10, <3>2, <4>1 DEF Doomed
    <3>3. QED
      BY <3>1, <3>2
  <2>2. QED
    BY <1>2, <2>1 DEF AnswersInv, ChannelInv, Doomed, Running
<1>14. NumbersInv'
  <2>1. ASSUME NEW d \in Conn PROVE \E j, k, m \in 0..published[d] : Numbered(d, j, k, m)'
    <3>1. PICK j \in 0..published[d], k \in 0..published[d], m \in 0..published[d] : Numbered(d, j, k, m)
      BY DEF AnswersInv, NumbersInv
    <3>2. j \in Nat /\ k \in Nat /\ m \in Nat /\ published[d] \in Nat
      <4>1. published[d] \in Nat
        BY DEF TypeInv, MessageTypes
      <4>2. QED
        BY <4>1
    <3>3. Live(d) => worker[d].tid \in Tid
      BY DEF Live, TypeInv, PlacesInv, WorkerPlaced
    <3>4. CASE d \in closed
      <4>1. ~Own(x, d)
        BY <1>5, <3>4 DEF Own
      <4>2. Live(d) => Counts(channels'[worker[d].tid], d, k, m)
        <5>1. CASE Live(d) /\ worker[d].tid = t
          <6>1. Counts(channels[t], d, k, m)
            BY <3>1, <5>1 DEF Numbered
          <6>2. Counts(Append(channels[t], x), d, k, m)
            BY <1>3, <1>6, <3>2, <4>1, <6>1, CountsAppend
          <6>3. QED
            BY <1>6, <5>1, <6>2
        <5>2. CASE Live(d) /\ worker[d].tid # t
          BY <1>6, <3>1, <3>3, <5>2 DEF Numbered
        <5>3. QED
          BY <5>1, <5>2
      <4>3. d \in closed'
        BY <1>8, <3>4
      <4>4. Numbered(d, j, k, m)'
        BY <1>2, <3>1, <4>2, <4>3 DEF Numbered, Live
      <4>5. QED
        BY <4>4
    <3>5. CASE d \notin closed
      <4>1. Counts(todo, d, m, published[d])
        BY <3>1, <3>5 DEF Numbered
      <4>2. CASE Live(d) /\ worker[d].tid = t
        <5>1. (Own(x, d) <=> Own(p, d)) /\ (Own(x, d) => x.n = p.n)
          BY <1>5, <3>5 DEF Own
        <5>2. Counts(channels[t], d, k, m)
          BY <3>1, <4>2 DEF Numbered
        <5>3. PICK i \in m..published[d] : Counts(channels'[t], d, k, i) /\ Counts(todo', d, i, published[d])
          <6>1. \E i \in m..published[d] : Counts(Append(channels[t], x), d, k, i) /\ Counts(Tail(todo), d, i, published[d])
            BY <1>1, <1>3, <1>6, <3>2, <4>1, <5>1, <5>2, CountsMove
          <6>2. QED
            BY <1>1, <1>6, <6>1
        <5>4. k <= i /\ i <= published[d] /\ i \in 0..published[d]
          BY <3>1, <3>2, <5>3 DEF Numbered
        <5>5. Numbered(d, j, k, i)'
          BY <1>2, <3>1, <4>2, <5>3, <5>4 DEF Numbered, Live
        <5>6. QED
          BY <5>4, <5>5
      <4>3. CASE ~(Live(d) /\ worker[d].tid = t)
        <5>1. ~Own(p, d)
          BY <1>9, <1>10, <3>5, <4>3 DEF Own
        <5>2. Counts(todo', d, m, published[d])
          BY <1>1, <1>3, <3>2, <4>1, <5>1, CountsTail
        <5>3. Live(d) => channels'[worker[d].tid] = channels[worker[d].tid]
          BY <1>6, <3>3, <4>3
        <5>4. Numbered(d, j, k, m)'
          BY <1>2, <3>1, <5>2, <5>3 DEF Numbered, Live
        <5>5. QED
          BY <5>4
      <4>4. QED
        BY <4>2, <4>3
    <3>6. QED
      BY <3>4, <3>5
  <2>2. QED
    BY <1>2, <2>1 DEF NumbersInv
<1>15. QED
  BY <1>11, <1>12, <1>13, <1>14 DEF AnswersInv

LEMMA NextAnswers == ASSUME TypeInv, AnswersInv, [Next]_vars PROVE AnswersInv'
<1>1. ASSUME UNCHANGED <<worker, queue, connection, channels, todo, published, closed, written>> PROVE AnswersInv'
  BY <1>1, AnswersStand
<1>2. CASE \E c \in Conn : Peer(c)
  BY <1>1, <1>2 DEF Peer, crossing, script
<1>3. CASE \E c \in Conn : Thread(c)
  BY <1>3, ThreadAnswers
<1>4. CASE \E l \in Listener : Accepting(l)
  <2>1. UNCHANGED <<worker, queue, connection, channels, todo, published, closed, written>>
    BY <1>4 DEF Accepting, CreateSocket, RecordSocket, IncrId, LoadId, Accept, OnlyAccepting, crossing, script
  <2>2. QED
    BY <1>1, <2>1
<1>5. CASE \E l \in Listener : Spawn(l)
  BY <1>5, SpawnAnswers
<1>6. CASE \E l \in Listener : Error(l)
  BY <1>1, <1>6 DEF Error, crossing, script
<1>7. CASE Popped
  BY <1>7, PopAnswers
<1>8. CASE Torn \/ Prompted
  BY <1>1, <1>8, PromptSteps DEF Torn, crossing, script
<1>9. CASE ChannelPublish
  BY <1>9, PublishAnswers
<1>10. CASE UNCHANGED vars
  BY <1>1, <1>10 DEF vars, crossing, script
<1>11. QED
  BY <1>2, <1>3, <1>4, <1>5, <1>6, <1>7, <1>8, <1>9, <1>10 DEF Next, Main, Listen, Accepting, Popped, Prompted

\* What the script answers to a connection is given to write for it, each answer behind
\* those before it, however many connections there are and however their threads' ids are
\* used again: except for what was sent after the thread was told to close.
THEOREM AnswersInOrderHolds == Spec => []AnswersInOrder
<1>1. Init => TypeInv /\ AnswersInv
  BY InitTypes, InitAnswers DEF TypeInv
<1>2. TypeInv /\ AnswersInv /\ [Next]_vars => TypeInv' /\ AnswersInv'
  BY NextTypes, NextAnswers
<1>3. TypeInv /\ AnswersInv => AnswersInOrder
  BY AnswersFollow
<1>4. QED
  BY <1>1, <1>2, <1>3, PTL DEF Spec
=============================================================================
