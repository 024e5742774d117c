------------------------------- MODULE Server -------------------------------
(***************************************************************************)
(* TCP servers (ServerBind.h, sion/server.h, ResouceControl.h): a thread   *)
(* per server that accepts, a thread per connection that reads, and the    *)
(* main thread, where the script runs.  What is read goes to the script    *)
(* through event_cross_thread_queue; what the script sends goes to the     *)
(* connection's thread through a channel named by the id of that thread.   *)
(* An action is what a thread does between two points where another one    *)
(* can come in.  A byte is <<connection, number>>.  "from", "to" and        *)
(* "pushed" are history: which bytes of the peer a text was made of.       *)
(***************************************************************************)
EXTENDS Integers, FiniteSetsExt, Functions, Sequences

CONSTANTS Listener,            \* servers that are made
          Conn,                \* connections that peers make, one each
          Tid, Fd,             \* thread ids and descriptors the system gives
          MaxSend,             \* bound on the bytes a peer sends
          Nul,                 \* the numbers of the bytes that are NUL
          Losses               \* what fails: calls of "accept" and "write", peers that
                               \* "reset", scripts that "raise"

ASSUME ServerConstants ==
  /\ Fd \subseteq Nat /\ MaxSend \in Nat /\ Nul \subseteq Nat
  /\ Losses \subseteq {"accept", "write", "reset", "raise"}
  /\ "none" \notin Conn \cup Tid /\ IsFiniteSet(Listener)
  /\ Cardinality(Tid) >= Cardinality(Conn)
  /\ Cardinality(Fd) >= Cardinality(Conn) + Cardinality(Listener)

VARIABLES process,             \* "up"; "ended" by terminate or a signal; "torn"
          peer, sent,          \* the peers: what they did, the bytes they sent
          acceptor,            \* threads of MakeServer: [pc, sockfd, conn, fd, id]
          incr_id,             \* MakeServer_connection_incr_id
          worker,              \* threads of msg_handler: [pc, tid, fd, id, message, buf, read, pushed]
          sockets, socket_m,   \* ResouceControl: the set, and who holds the mutex
          channels,            \* sub_thread_channel; <<>> where a thread id has none
          queue, pushing,      \* event_cross_thread_queue, and who pushes to it
          connection,          \* Server::connection, id -> [conn, tid]
          main,                \* main thread: in the "loop" of VM::Run, or at the "prompt"
          todo,                \* what the handler that runs has still to publish
          received,            \* the texts that on_message has got, by connection object
          published, written,  \* the answers: how many, and those given to write
          closed, raised       \* close was published to its thread; on_accept threw

peers == <<peer, sent>>
accepting == <<acceptor, incr_id>>
resource == <<sockets, socket_m>>
crossing == <<queue, pushing>>
script == <<main, connection, todo, received, published, closed, raised>>
vars == <<process, peers, accepting, worker, resource, channels, crossing, script, written>>

None == "none"
NoFd == -1

Init ==
  /\ process = "up"
  /\ peer = [c \in Conn |-> "new"] /\ sent = [c \in Conn |-> 0]
  /\ acceptor = [l \in Listener |-> [pc |-> "new", sockfd |-> NoFd, conn |-> None, fd |-> NoFd, id |-> 0]]
  /\ incr_id = 0
  /\ worker = [c \in Conn |-> [pc |-> "none", tid |-> None, fd |-> NoFd, id |-> 0,
                               message |-> <<>>, buf |-> <<>>, read |-> 0, pushed |-> 0]]
  /\ sockets = {} /\ socket_m = None
  /\ channels = [t \in Tid |-> <<>>] /\ queue = <<>> /\ pushing = None
  /\ main = "loop" /\ connection = <<>> /\ todo = <<>>
  /\ received = [c \in Conn |-> <<>>] /\ written = [c \in Conn |-> <<>>]
  /\ published = [c \in Conn |-> 0]
  /\ closed = {} /\ raised = {}

Running == {c \in Conn : worker[c].pc \notin {"none", "ended"}}
\* The descriptors that are open.
Open == {worker[c].fd : c \in {d \in Running : worker[d].pc # "erase"}}
          \cup UNION {{acceptor[l].sockfd, acceptor[l].fd} : l \in Listener}
Lowest(d) == d \in Fd \ Open /\ \A e \in Fd \ Open : d <= e

-----------------------------------------------------------------------------
(* The peers.                                                              *)

Peer(c) ==
  /\ process = "up"
  /\ \/ peer[c] = "new" /\ peer' = [peer EXCEPT ![c] = "open"] /\ UNCHANGED sent
     \/ peer[c] = "open" /\ sent[c] < MaxSend /\ sent' = [sent EXCEPT ![c] = @ + 1] /\ UNCHANGED peer
     \/ peer[c] = "open" /\ peer' = [peer EXCEPT ![c] = "closed"] /\ UNCHANGED sent
     \/ peer[c] \in {"open", "closed"} /\ "reset" \in Losses /\ peer' = [peer EXCEPT ![c] = "reset"] /\ UNCHANGED sent
  /\ UNCHANGED <<process, accepting, worker, resource, channels, crossing, script, written>>

-----------------------------------------------------------------------------
(* MakeServer.                                                             *)

At(l, pc) == process = "up" /\ acceptor[l].pc = pc
Become(l, a) == acceptor' = [acceptor EXCEPT ![l] = a]
OnlyAccepting == UNCHANGED <<process, peers, channels, crossing, script, written>>

CreateSocket(l) ==
  /\ At(l, "new")
  /\ \E d \in Fd : Lowest(d) /\ Become(l, [acceptor[l] EXCEPT !.pc = "record", !.sockfd = d])
  /\ UNCHANGED <<incr_id, worker, resource>> /\ OnlyAccepting

\* accept gives the lowest descriptor that is not open.
Accept(l, c) ==
  /\ At(l, "accept") /\ peer[c] # "new" /\ worker[c].pc = "none"
  /\ \A k \in Listener : acceptor[k].conn # c
  /\ \E d \in Fd : Lowest(d) /\ Become(l, [acceptor[l] EXCEPT !.pc = "record", !.conn = c, !.fd = d])
  /\ UNCHANGED <<incr_id, worker, resource>> /\ OnlyAccepting

\* Mutant: the record is not held back by the mutex.
RecordSocketNoLock(l) ==
  /\ At(l, "record")
  /\ sockets' = sockets \cup ({acceptor[l].sockfd, acceptor[l].fd} \ {NoFd})
  /\ Become(l, [acceptor[l] EXCEPT !.pc = IF acceptor[l].conn = None THEN "accept" ELSE "number"])
  /\ UNCHANGED <<incr_id, worker, socket_m>> /\ OnlyAccepting

RecordSocket(l) ==
  /\ At(l, "record") /\ socket_m = None
  /\ sockets' = sockets \cup ({acceptor[l].sockfd, acceptor[l].fd} \ {NoFd})
  /\ Become(l, [acceptor[l] EXCEPT !.pc = IF acceptor[l].conn = None THEN "accept" ELSE "number"])
  /\ UNCHANGED <<incr_id, worker, socket_m>> /\ OnlyAccepting

\* An error of bind or accept leaves the thread as an exception: std::terminate.
Error(l) ==
  /\ "accept" \in Losses /\ At(l, "accept")
  /\ process' = "ended"
  /\ UNCHANGED <<peers, accepting, worker, resource, channels, crossing, script, written>>

\* += 1 and load are two operations of the atomic counter.
IncrId(l) ==
  /\ At(l, "number")
  /\ incr_id' = incr_id + 1
  /\ Become(l, [acceptor[l] EXCEPT !.pc = "load"])
  /\ UNCHANGED <<worker, resource>> /\ OnlyAccepting
LoadId(l) ==
  /\ At(l, "load")
  /\ Become(l, [acceptor[l] EXCEPT !.pc = "spawn", !.id = incr_id])
  /\ UNCHANGED <<incr_id, worker, resource>> /\ OnlyAccepting

\* The new thread's id is one that no running thread has.  The event "close",
\* that the accepting thread looks for in its channel, is published nowhere.
Spawn(l) ==
  /\ At(l, "spawn")
  /\ \E t \in Tid \ {worker[c].tid : c \in Running} :
       worker' = [worker EXCEPT ![acceptor[l].conn] =
                    [@ EXCEPT !.pc = "check", !.tid = t, !.fd = acceptor[l].fd, !.id = acceptor[l].id]]
  /\ Become(l, [acceptor[l] EXCEPT !.pc = "accept", !.conn = None, !.fd = NoFd])
  /\ UNCHANGED <<incr_id, resource>> /\ OnlyAccepting

Listen(l) == \/ CreateSocket(l) \/ RecordSocket(l) \/ IncrId(l) \/ LoadId(l) \/ Spawn(l)
             \/ \E c \in Conn : Accept(l, c)

-----------------------------------------------------------------------------
(* msg_handler.                                                            *)

Pc(c, pc) == process = "up" /\ worker[c].pc = pc
Turn(c, w) == worker' = [worker EXCEPT ![c] = w]
NoMore(c) == worker[c].message = <<>>
Message(c) == Head(worker[c].message)
\* What c sends after its first a bytes, up to b.
Bytes(c, a, b) == [i \in 1..(b - a) |-> <<c, a + i>>]
\* The String made of a buffer with these bytes ends before the first NUL: the
\* conversion from char* does not know how many were read.
Kept(c, a, b) == Bytes(c, a, Min({n - 1 : n \in Nul \cap (a + 1..b)} \cup {b}))

\* Mutant: the channel is not erased.
ReceiveChannelPayloadKeeps(c) ==
  /\ Pc(c, "check")
  /\ Turn(c, [worker[c] EXCEPT !.pc = "apply", !.message = channels[worker[c].tid]])
  /\ UNCHANGED <<process, peers, accepting, resource, channels, crossing, script, written>>

\* The thread takes the channel of its id as it stands, and erases it.
ReceiveChannelPayload(c) ==
  /\ Pc(c, "check")
  /\ Turn(c, [worker[c] EXCEPT !.pc = "apply", !.message = channels[worker[c].tid]])
  /\ channels' = [channels EXCEPT ![worker[c].tid] = <<>>]
  /\ UNCHANGED <<process, peers, accepting, resource, crossing, script, written>>

\* Writing to a connection that its peer has reset raises SIGPIPE.  The socket does
\* not block: when its buffer is full, write takes a part of the answer or nothing,
\* and nobody looks at the result.
SendData(c) ==
  /\ Pc(c, "apply") /\ ~NoMore(c) /\ Message(c).event_name = "send_data"
  /\ IF peer[c] = "reset" THEN process' = "ended" /\ UNCHANGED <<worker, written>>
     ELSE /\ \E fate \in {"whole"} \cup (IF "write" \in Losses THEN {"short"} ELSE {}) :
               written' = [written EXCEPT ![c] = Append(@, [Message(c) EXCEPT !.event_name = fate])]
          /\ Turn(c, [worker[c] EXCEPT !.message = Tail(@)])
          /\ UNCHANGED process
  /\ UNCHANGED <<peers, accepting, resource, channels, crossing, script>>

\* close_connection: FreeSocket closes and then erases, under the mutex.
CloseConnection(c) ==
  /\ Pc(c, "apply") /\ ~NoMore(c) /\ Message(c).event_name = "close_connection"
  /\ socket_m = None /\ socket_m' = c
  /\ Turn(c, [worker[c] EXCEPT !.pc = "erase", !.message = <<>>])
  /\ UNCHANGED <<process, peers, accepting, sockets, channels, crossing, script, written>>
EraseSocket(c) ==
  /\ Pc(c, "erase")
  /\ sockets' = sockets \ {worker[c].fd} /\ socket_m' = None
  /\ Turn(c, [worker[c] EXCEPT !.pc = "ended"])
  /\ UNCHANGED <<process, peers, accepting, channels, crossing, script, written>>

\* Mutant: without setNonBlock, read waits for a peer that is silent.
ReadBlocks(c) ==
  /\ Pc(c, "apply") /\ NoMore(c) /\ (worker[c].read < sent[c] \/ peer[c] # "open")
  /\ LET r == worker[c].read
     IN  IF peer[c] = "reset" THEN process' = "ended" /\ UNCHANGED worker
         ELSE /\ IF r = sent[c] THEN Turn(c, [worker[c] EXCEPT !.pc = "check"])
                 ELSE Turn(c, [worker[c] EXCEPT !.pc = "push", !.read = sent[c], !.buf = Kept(c, r, sent[c])])
              /\ UNCHANGED process
  /\ UNCHANGED <<peers, accepting, resource, channels, crossing, script, written>>

\* read: what there is, 0 behind what a peer that has closed sent, or EAGAIN;
\* these two go round the loop.  Any other error terminates, as in accept.
Read(c) ==
  /\ Pc(c, "apply") /\ NoMore(c)
  /\ LET r == worker[c].read
     IN  IF peer[c] = "reset" THEN process' = "ended" /\ UNCHANGED worker
         ELSE /\ IF r = sent[c] THEN Turn(c, [worker[c] EXCEPT !.pc = "check"])
                 ELSE Turn(c, [worker[c] EXCEPT !.pc = "push", !.read = sent[c], !.buf = Kept(c, r, sent[c])])
              /\ UNCHANGED process
  /\ UNCHANGED <<peers, accepting, resource, channels, crossing, script, written>>

\* on_recv, Push2CrossThreadEventPendingQueue: under event_required_queue_mutex,
\* which the main thread does not take when it pops.
BeginPush(c) ==
  /\ Pc(c, "push") /\ pushing = None
  /\ pushing' = c
  /\ Turn(c, [worker[c] EXCEPT !.pc = "pushing"])
  /\ UNCHANGED <<process, peers, accepting, resource, channels, queue, script, written>>
\* Mutant: an event replaces the one that waits.
EndPushReplaces(c) ==
  /\ Pc(c, "pushing")
  /\ queue' = <<[conn |-> c, tid |-> worker[c].tid, id |-> worker[c].id, buf |-> worker[c].buf,
              from |-> worker[c].pushed, to |-> worker[c].read]>>
  /\ pushing' = None
  /\ Turn(c, [worker[c] EXCEPT !.pc = "check", !.buf = <<>>, !.pushed = worker[c].read])
  /\ UNCHANGED <<process, peers, accepting, resource, channels, script, written>>

EndPush(c) ==
  /\ Pc(c, "pushing")
  /\ queue' = Append(queue, [conn |-> c, tid |-> worker[c].tid, id |-> worker[c].id, buf |-> worker[c].buf,
                              from |-> worker[c].pushed, to |-> worker[c].read])
  /\ pushing' = None
  /\ Turn(c, [worker[c] EXCEPT !.pc = "check", !.buf = <<>>, !.pushed = worker[c].read])
  /\ UNCHANGED <<process, peers, accepting, resource, channels, script, written>>

Thread(c) == \/ ReceiveChannelPayload(c) \/ SendData(c) \/ CloseConnection(c) \/ EraseSocket(c)
             \/ Read(c) \/ BeginPush(c) \/ EndPush(c)

-----------------------------------------------------------------------------
(* The main thread.                                                        *)

Idle == process = "up" /\ main = "loop" /\ todo = <<>>
Payload(o, n, e) == [event_name |-> e, conn |-> o.conn, tid |-> o.tid, n |-> n]

Text(e) == [from |-> e.from, to |-> e.to, buf |-> e.buf]

\* Mutant: the first message goes to on_accept only.
MessageCbAcceptOnly(e, conns) ==
  /\ connection' = conns
  /\ received' = IF e.id \in DOMAIN connection
                 THEN [received EXCEPT ![conns[e.id].conn] = Append(@, Text(e))] ELSE received
  /\ UNCHANGED <<todo, published>>

\* messageCb: the first message of an id makes its object the connection's; the
\* next ones put their bytes into it.  The handler sends an answer, to this
\* connection or to another one whose object it has kept, and may close that one.
MessageCb(e, conns) ==
  /\ connection' = conns
  /\ received' = [received EXCEPT ![conns[e.id].conn] = Append(@, Text(e))]
  /\ \E o \in Range(conns), answer \in {<<>>, <<"send_data">>, <<"send_data", "close_connection">>} :
       LET n == published[o.conn] + 1
       IN  /\ todo' = [i \in 1..Len(answer) |-> Payload(o, n, answer[i])]
           /\ published' = [published EXCEPT ![o.conn] = IF answer = <<>> THEN @ ELSE n]

\* The first message of an id makes its object.
Accepted(e) == [i \in DOMAIN connection \cup {e.id} |->
                  IF i = e.id THEN [conn |-> e.conn, tid |-> e.tid] ELSE connection[i]]

\* An exception leaves the loop, for the prompt or, of a script that is a file,
\* for the end of the process.
Unwind == \/ main' = "prompt" /\ UNCHANGED process
          \/ process' = "ended" /\ UNCHANGED main

\* The loop pops an event and calls messageCb.
Pop ==
  /\ Idle /\ queue # <<>>
  /\ queue' = Tail(queue)
  /\ LET e == Head(queue)
     IN  \/ e.id \in DOMAIN connection /\ MessageCb(e, connection)
         \/ e.id \notin DOMAIN connection /\ MessageCb(e, Accepted(e))
  /\ UNCHANGED <<process, peers, accepting, worker, resource, channels, pushing, main, closed, raised, written>>
\* on_accept throws: the event is lost, and its object is not kept.
AcceptRaises ==
  /\ Idle /\ queue # <<>> /\ "raise" \in Losses
  /\ Head(queue).id \notin DOMAIN connection
  /\ queue' = Tail(queue) /\ raised' = raised \cup {Head(queue).conn}
  /\ Unwind
  /\ UNCHANGED <<peers, accepting, worker, resource, channels, pushing, connection, todo, received, published,
                 closed, written>>
\* on_message, when it has sent what it sends, or any other task of the loop throws.
TaskRaises ==
  /\ Idle /\ "raise" \in Losses /\ Unwind
  /\ UNCHANGED <<peers, accepting, worker, resource, channels, crossing, connection, todo, received, published,
                 closed, raised, written>>
\* The user enters a line: VM::Run again, with the tasks that were left.
Input ==
  /\ process = "up" /\ main = "prompt" /\ main' = "loop"
  /\ UNCHANGED <<process, peers, accepting, worker, resource, channels, crossing, connection, todo, received,
                 published, closed, raised, written>>
\* When a thread is pushing at the moment of a pop, the two change the queue at
\* once, and it may be torn.
Torn ==
  /\ Idle /\ queue # <<>> /\ pushing # None
  /\ process' = "torn"
  /\ UNCHANGED <<peers, accepting, worker, resource, channels, crossing, script, written>>

\* ChannelPublish, from send_server_data and close_server_connection: to a thread
\* id, whichever thread has it.  n becomes 0 when that thread was told to close.
ChannelPublish ==
  /\ process = "up" /\ todo # <<>>
  /\ LET p == Head(todo)
     IN  /\ channels' = [channels EXCEPT ![p.tid] = Append(@, [p EXCEPT !.n = IF p.conn \in closed THEN 0 ELSE @])]
         /\ closed' = IF p.event_name = "close_connection"
                      THEN closed \cup {c \in Running : worker[c].tid = p.tid} ELSE closed
  /\ todo' = Tail(todo)
  /\ UNCHANGED <<process, peers, accepting, worker, resource, crossing, main, connection, received, published, raised, written>>

Main == Pop \/ Torn \/ ChannelPublish

Next == \/ \E c \in Conn : Peer(c) \/ Thread(c)
        \/ \E l \in Listener : Listen(l) \/ Error(l)
        \/ Main \/ AcceptRaises \/ TaskRaises \/ Input

\* Every thread goes on, and the main thread while it is in the loop, where it has
\* tasks, the poll timer at least.  No call has to fail, and no user to type.
Spec == Init /\ [][Next]_vars
FairSpec == Spec /\ WF_vars(Main) /\ \A c \in Conn : WF_vars(Thread(c))
                 /\ \A l \in Listener : WF_vars(Listen(l))

-----------------------------------------------------------------------------
(* Properties.                                                             *)

TypeOK ==
  /\ process \in {"up", "ended", "torn"}
  /\ sockets \subseteq Fd /\ socket_m \in Conn \cup {None} /\ pushing \in Conn \cup {None}
  /\ DOMAIN channels = Tid
  /\ main \in {"loop", "prompt"}
  /\ \A c \in Conn : worker[c].read <= sent[c]

\* ResouceControl has just the open descriptors, for the close at exit: although
\* a number that is closed may be accepted again before it is erased (the mutex
\* holds RecordSocket back), and is not recorded the moment it is open.
SocketsRecorded ==
  /\ TypeOK
  /\ process = "up" =>
    /\ \A c \in Running : worker[c].pc # "erase" => worker[c].fd \in sockets
    /\ \A s \in sockets \ Open : \E c \in Running : worker[c].pc = "erase" /\ worker[c].fd = s

\* The texts that on_message gets of a connection are what its thread has read,
\* read after read: none is left out, doubled or before its turn, and none is of
\* another connection.  A text is the bytes of its read as the peer sent them, all
\* of them or those before a NUL.  Unless on_accept threw, and when all connections
\* come to one server.
StreamKept ==
  Cardinality(Listener) = 1 =>
    \A c \in Conn \ raised : \A i \in DOMAIN received[c] :
      LET text == received[c][i]
      IN  /\ text.from = IF i = 1 THEN 0 ELSE received[c][i - 1].to
          /\ text.from < text.to /\ text.to <= sent[c]
          /\ \E k \in text.from..text.to : /\ text.buf = Bytes(c, text.from, k)
                                           /\ k = text.to \/ k + 1 \in Nul

\* What a thread gives to write is what the script sent to its connection, every
\* answer once, the k-th behind those before it, though thread ids, and so
\* channels, are used again (ServerBind.h:36): the peer misses those only that write
\* took a part of, or nothing.  Except what is sent after the thread was told to close (n is 0):
\* that reaches a later thread of its id, and a close among it ends it.
AnswersInOrder ==
  \A c \in Conn : \A i \in DOMAIN written[c] :
    LET n == written[c][i].n
    IN  n # 0 => /\ written[c][i].conn = c
                 /\ {written[c][j].n : j \in 1..(i - 1)} \ {0} = 1..(n - 1)

\* A connection whose thread is told to close is closed: its thread looks into the
\* channel again and again, whether its peer sends, is silent or has gone.
CloseEndsThread ==
  \A c \in Conn : c \in closed ~> (worker[c].pc = "ended" \/ process # "up")

\* The byte up to which the texts of c reach.
Heard(c) == IF received[c] = <<>> THEN 0 ELSE received[c][Len(received[c])].to

\* What a peer sends reaches the script, in a text that may be cut before it at a
\* NUL, unless the connection's thread ends first, be it by a close that was meant for
\* an earlier thread of its id, or an exception takes the main thread from the loop,
\* which that of its on_accept does with the text itself.
BytesArrive ==
  \A c \in Conn : \A n \in 1..MaxSend :
    sent[c] >= n ~> (Heard(c) >= n \/ worker[c].pc = "ended" \/ main = "prompt" \/ c \in raised \/ process # "up")
=============================================================================
