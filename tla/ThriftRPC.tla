----------------------------- MODULE ThriftRPC -----------------------------
(***************************************************************************)
(* The Thrift programs: Server.cpp with the TestProtoRPCServer it builds   *)
(* and destroys (Example-ThriftRPC/IRPC.h, TestRPC.h), Client.cpp with its *)
(* TestProtoRPCClient, and the generated stubs between them                *)
(* (gen-cpp/TestProto.cpp).  A client may run on the server's host or on   *)
(* any other: each host's CLOCK_MONOTONIC counts from its own start, and   *)
(* they are taken to run at the same rate while a program runs.            *)
(*                                                                         *)
(* A client makes two calls, remoteTime and send, each over a connection   *)
(* of its own: the constructor opens the first, and send reopens what      *)
(* remoteTime closed.  Connection <<c, k>> is the one of client c's k-th   *)
(* call.  TThreadedServer, TServerSocket and TSocket are external, and are *)
(* modelled from how the code relies on them: one server thread that       *)
(* listens and accepts, one thread per accepted connection, an interrupt   *)
(* that reaches only a socket that listens, and a serve() that returns     *)
(* when the connections' threads have ended.                               *)
(***************************************************************************)
EXTENDS Integers

CONSTANTS
  Clients,    (* the client programs                                       *)
  RetryLimit, (* retry_limit                                               *)
  ServerUp,   (* what the clock of the server's host shows at the beginning*)
  ClientUp,   (* and that of each client's host                            *)
  TimeMod,    (* 2^64: the number of values of a time                      *)
  MaxClock    (* bound: ticks of the clocks                                *)

ASSUME ThriftRPCAssumption ==
  /\ RetryLimit \in Nat \ {0} /\ MaxClock \in Nat /\ TimeMod \in Nat
  /\ ServerUp \in Nat /\ ServerUp + MaxClock < TimeMod
  /\ ClientUp \in [Clients -> Nat]
  /\ \A c \in Clients : ClientUp[c] + MaxClock < TimeMod

Calls == 1 .. 2

Links == Clients \X Calls

VARIABLES
  clock,        (* how far every host's CLOCK_MONOTONIC has come           *)
  main,         (* where the server program's main thread is               *)
  serving,      (* the thread asyncRun starts, in TThreadedServer::serve   *)
  interrupted,  (* the accept loop was told to stop                        *)
  cut,          (* the connections' threads were told to stop              *)
  link,         (* each connection                                         *)
  wire,         (* the message in flight on it                             *)
  handler,      (* the server's thread for it                              *)
  handled,      (* history: how often its call was carried out             *)
  pc,           (* where each client is                                    *)
  call,         (* the call it is at                                       *)
  retry_times,  (* failed attempts of its constructor                      *)
  request_time, remote_time, response_time   (* what it read for that call  *)

server == <<main, serving, interrupted, cut>>
times == <<request_time, remote_time, response_time>>
client == <<pc, call, retry_times>>
network == <<link, wire, handler, handled>>
vars == <<clock, server, times, client, network>>

Unread == -1

(* StopWatchDetail::nanoseconds(CLOCK_MONOTONIC) on either side *)
ServerTime == clock + ServerUp

ClientTime(c) == clock + ClientUp[c]

Times == {Unread} \cup 0 .. TimeMod - 1

(* A message: what it is, and the time a reply carries. *)
Empty == [kind |-> "none", time |-> Unread]

Replies == {"reply", "exception"}

TypeOK ==
  /\ clock \in 0 .. MaxClock
  /\ main \in {"asyncRun", "stop", "interrupt", "join", "gone", "aborted"}
  /\ serving \in {"none", "started", "accept", "drain", "ended"}
  /\ interrupted \in BOOLEAN /\ cut \in BOOLEAN
  /\ link \in [Links -> {"none", "backlog", "open", "closed"}]
  /\ wire \in [Links -> [kind : {"none", "call"} \cup Replies, time : Times]]
  /\ handler \in [Links -> {"none", "read", "handle", "ended"}]
  /\ handled \in [Links -> Nat]
  /\ pc \in [Clients -> {"connect", "ask", "call", "receive", "report", "done", "threw"}]
  /\ call \in [Clients -> Calls]
  /\ retry_times \in [Clients -> 0 .. RetryLimit]
  /\ \A t \in {request_time, remote_time, response_time} : t \in [Clients -> Times]

Init ==
  /\ clock = 0
  /\ main = "asyncRun" /\ serving = "none"
  /\ interrupted = FALSE /\ cut = FALSE
  /\ link = [l \in Links |-> "none"]
  /\ wire = [l \in Links |-> Empty]
  /\ handler = [l \in Links |-> "none"]
  /\ handled = [l \in Links |-> 0]
  /\ pc = [c \in Clients |-> "connect"]
  /\ call = [c \in Clients |-> 1]
  /\ retry_times = [c \in Clients |-> 0]
  /\ request_time = [c \in Clients |-> Unread]
  /\ remote_time = request_time /\ response_time = request_time

----------------------------------------------------------------------------
(* The server program *)

Listening == serving = "accept"

(* The sockets of an interrupt are made when the server listens.           *)
Reachable == serving \notin {"none", "started"}

(* asyncRun returns when the thread runs, which may be long before it      *)
(* listens.                                                                *)
AsyncRun ==
  /\ main = "asyncRun"
  /\ main' = "stop" /\ serving' = "started"
  /\ UNCHANGED <<clock, interrupted, cut, times, client, network>>

(* ~IRPCServer and stop: TThreadedServer::stop first interrupts the        *)
(* connections' threads and then the accept loop.                          *)
StopChildren ==
  /\ main = "stop"
  /\ main' = "interrupt" /\ cut' = Reachable
  /\ UNCHANGED <<clock, serving, interrupted, times, client, network>>

(* Fault: the accept loop is not told. *)
StopServerSilently ==
  /\ main = "interrupt"
  /\ main' = "join"
  /\ UNCHANGED <<clock, serving, interrupted, cut, times, client, network>>

StopServer ==
  /\ main = "interrupt"
  /\ main' = "join" /\ interrupted' = Reachable
  /\ UNCHANGED <<clock, serving, cut, times, client, network>>

(* Fault: the server object is left without waiting for its thread. *)
LeaveAtOnce ==
  /\ main = "join"
  /\ main' = "gone"
  /\ UNCHANGED <<clock, serving, interrupted, cut, times, client, network>>

(* thread->join() and leave(). *)
JoinAndLeave ==
  /\ main = "join" /\ serving = "ended"
  /\ main' = "gone"
  /\ UNCHANGED <<clock, serving, interrupted, cut, times, client, network>>

Main == AsyncRun \/ StopChildren \/ StopServer \/ JoinAndLeave

(* The thread runs TThreadedServer::run and not IRPCServer::serve: nothing *)
(* catches the exception of a socket that cannot be bound.                 *)
Listen ==
  /\ serving = "started"
  /\ \/ serving' = "accept" /\ UNCHANGED main
     \/ serving' = "ended" /\ main' = "aborted"
  /\ UNCHANGED <<clock, interrupted, cut, times, client, network>>

Accept(l) ==
  /\ Listening /\ ~interrupted
  /\ link[l] = "backlog"
  /\ link' = [link EXCEPT ![l] = "open"]
  /\ handler' = [handler EXCEPT ![l] = "read"]
  /\ UNCHANGED <<clock, server, times, client, wire, handled>>

(* The loop ends and the socket is closed, with all that was not accepted. *)
StopListening ==
  /\ Listening /\ interrupted
  /\ serving' = "drain"
  /\ link' = [l \in Links |-> IF link[l] = "backlog" THEN "closed" ELSE link[l]]
  /\ UNCHANGED <<clock, main, interrupted, cut, times, client, wire, handler, handled>>

Drained ==
  /\ serving = "drain"
  /\ \A l \in Links : handler[l] \in {"none", "ended"}
  /\ serving' = "ended"
  /\ UNCHANGED <<clock, main, interrupted, cut, times, client, network>>

ServerThread == Listen \/ StopListening \/ Drained \/ \E l \in Links : Accept(l)

(* dispatchCall and process_remoteTime or process_send, as far as the      *)
(* arguments are read off the connection.  This client names no method the *)
(* server does not know.                                                   *)
ReadCall(l) ==
  /\ handler[l] = "read" /\ link[l] = "open" /\ ~cut
  /\ wire[l].kind = "call"
  /\ handler' = [handler EXCEPT ![l] = "handle"]
  /\ wire' = [wire EXCEPT ![l] = Empty]
  /\ UNCHANGED <<clock, server, times, client, link, handled>>

(* process_remoteTime, process_send and the handler: the reply carries the *)
(* time, or says that send threw (the 2 GiB it allocates).                 *)
Handle(l) ==
  /\ handler[l] = "handle"
  /\ handled' = [handled EXCEPT ![l] = @ + 1]
  /\ \/ /\ link[l] = "open"
        /\ \/ wire' = [wire EXCEPT ![l] = [kind |-> "reply", time |-> ServerTime]]
           \/ l[2] = 2 /\ wire' = [wire EXCEPT ![l] = [kind |-> "exception", time |-> Unread]]
        /\ handler' = [handler EXCEPT ![l] = "read"]
     \/ /\ link[l] = "closed"
        /\ handler' = [handler EXCEPT ![l] = "ended"]
        /\ UNCHANGED wire
  /\ UNCHANGED <<clock, server, times, client, link>>

(* The thread of a connection that was closed, or that it is told to       *)
(* leave, ends; what it wrote is still delivered.                          *)
HandlerEnds(l) ==
  /\ handler[l] = "read"
  /\ link[l] = "closed" \/ cut
  /\ handler' = [handler EXCEPT ![l] = "ended"]
  /\ link' = [link EXCEPT ![l] = "closed"]
  /\ UNCHANGED <<clock, server, times, client, wire, handled>>

HandlerThread(l) == ReadCall(l) \/ Handle(l) \/ HandlerEnds(l)

----------------------------------------------------------------------------
(* The client program *)

Here(c) == <<c, call[c]>>

At(c, from, to) == pc[c] = from /\ pc' = [pc EXCEPT ![c] = to]

(* transport->open(): a connection waits to be accepted, or is refused.    *)
Connect(c) ==
  /\ Listening
  /\ link' = [link EXCEPT ![Here(c)] = "backlog"]
  /\ UNCHANGED <<wire, handler, handled>>

(* A String is thrown that nothing catches: the program ends, and with it  *)
(* the connection it may have left open.                                   *)
Throw(c) ==
  /\ pc' = [pc EXCEPT ![c] = "threw"]
  /\ link' = [link EXCEPT ![Here(c)] = IF @ = "none" THEN "none" ELSE "closed"]
  /\ UNCHANGED <<wire, handler, handled>>

(* The constructor tries retry_limit times; its counter then goes out of  *)
(* scope.                                                                  *)
Construct(c) ==
  /\ At(c, "connect", "ask")
  /\ Connect(c)
  /\ retry_times' = [retry_times EXCEPT ![c] = 0]
  /\ UNCHANGED <<clock, server, times, call>>

(* Fault: an attempt that failed is not counted. *)
RefusedUncounted(c) ==
  /\ pc[c] = "connect"
  /\ UNCHANGED vars

(* Fault: the limit is compared with the attempts before this one. *)
RefusedOnceMore(c) ==
  /\ pc[c] = "connect"
  /\ retry_times' = [retry_times EXCEPT ![c] = @ + 1]
  /\ IF retry_times[c] = RetryLimit THEN Throw(c) ELSE UNCHANGED <<pc, network>>
  /\ UNCHANGED <<clock, server, times, call>>

Refused(c) ==
  /\ pc[c] = "connect"
  /\ retry_times' = [retry_times EXCEPT ![c] = @ + 1]
  /\ IF retry_times[c] + 1 = RetryLimit THEN Throw(c) ELSE UNCHANGED <<pc, network>>
  /\ UNCHANGED <<clock, server, times, call>>

(* The request's time is read and transportOpen() called, which does       *)
(* nothing when the constructor's connection is still there, even when its *)
(* other end is gone, and tries once otherwise.  Each call has a block of  *)
(* variables of its own.                                                   *)
Request(c) ==
  /\ pc[c] = "ask"
  /\ \/ link[Here(c)] # "none" /\ At(c, "ask", "call") /\ UNCHANGED network
     \/ link[Here(c)] = "none" /\ At(c, "ask", "call") /\ Connect(c)
     \/ link[Here(c)] = "none" /\ Throw(c)
  /\ request_time' = [request_time EXCEPT ![c] = ClientTime(c)]
  /\ remote_time' = [remote_time EXCEPT ![c] = Unread]
  /\ response_time' = [response_time EXCEPT ![c] = Unread]
  /\ UNCHANGED <<clock, server, call, retry_times>>

(* send_remoteTime and send_send *)
SendCall(c) ==
  /\ pc[c] = "call"
  /\ IF link[Here(c)] = "closed" THEN Throw(c)
     ELSE /\ At(c, "call", "receive")
          /\ wire' = [wire EXCEPT ![Here(c)] = [kind |-> "call", time |-> Unread]]
          /\ UNCHANGED <<link, handler, handled>>
  /\ UNCHANGED <<clock, server, times, call, retry_times>>

(* Fault: the request's time is read when the reply is there. *)
ReceiveReplyThenAsk(c) ==
  LET l == Here(c)
  IN  /\ At(c, "receive", "report")
      /\ wire[l].kind = "reply"
      /\ remote_time' = [remote_time EXCEPT ![c] = wire[l].time]
      /\ request_time' = [request_time EXCEPT ![c] = ClientTime(c)]
      /\ wire' = [wire EXCEPT ![l] = Empty]
      /\ link' = [link EXCEPT ![l] = "closed"]
      /\ UNCHANGED <<clock, server, response_time, call, retry_times, handler, handled>>

(* recv_remoteTime or recv_send, and transportClose() *)
ReceiveReply(c) ==
  LET l == Here(c)
  IN  /\ At(c, "receive", "report")
      /\ wire[l].kind = "reply"
      /\ remote_time' = [remote_time EXCEPT ![c] = wire[l].time]
      /\ wire' = [wire EXCEPT ![l] = Empty]
      /\ link' = [link EXCEPT ![l] = "closed"]
      /\ UNCHANGED <<clock, server, request_time, response_time, call, retry_times, handler, handled>>

(* Fault: a call that failed is made again, over a new connection. *)
ReceiveFailsRetry(c) ==
  /\ At(c, "receive", "ask")
  /\ \/ wire[Here(c)].kind = "exception"
     \/ link[Here(c)] = "closed" /\ wire[Here(c)].kind # "reply"
  /\ link' = [link EXCEPT ![Here(c)] = "none"]
  /\ UNCHANGED <<clock, server, times, call, retry_times, wire, handler, handled>>

ReceiveFails(c) ==
  /\ pc[c] = "receive"
  /\ \/ wire[Here(c)].kind = "exception"
     \/ link[Here(c)] = "closed" /\ wire[Here(c)].kind # "reply"
  /\ Throw(c)
  /\ UNCHANGED <<clock, server, times, call, retry_times>>

ResponseTime(c) ==
  /\ response_time' = [response_time EXCEPT ![c] = ClientTime(c)]
  /\ IF call[c] = 1 THEN At(c, "report", "ask") /\ call' = [call EXCEPT ![c] = 2]
     ELSE At(c, "report", "done") /\ UNCHANGED call
  /\ UNCHANGED <<clock, server, request_time, remote_time, retry_times, network>>

Client(c) ==
  \/ Construct(c) \/ Refused(c) \/ Request(c) \/ SendCall(c)
  \/ ReceiveReply(c) \/ ReceiveFails(c) \/ ResponseTime(c)

----------------------------------------------------------------------------
Tick == clock < MaxClock /\ clock' = clock + 1 /\ UNCHANGED <<server, times, client, network>>

(* A connection breaks, and what is in flight is lost. *)
Break(l) ==
  /\ link[l] = "open"
  /\ link' = [link EXCEPT ![l] = "closed"]
  /\ wire' = [wire EXCEPT ![l] = Empty]
  /\ UNCHANGED <<clock, server, times, client, handler, handled>>

Next ==
  \/ Main \/ ServerThread \/ Tick
  \/ \E c \in Clients : Client(c)
  \/ \E l \in Links : HandlerThread(l) \/ Break(l)

(* Every thread goes on while it can.  The clients make a bounded number   *)
(* of steps, and so do the connections' threads: fairness to all of them   *)
(* is fairness to each.  The clock and broken connections are not relied   *)
(* upon.                                                                   *)
Fairness ==
  /\ WF_vars(Main) /\ WF_vars(ServerThread)
  /\ WF_vars(\E c \in Clients : Client(c))
  /\ WF_vars(\E l \in Links : HandlerThread(l))

Spec == Init /\ [][Next]_vars /\ Fairness

----------------------------------------------------------------------------
(* Properties *)

(* The clock of the server's host less that of the client's.               *)
Skew(c) == ServerUp - ClientUp[c]

(* The differences Client.cpp prints are those of unsigned numbers. *)
Printed(a, b) == (a - b) % TimeMod

(* Allowing for the difference of the two clocks, the server read the time *)
(* it answers with while this client waited for it.                        *)
TimesOrdered ==
  \A c \in Clients :
    response_time[c] # Unread =>
      /\ request_time[c] <= remote_time[c] - Skew(c)
      /\ remote_time[c] - Skew(c) <= response_time[c]

(* The answer a client prints is fresh.  So the printed times add up to    *)
(* what the call took if client and server are on one host; if not, either *)
(* is off by the difference of the clocks and may wrap.                    *)
AnswerFresh ==
  /\ TimesOrdered
  /\ \A c \in Clients :
       response_time[c] # Unread /\ Skew(c) = 0 =>
         Printed(remote_time[c], request_time[c]) + Printed(response_time[c], remote_time[c])
           = response_time[c] - request_time[c]

(* A call is carried out at most once, whatever breaks, and exactly once   *)
(* when it returns: no connection repeats a call, and the constructor's    *)
(* retries make none.                                                      *)
HandledOnce ==
  /\ \A l \in Links : handled[l] <= 1
  /\ \A c \in Clients : pc[c] \in {"report", "done"} => handled[Here(c)] = 1

(* When the server object is gone, none of its threads runs and no call is *)
(* carried out any more (IRPCServer::stop, leave).                         *)
NothingAfterLeave ==
  main = "gone" =>
    /\ serving = "ended"
    /\ \A l \in Links : handler[l] \in {"none", "ended"} /\ link[l] # "backlog"

(* Every client ends, with its answers or with an exception: none tries    *)
(* for ever, and a server that stops leaves nobody waiting.                *)
ClientsEnd == <>(\A c \in Clients : pc[c] \in {"done", "threw"})

(* A server that listens when its destructor runs comes to an end, whoever *)
(* is connected.  (One that does not yet listen misses the interrupt and   *)
(* serves for ever.)                                                       *)
ListeningServerStops == (main = "interrupt" /\ Listening) ~> main = "gone"

----------------------------------------------------------------------------
(* The inductive invariant behind the safety properties *)

(* Connections are made and accepted while the server listens, and it      *)
(* stops listening before it ends: nothing of an ended server runs.        *)
ServerOK ==
  /\ main = "asyncRun" => serving = "none"
  /\ main = "gone" => serving = "ended"
  /\ serving # "accept" => \A l \in Links : link[l] # "backlog"
  /\ serving \in {"none", "started", "ended"} => \A l \in Links : handler[l] \in {"none", "ended"}

(* A connection carries one call at a time, and a call that is under way   *)
(* has not been carried out.                                               *)
LinkOK(l) ==
  /\ link[l] = "none" => wire[l] = Empty /\ handled[l] = 0
  /\ link[l] \in {"none", "backlog"} => handler[l] = "none"
  /\ handler[l] = "handle" => wire[l] = Empty /\ handled[l] = 0
  /\ wire[l].kind = "call" => handled[l] = 0
  /\ wire[l].kind \in Replies => handled[l] = 1
  /\ handled[l] <= 1

(* A client has sent nothing for its call before it is at "receive", and   *)
(* the call has been carried out once it is past it.  The second           *)
(* connection is not there before the first call has returned.             *)
CallOK(c) ==
  /\ pc[c] = "connect" => /\ link[Here(c)] = "none"
                          /\ retry_times[c] < RetryLimit
  /\ call[c] = 1 => link[<<c, 2>>] = "none"
  /\ pc[c] \in {"connect", "ask", "call"} =>
       wire[Here(c)] = Empty /\ handled[Here(c)] = 0 /\ handler[Here(c)] # "handle"
  /\ pc[c] \in {"call", "receive"} => link[Here(c)] # "none"
  /\ pc[c] \in {"report", "done"} => handled[Here(c)] = 1

(* The times a client has, and the one on the wire, were read in order,    *)
(* each on the clock of its host.                                          *)
TimesOK(c) ==
  /\ request_time[c] <= ClientTime(c)
  /\ pc[c] \in {"call", "receive", "report"} \/ response_time[c] # Unread =>
       request_time[c] # Unread
  /\ pc[c] = "receive" /\ wire[Here(c)].kind = "reply" => wire[Here(c)].time # Unread
  /\ pc[c] = "report" \/ response_time[c] # Unread => remote_time[c] # Unread
  /\ pc[c] \in {"call", "receive", "report"} => response_time[c] = Unread
  /\ pc[c] = "receive" /\ wire[Here(c)].kind = "reply" =>
       request_time[c] <= wire[Here(c)].time - Skew(c) /\ wire[Here(c)].time <= ServerTime
  /\ pc[c] = "report" =>
       request_time[c] <= remote_time[c] - Skew(c) /\ remote_time[c] <= ServerTime

(* What the connections have carried, what the clients wait for and which  *)
(* of the server's threads may run fit together (IRPC.h, Client.cpp).      *)
Inv ==
  /\ TypeOK /\ TimesOrdered /\ ServerOK
  /\ \A l \in Links : LinkOK(l)
  /\ \A c \in Clients : CallOK(c) /\ TimesOK(c)
============================================================================
