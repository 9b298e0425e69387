-------------------------- MODULE ThriftRPCProofs --------------------------
(***************************************************************************)
(* The safety of the Thrift programs for any number of clients, any number *)
(* of retries and any time: what breaks, and when the server stops, does   *)
(* not matter.                                                             *)
(***************************************************************************)
EXTENDS ThriftRPC, TLAPS

-----------------------------------------------------------------------------
(* Connections and clients *)

LEMMA HereIsLink ==
  ASSUME TypeOK, NEW c \in Clients
  PROVE  /\ Here(c) \in Links /\ Here(c)[1] = c /\ Here(c)[2] = call[c]
         /\ call[c] \in {1, 2}
         /\ \A d \in Clients, k \in Calls : Here(c) = <<d, k>> => c = d /\ call[c] = k
         /\ \A d \in Clients : Here(c) = Here(d) => c = d
         /\ <<c, 2>> \in Links
BY DEF TypeOK, Here, Links, Calls

(* What the clocks show are times. *)
LEMMA Readings ==
  ASSUME TypeOK, NEW c \in Clients
  PROVE  /\ ServerTime \in Times /\ ServerTime \in Nat
         /\ ClientTime(c) \in Times /\ ClientTime(c) \in Nat
         /\ Unread \in Times /\ 0 \in Times /\ Times \subseteq Int
         /\ Skew(c) \in Int /\ ClientTime(c) = ServerTime - Skew(c)
<1>1. clock \in 0 .. MaxClock /\ ClientUp[c] \in Nat /\ ClientUp[c] + MaxClock < TimeMod
  BY ThriftRPCAssumption DEF TypeOK
<1> QED
  BY <1>1, ThriftRPCAssumption DEF ServerTime, ClientTime, Times, Unread, Skew

LEMMA ServerReading == ASSUME TypeOK PROVE ServerTime \in Times /\ Unread \in Times
BY ThriftRPCAssumption DEF TypeOK, ServerTime, Times, Unread

LEMMA LaterReading ==
  \A a \in Nat, b \in Nat, u \in Nat, x \in Int : a <= b /\ x <= a + u => x <= b + u
OBVIOUS

LEMMA Messages ==
  /\ Empty.kind = "none" /\ Empty.time = Unread
  /\ Unread \notin Nat /\ Unread \in Int
  /\ \A k, t : [kind |-> k, time |-> t].kind = k /\ [kind |-> k, time |-> t].time = t
BY DEF Empty, Unread

(* The clock and what is read off it are numbers.                          *)
LEMMA Numbers ==
  ASSUME TypeOK, NEW c \in Clients
  PROVE  /\ clock \in Nat
         /\ request_time[c] \in Int /\ remote_time[c] \in Int /\ response_time[c] \in Int
         /\ retry_times[c] \in Nat /\ RetryLimit \in Nat \ {0}
BY ThriftRPCAssumption DEF TypeOK, Unread, Times

LEMMA InitInv == Init => Inv
<1> SUFFICES ASSUME Init PROVE Inv
  OBVIOUS
<1>1. TypeOK
  <2>1. Empty \in [kind : {"none", "call"} \cup Replies, time : Times]
    BY DEF Empty, Times
  <2>2. 0 \in 0 .. MaxClock /\ 0 \in 0 .. RetryLimit /\ 1 \in Calls
    BY ThriftRPCAssumption DEF Calls
  <2>3. link \in [Links -> {"none", "backlog", "open", "closed"}]
    BY DEF Init
  <2>4. \A t \in {request_time, remote_time, response_time} :
          t \in [Clients -> Times]
    BY DEF Init, Times
  <2> QED
    BY <2>1, <2>2, <2>3, <2>4 DEF Init, TypeOK
<1>2. TimesOrdered /\ ServerOK
  BY DEF Init, TimesOrdered, ServerOK, Unread
<1>3. \A l \in Links : LinkOK(l)
  BY DEF Init, LinkOK, Empty, Replies
<1>4. ASSUME NEW c \in Clients PROVE CallOK(c) /\ TimesOK(c)
  <2>1. Here(c) \in Links /\ <<c, 2>> \in Links
    BY <1>1, HereIsLink
  <2> QED
    BY <2>1, ThriftRPCAssumption DEF Init, CallOK, TimesOK, Empty, Unread, ClientTime
<1> QED
  BY <1>1, <1>2, <1>3, <1>4 DEF Inv

-----------------------------------------------------------------------------
(* The server's main thread and its accept loop.                           *)

(* A step that leaves the connections' threads and the clients alone need  *)
(* only be right about the server and the connections it ends.             *)
LEMMA QuietStep ==
  ASSUME Inv, TypeOK', ServerOK',
         UNCHANGED <<times, client, wire, handler, handled>>,
         clock' \in Nat, clock <= clock',
         \A l \in Links : link'[l] = link[l] \/ (link[l] # "none" /\ link'[l] \in {"open", "closed"})
  PROVE  Inv'
<1> USE DEF Inv
<1>1. TimesOrdered'
  BY DEF TimesOrdered, times
<1>2. \A l \in Links : LinkOK(l)'
  BY DEF LinkOK
<1>3. ASSUME NEW c \in Clients PROVE CallOK(c)' /\ TimesOK(c)'
  <2>1. Here(c) \in Links /\ <<c, 2>> \in Links /\ Here(c)' = Here(c)
    BY HereIsLink DEF Here, client
  <2>2. CallOK(c)'
    BY <2>1 DEF CallOK, client
  <2>3. TimesOK(c)'
    <3>1. TimesOK(c) /\ UNCHANGED <<pc, wire, request_time, remote_time, response_time>>
      BY DEF client, times
    <3>2. \A x \in Int : /\ x <= ServerTime => x <= ServerTime'
                         /\ x <= ClientTime(c) => x <= ClientTime(c)'
      <4>1. ServerUp \in Nat /\ ClientUp[c] \in Nat
        BY ThriftRPCAssumption
      <4>2. clock \in Nat
        BY Numbers
      <4>3. \A u \in Nat, x \in Int : x <= clock + u => x <= clock' + u
        BY <4>2, LaterReading
      <4> QED
        BY <4>1, <4>3 DEF ServerTime, ClientTime
    <3>3. /\ wire[Here(c)].time \in Int /\ request_time[c] \in Int /\ remote_time[c] \in Int
          /\ Skew(c)' = Skew(c)
      BY <2>1, Numbers, Readings DEF TypeOK, Skew
    <3>4. request_time[c] <= ClientTime(c)'
      BY <3>1, <3>2, <3>3 DEF TimesOK
    <3>5. /\ wire[Here(c)].time <= ServerTime => wire[Here(c)].time <= ServerTime'
          /\ remote_time[c] <= ServerTime => remote_time[c] <= ServerTime'
      BY <3>2, <3>3
    <3> QED
      BY <2>1, <3>1, <3>3, <3>4, <3>5 DEF TimesOK
  <2> QED
    BY <2>2, <2>3
<1> QED
  BY <1>1, <1>2, <1>3

(* asyncRun, the destructor, stop and leave.                               *)
LEMMA MainKeepsInv == ASSUME Inv, Main PROVE Inv'
<1> USE DEF Inv
<1>1. /\ UNCHANGED <<clock, times, client, network>>
      /\ main' # main
      /\ main' = "gone" => serving' = "ended"
      /\ serving' = serving \/ (main = "asyncRun" /\ serving' = "started")
      /\ main' \in {"stop", "interrupt", "join", "gone"}
      /\ interrupted' \in BOOLEAN /\ cut' \in BOOLEAN
  BY DEF Main, AsyncRun, StopChildren, StopServer, JoinAndLeave, Reachable, TypeOK
<1>2. UNCHANGED <<times, client, link, wire, handler, handled>>
  BY <1>1 DEF network
<1>3. TypeOK'
  BY <1>1, <1>2 DEF TypeOK, times, client
<1>4. ServerOK'
  BY <1>1, <1>2 DEF ServerOK
<1> QED
  BY <1>1, <1>2, <1>3, <1>4, QuietStep, Numbers DEF TypeOK

LEMMA ListenKeepsInv == ASSUME Inv, Listen PROVE Inv'
<1> USE DEF Inv
<1>1. UNCHANGED <<clock, times, client, link, wire, handler, handled, interrupted, cut>>
  BY DEF Listen, network
<1>2. TypeOK'
  BY <1>1 DEF Listen, TypeOK, times, client
<1>3. ServerOK'
  BY <1>1 DEF Listen, ServerOK
<1> QED
  BY <1>1, <1>2, <1>3, QuietStep DEF TypeOK

LEMMA StopListeningKeepsInv == ASSUME Inv, StopListening PROVE Inv'
<1> USE DEF Inv, StopListening, Listening
<1>1. link' \in [Links -> {"none", "backlog", "open", "closed"}]
  BY DEF TypeOK
<1>2. TypeOK'
  BY <1>1 DEF TypeOK, times, client
<1>3. ServerOK'
  BY DEF ServerOK
<1>4. \A l \in Links : link'[l] = link[l] \/ (link[l] # "none" /\ link'[l] \in {"open", "closed"})
  OBVIOUS
<1> QED
  BY <1>2, <1>3, <1>4, QuietStep DEF TypeOK

LEMMA DrainedKeepsInv == ASSUME Inv, Drained PROVE Inv'
<1> USE DEF Inv, Drained
<1>1. UNCHANGED <<times, client, link, wire, handler, handled>>
  BY DEF network
<1>2. TypeOK'
  BY <1>1 DEF TypeOK, times, client
<1>3. ServerOK'
  BY <1>1 DEF ServerOK
<1> QED
  BY <1>1, <1>2, <1>3, QuietStep DEF TypeOK

LEMMA TickKeepsInv == ASSUME Inv, Tick PROVE Inv'
<1> USE DEF Inv, Tick
<1>1. UNCHANGED <<times, client, link, wire, handler, handled, main, serving, interrupted, cut>>
  BY DEF network, server
<1>2. clock' \in Nat /\ clock <= clock' /\ clock' \in 0 .. MaxClock
  BY ThriftRPCAssumption DEF TypeOK
<1>3. TypeOK'
  BY <1>1, <1>2 DEF TypeOK, times, client
<1>4. ServerOK'
  BY <1>1 DEF ServerOK
<1> QED
  BY <1>1, <1>2, <1>3, <1>4, QuietStep

-----------------------------------------------------------------------------
(* The connections and their threads on the server.                        *)

(* What happens on one connection is right for the clients if nothing is   *)
(* on a connection that nobody opened and nothing is carried out twice,    *)
(* and if a reply carries a time just read.                                *)
LEMMA OneLink ==
  ASSUME Inv, NEW l \in Links, TypeOK', ServerOK', LinkOK(l)',
         UNCHANGED <<clock, times, client>>,
         \A m \in Links \ {l} : /\ link'[m] = link[m] /\ wire'[m] = wire[m]
                                /\ handler'[m] = handler[m] /\ handled'[m] = handled[m],
         link[l] # "none", link'[l] # "none",
         handled[l] = 1 => handled'[l] = 1,
         \/ wire'[l] = wire[l] \/ wire'[l] = Empty
         \/ handler[l] = "handle" /\ wire'[l].time = ServerTime
         \/ handler[l] = "handle" /\ wire'[l].kind # "reply",
         \/ handled'[l] = handled[l] \/ handler[l] = "handle",
         handler'[l] = "handle" => handler[l] = "handle" \/ wire[l].kind = "call"
  PROVE  Inv'
<1> USE DEF Inv
<1>1. TimesOrdered'
  BY DEF TimesOrdered, times
<1>2. \A m \in Links : LinkOK(m)'
  BY DEF LinkOK
<1>3. ASSUME NEW c \in Clients PROVE CallOK(c)' /\ TimesOK(c)'
  <2>1. Here(c) \in Links /\ <<c, 2>> \in Links /\ Here(c)' = Here(c)
    BY HereIsLink DEF Here, client
  <2>2. CallOK(c)'
    <3>1. UNCHANGED <<pc, call, retry_times>>
      BY DEF client
    <3>2. CASE Here(c) = l
      BY <2>1, <3>1, <3>2, Messages DEF CallOK
    <3>3. CASE Here(c) # l
      BY <2>1, <3>1, <3>3 DEF CallOK
    <3> QED
      BY <3>2, <3>3
  <2>3. TimesOK(c)'
    <3>1. UNCHANGED <<pc, request_time, remote_time, response_time>>
      BY DEF client, times
    <3>2. CASE Here(c) = l
      <4>1. ClientTime(c)' = ClientTime(c) /\ ServerTime' = ServerTime /\ Skew(c)' = Skew(c)
        BY DEF ClientTime, ServerTime, Skew
      <4>2. ServerTime <= ServerTime /\ ServerTime - Skew(c) = ClientTime(c) /\ ServerTime # Unread
        BY Readings, Messages
      <4>3. TimesOK(c)
        OBVIOUS
      <4>4. CASE wire'[l] = wire[l]
        BY <2>1, <3>1, <3>2, <4>1, <4>3, <4>4 DEF TimesOK
      <4>5. CASE wire'[l].kind # "reply"
        BY <2>1, <3>1, <3>2, <4>1, <4>3, <4>5 DEF TimesOK
      <4>6. CASE wire'[l].time = ServerTime
        BY <2>1, <3>1, <3>2, <4>1, <4>2, <4>3, <4>6 DEF TimesOK
      <4> QED
        BY <4>4, <4>5, <4>6, Messages
    <3>3. CASE Here(c) # l
      BY <2>1, <3>1, <3>3 DEF TimesOK, ClientTime, ServerTime, Skew
    <3> QED
      BY <3>2, <3>3
  <2> QED
    BY <2>2, <2>3
<1> QED
  BY <1>1, <1>2, <1>3

LEMMA AcceptKeepsInv == ASSUME Inv, NEW l \in Links, Accept(l) PROVE Inv'
<1> USE DEF Inv, Accept, Listening
<1>1. TypeOK'
  BY DEF TypeOK, server, times, client
<1>2. ServerOK'
  BY DEF ServerOK, server, TypeOK
<1>3. LinkOK(l)'
  BY DEF LinkOK, TypeOK
<1>4. \A m \in Links \ {l} : link'[m] = link[m] /\ handler'[m] = handler[m]
  BY DEF TypeOK
<1>5. handler'[l] = "read" /\ link[l] # "none" /\ link'[l] # "none"
  BY DEF TypeOK
<1> QED
  BY <1>1, <1>2, <1>3, <1>4, <1>5, OneLink

LEMMA ReadCallKeepsInv == ASSUME Inv, NEW l \in Links, ReadCall(l) PROVE Inv'
<1> USE DEF Inv, ReadCall
<1>1. TypeOK'
  <2>1. Empty \in [kind : {"none", "call"} \cup Replies, time : Times]
    BY DEF Empty, Times
  <2> QED
    BY <2>1 DEF TypeOK, server, times, client
<1>2. ServerOK'
  BY DEF ServerOK, server, TypeOK
<1>3. LinkOK(l)'
  BY Messages DEF LinkOK, TypeOK, Replies
<1>4. \A m \in Links \ {l} : wire'[m] = wire[m] /\ handler'[m] = handler[m]
  BY DEF TypeOK
<1>5. wire'[l] = Empty /\ link[l] # "none" /\ link'[l] # "none"
  BY DEF TypeOK
<1> QED
  BY <1>1, <1>2, <1>3, <1>4, <1>5, OneLink

LEMMA HandleKeepsInv == ASSUME Inv, NEW l \in Links, Handle(l) PROVE Inv'
<1> USE DEF Inv
<1>1. /\ handler[l] = "handle" /\ wire[l] = Empty /\ handled[l] = 0 /\ link[l] # "none"
      /\ handled' = [handled EXCEPT ![l] = 1]
      /\ UNCHANGED <<clock, main, serving, interrupted, cut, times, client, link>>
  <2>1. LinkOK(l) /\ handler[l] = "handle"
    BY DEF Handle
  <2>2. wire[l] = Empty /\ handled[l] = 0 /\ link[l] # "none"
    BY <2>1 DEF LinkOK
  <2> QED
    BY <2>1, <2>2 DEF Handle, server
<1>2. \/ /\ wire' = [wire EXCEPT ![l] = [kind |-> "reply", time |-> ServerTime]]
         /\ handler' = [handler EXCEPT ![l] = "read"]
      \/ /\ wire' = [wire EXCEPT ![l] = [kind |-> "exception", time |-> Unread]]
         /\ handler' = [handler EXCEPT ![l] = "read"]
      \/ /\ wire' = wire
         /\ handler' = [handler EXCEPT ![l] = "ended"]
  BY DEF Handle
<1>3. \/ wire'[l] = [kind |-> "reply", time |-> ServerTime]
      \/ wire'[l] = [kind |-> "exception", time |-> Unread]
      \/ wire'[l] = Empty
  BY <1>1, <1>2 DEF TypeOK
<1>4. TypeOK'
  <2>1. /\ [kind |-> "reply", time |-> ServerTime] \in [kind : {"none", "call"} \cup Replies, time : Times]
        /\ [kind |-> "exception", time |-> Unread] \in [kind : {"none", "call"} \cup Replies, time : Times]
    BY Readings, ServerReading DEF Replies
  <2>2. wire' \in [Links -> [kind : {"none", "call"} \cup Replies, time : Times]]
    BY <1>2, <2>1 DEF TypeOK
  <2>3. handler' \in [Links -> {"none", "read", "handle", "ended"}] /\ handled' \in [Links -> Nat]
    BY <1>1, <1>2 DEF TypeOK
  <2> QED
    BY <1>1, <2>2, <2>3 DEF TypeOK, times, client
<1>5. handler'[l] \in {"read", "ended"} /\ handled'[l] = 1
  BY <1>1, <1>2 DEF TypeOK
<1>6. ServerOK'
  BY <1>1, <1>2 DEF ServerOK, TypeOK
<1>7. LinkOK(l)'
  BY <1>1, <1>3, <1>5, Messages DEF LinkOK, Replies
<1>8. \A m \in Links \ {l} : wire'[m] = wire[m] /\ handler'[m] = handler[m] /\ handled'[m] = handled[m]
  BY <1>1, <1>2 DEF TypeOK
<1>9. \/ wire'[l] = Empty \/ wire'[l].time = ServerTime \/ wire'[l].kind # "reply"
  BY <1>3, Messages
<1> QED
  BY <1>1, <1>4, <1>5, <1>6, <1>7, <1>8, <1>9, OneLink

LEMMA HandlerEndsKeepsInv == ASSUME Inv, NEW l \in Links, HandlerEnds(l) PROVE Inv'
<1> USE DEF Inv, HandlerEnds
<1>1. TypeOK'
  BY DEF TypeOK, server, times, client
<1>2. ServerOK'
  BY DEF ServerOK, server, TypeOK
<1>3. LinkOK(l)'
  BY DEF LinkOK, TypeOK
<1>4. \A m \in Links \ {l} : link'[m] = link[m] /\ handler'[m] = handler[m]
  BY DEF TypeOK
<1>5. handler'[l] = "ended" /\ link[l] # "none" /\ link'[l] # "none"
  BY DEF TypeOK, LinkOK
<1> QED
  BY <1>1, <1>2, <1>3, <1>4, <1>5, OneLink

LEMMA BreakKeepsInv == ASSUME Inv, NEW l \in Links, Break(l) PROVE Inv'
<1> USE DEF Inv, Break
<1>1. TypeOK'
  <2>1. Empty \in [kind : {"none", "call"} \cup Replies, time : Times]
    BY DEF Empty, Times
  <2> QED
    BY <2>1 DEF TypeOK, server, times, client
<1>2. ServerOK'
  BY DEF ServerOK, server, TypeOK
<1>3. LinkOK(l)'
  BY Messages DEF LinkOK, TypeOK, Replies
<1>4. \A m \in Links \ {l} : wire'[m] = wire[m] /\ link'[m] = link[m]
  BY DEF TypeOK
<1>5. wire'[l] = Empty /\ link[l] # "none" /\ link'[l] # "none" /\ UNCHANGED handler
  BY DEF TypeOK
<1> QED
  BY <1>1, <1>2, <1>3, <1>4, <1>5, OneLink

-----------------------------------------------------------------------------
(* The clients.                                                            *)

(* A client's step needs to be right for it and for the connection it is   *)
(* at; the others do not notice.                                           *)
LEMMA OneClient ==
  ASSUME Inv, NEW c \in Clients, NEW l \in Links, l = Here(c), TypeOK', ServerOK',
         LinkOK(l)', CallOK(c)', TimesOK(c)',
         response_time'[c] # Unread =>
           /\ request_time'[c] <= remote_time'[c] - Skew(c)
           /\ remote_time'[c] - Skew(c) <= response_time'[c],
         UNCHANGED <<clock, handler, handled>>,
         \A d \in Clients \ {c} :
           /\ pc'[d] = pc[d] /\ call'[d] = call[d] /\ retry_times'[d] = retry_times[d]
           /\ request_time'[d] = request_time[d] /\ remote_time'[d] = remote_time[d]
           /\ response_time'[d] = response_time[d],
         \A m \in Links \ {l} : link'[m] = link[m] /\ wire'[m] = wire[m]
  PROVE  Inv'
<1> USE DEF Inv
<1>1. TimesOrdered'
  BY DEF TimesOrdered, Unread, Skew
<1>2. \A m \in Links : LinkOK(m)'
  BY DEF LinkOK
<1>3. ASSUME NEW d \in Clients \ {c} PROVE CallOK(d)' /\ TimesOK(d)'
  <2>1. /\ Here(d) \in Links \ {l} /\ <<d, 2>> \in Links \ {l}
        /\ Here(d)' = Here(d)
    BY HereIsLink DEF Here
  <2>2. CallOK(d)'
    BY <2>1 DEF CallOK
  <2>3. TimesOK(d)'
    BY <2>1 DEF TimesOK, ClientTime, ServerTime, Skew
  <2> QED
    BY <2>2, <2>3
<1> QED
  BY <1>1, <1>2, <1>3

(* What a program that throws leaves behind.                               *)
LEMMA ThrowKeepsInv ==
  ASSUME Inv, NEW c \in Clients, Throw(c), UNCHANGED <<clock, server, call>>,
         TypeOK',
         \/ UNCHANGED <<request_time, remote_time, response_time>>
         \/ request_time'[c] <= ClientTime(c) /\ response_time'[c] = Unread,
         \A d \in Clients \ {c} :
           /\ retry_times'[d] = retry_times[d]
           /\ request_time'[d] = request_time[d] /\ remote_time'[d] = remote_time[d]
           /\ response_time'[d] = response_time[d]
  PROVE  Inv'
<1> USE DEF Inv, Throw
<1>1. PICK l \in Links : l = Here(c) /\ l = Here(c)' /\ <<c, 2>> \in Links
  BY HereIsLink DEF Here
<1>2. /\ \A d \in Clients \ {c} : pc'[d] = pc[d]
      /\ \A m \in Links \ {l} : link'[m] = link[m]
      /\ link'[l] = IF link[l] = "none" THEN "none" ELSE "closed"
      /\ pc'[c] = "threw"
  BY <1>1 DEF TypeOK
<1>3. ServerOK'
  BY <1>1, <1>2 DEF ServerOK, server
<1>4. LinkOK(l)'
  BY <1>1, <1>2 DEF LinkOK
<1>5. CallOK(c)'
  BY <1>1, <1>2 DEF CallOK
<1>6. TimesOK(c)'
  BY <1>2 DEF TimesOK, ClientTime
<1>7. response_time'[c] # Unread =>
        /\ request_time'[c] <= remote_time'[c] - Skew(c)
        /\ remote_time'[c] - Skew(c) <= response_time'[c]
  BY DEF TimesOrdered
<1> QED
  BY <1>1, <1>2, <1>3, <1>4, <1>5, <1>6, <1>7, OneClient

LEMMA ConstructKeepsInv == ASSUME Inv, NEW c \in Clients, Construct(c) PROVE Inv'
<1> USE DEF Inv, Construct, At, Connect, Listening
<1>1. PICK l \in Links : /\ l = Here(c) /\ l = Here(c)' /\ <<c, 2>> \in Links
                         /\ 0 \in 0 .. RetryLimit
  BY HereIsLink, ThriftRPCAssumption DEF Here
<1>2. /\ \A d \in Clients \ {c} : pc'[d] = pc[d] /\ retry_times'[d] = retry_times[d]
      /\ \A m \in Links \ {l} : link'[m] = link[m]
      /\ link[l] = "none" /\ link'[l] = "backlog"
      /\ pc[c] = "connect" /\ pc'[c] = "ask"
      /\ UNCHANGED <<call, wire, handler, handled>>
  BY <1>1 DEF TypeOK, CallOK
<1>3. TypeOK'
  BY <1>1 DEF TypeOK, server, times
<1>4. ServerOK'
  BY <1>1, <1>2 DEF ServerOK, server
<1>5. LinkOK(l)'
  BY <1>1, <1>2 DEF LinkOK
<1>6. CallOK(c)'
  <2>1. call[c] = 1 => link'[<<c, 2>>] = "none"
    <3>1. call[c] = 1 => <<c, 2>> # l
      BY <1>1 DEF Here
    <3> QED
      BY <1>1, <1>2, <3>1 DEF CallOK
  <2>2. wire[l] = Empty /\ handled[l] = 0 /\ handler[l] # "handle"
    BY <1>1, <1>2 DEF CallOK
  <2> QED
    BY <1>1, <1>2, <2>1, <2>2 DEF CallOK
<1>7. TimesOK(c)'
  BY <1>2 DEF TimesOK, times, ClientTime
<1> QED
  BY <1>1, <1>2, <1>3, <1>4, <1>5, <1>6, <1>7, OneClient DEF TimesOrdered, times

LEMMA RefusedKeepsInv == ASSUME Inv, NEW c \in Clients, Refused(c) PROVE Inv'
<1> USE DEF Inv
<1>1. /\ pc[c] = "connect" /\ retry_times[c] < RetryLimit
      /\ retry_times' = [retry_times EXCEPT ![c] = @ + 1]
      /\ UNCHANGED <<clock, server, times, call>>
  BY DEF Refused, CallOK
<1>2. retry_times[c] + 1 \in 0 .. RetryLimit /\ RetryLimit \in Nat
  BY <1>1, Numbers
<1>3. \A d \in Clients \ {c} : retry_times'[d] = retry_times[d]
  BY <1>1 DEF TypeOK
<1>4. retry_times'[c] = retry_times[c] + 1
  BY <1>1 DEF TypeOK
<1>5. CASE retry_times[c] + 1 = RetryLimit
  <2>1. Throw(c)
    BY <1>5 DEF Refused
  <2>2. TypeOK'
    BY <1>1, <1>2, <2>1 DEF TypeOK, Throw, server, times
  <2> QED
    BY <1>1, <1>3, <2>1, <2>2, ThrowKeepsInv DEF times
<1>6. CASE retry_times[c] + 1 # RetryLimit
  <2>1. UNCHANGED <<pc, link, wire, handler, handled>>
    BY <1>6 DEF Refused, network
  <2>2. TypeOK'
    BY <1>1, <1>2, <2>1 DEF TypeOK, server, times
  <2>3. PICK l \in Links : l = Here(c) /\ l = Here(c)' /\ <<c, 2>> \in Links
    BY <1>1, HereIsLink DEF Here
  <2>4. ServerOK'
    BY <1>1, <2>1 DEF ServerOK, server
  <2>5. LinkOK(l)'
    BY <2>1 DEF LinkOK
  <2>6. CallOK(c)'
    <3>1. retry_times'[c] < RetryLimit
      BY <1>2, <1>4, <1>6
    <3> QED
      BY <1>1, <2>1, <2>3, <3>1 DEF CallOK
  <2>7. TimesOK(c)'
    BY <1>1, <2>1, <2>3 DEF TimesOK, times, ClientTime
  <2> QED
    BY <1>1, <1>3, <2>1, <2>2, <2>3, <2>4, <2>6, <2>5, <2>7, OneClient DEF TimesOrdered, times
<1> QED
  BY <1>5, <1>6

LEMMA RequestKeepsInv == ASSUME Inv, NEW c \in Clients, Request(c) PROVE Inv'
<1> USE DEF Inv
<1>1. PICK l \in Links : l = Here(c) /\ l = Here(c)' /\ <<c, 2>> \in Links
  BY HereIsLink DEF Here, Request
<1>2. /\ pc[c] = "ask"
      /\ request_time' = [request_time EXCEPT ![c] = ClientTime(c)]
      /\ remote_time' = [remote_time EXCEPT ![c] = Unread]
      /\ response_time' = [response_time EXCEPT ![c] = Unread]
      /\ UNCHANGED <<clock, server, call, retry_times>>
  BY DEF Request
<1>3. /\ request_time'[c] = ClientTime(c) /\ response_time'[c] = Unread
      /\ \A d \in Clients \ {c} :
           /\ request_time'[d] = request_time[d] /\ remote_time'[d] = remote_time[d]
           /\ response_time'[d] = response_time[d]
  BY <1>2 DEF TypeOK
<1>4. \A t \in {request_time', remote_time', response_time'} :
        t \in [Clients -> Times]
  BY <1>2, Readings DEF TypeOK
<1>5. CASE Throw(c)
  <2>1. TypeOK'
    BY <1>1, <1>2, <1>4, <1>5 DEF TypeOK, Throw, server
  <2>2. ClientTime(c) <= ClientTime(c)
    BY Readings
  <2> QED
    BY <1>2, <1>3, <1>5, <2>1, <2>2, ThrowKeepsInv
<1>6. CASE ~Throw(c)
  <2>1. /\ pc' = [pc EXCEPT ![c] = "call"]
        /\ \/ link[l] # "none" /\ UNCHANGED link
           \/ link[l] = "none" /\ Listening /\ link' = [link EXCEPT ![l] = "backlog"]
        /\ UNCHANGED <<wire, handler, handled>>
    BY <1>1, <1>6 DEF Request, At, Connect, network
  <2>2. /\ pc'[c] = "call" /\ \A d \in Clients \ {c} : pc'[d] = pc[d]
        /\ link'[l] = link[l] \/ (link[l] = "none" /\ Listening /\ link'[l] = "backlog")
        /\ link'[l] # "none"
        /\ \A m \in Links \ {l} : link'[m] = link[m]
    BY <2>1 DEF TypeOK
  <2>3. TypeOK'
    BY <1>2, <1>4, <2>1 DEF TypeOK, server
  <2>4. ServerOK'
    BY <1>2, <2>1, <2>2 DEF ServerOK, server, Listening
  <2>5. LinkOK(l)'
    BY <2>1, <2>2 DEF LinkOK
  <2>6. CallOK(c)'
    <3>1. call[c] = 1 => link'[<<c, 2>>] = "none"
      <4>1. call[c] = 1 => <<c, 2>> # l
        BY <1>1 DEF Here
      <4> QED
        BY <1>1, <2>2, <4>1 DEF CallOK
    <3>2. wire[l] = Empty /\ handled[l] = 0 /\ handler[l] # "handle"
      BY <1>1, <1>2 DEF CallOK
    <3> QED
      BY <1>1, <1>2, <2>1, <2>2, <3>1, <3>2 DEF CallOK
  <2>7. TimesOK(c)'
    <3>1. ClientTime(c) <= ClientTime(c) /\ ClientTime(c)' = ClientTime(c) /\ ClientTime(c) # Unread
      BY <1>2, Readings, Messages DEF ClientTime
    <3> QED
      BY <1>2, <1>3, <2>2, <3>1 DEF TimesOK
  <2> QED
    BY <1>1, <1>2, <1>3, <2>1, <2>2, <2>3, <2>4, <2>5, <2>6, <2>7, OneClient
<1> QED
  BY <1>5, <1>6

LEMMA SendCallKeepsInv == ASSUME Inv, NEW c \in Clients, SendCall(c) PROVE Inv'
<1> USE DEF Inv
<1>1. PICK l \in Links : l = Here(c) /\ l = Here(c)' /\ <<c, 2>> \in Links
  BY HereIsLink DEF Here, SendCall
<1>2. pc[c] = "call" /\ UNCHANGED <<clock, server, times, call, retry_times>>
  BY DEF SendCall
<1>3. CASE Throw(c)
  <2>1. TypeOK'
    BY <1>1, <1>2, <1>3 DEF TypeOK, Throw, server, times
  <2> QED
    BY <1>2, <1>3, <2>1, ThrowKeepsInv DEF times
<1>4. CASE ~Throw(c)
  <2> DEFINE message == [kind |-> "call", time |-> Unread]
  <2>1. /\ pc' = [pc EXCEPT ![c] = "receive"]
        /\ wire' = [wire EXCEPT ![l] = message]
        /\ UNCHANGED <<link, handler, handled>>
    BY <1>1, <1>4 DEF SendCall, At
  <2>2. message \in [kind : {"none", "call"} \cup Replies, time : Times]
    BY ServerReading
  <2>3. message.kind = "call"
    OBVIOUS
  <2>4. link[l] # "none"
    BY <1>1, <1>2 DEF CallOK
  <2> HIDE DEF message
  <2>5. /\ pc'[c] = "receive" /\ \A d \in Clients \ {c} : pc'[d] = pc[d]
        /\ wire'[l] = message /\ \A m \in Links \ {l} : wire'[m] = wire[m]
    BY <2>1 DEF TypeOK
  <2>6. TypeOK'
    BY <1>2, <2>1, <2>2 DEF TypeOK, server, times
  <2>7. ServerOK'
    BY <1>2, <2>1 DEF ServerOK, server
  <2>8. LinkOK(l)'
    BY <1>1, <1>2, <2>1, <2>3, <2>4, <2>5 DEF LinkOK, CallOK, Replies
  <2>9. CallOK(c)'
    BY <1>1, <1>2, <2>1, <2>4, <2>5 DEF CallOK
  <2>10. TimesOK(c)'
    BY <1>1, <1>2, <2>3, <2>5 DEF TimesOK, times, ClientTime
  <2> QED
    BY <1>1, <1>2, <2>1, <2>5, <2>6, <2>7, <2>8, <2>9, <2>10, OneClient DEF TimesOrdered, times
<1> QED
  BY <1>3, <1>4

LEMMA ReceiveReplyKeepsInv == ASSUME Inv, NEW c \in Clients, ReceiveReply(c) PROVE Inv'
<1> USE DEF Inv
<1>1. PICK l \in Links : l = Here(c) /\ l = Here(c)' /\ <<c, 2>> \in Links
  BY HereIsLink DEF Here, ReceiveReply
<1>2. /\ pc[c] = "receive" /\ pc' = [pc EXCEPT ![c] = "report"]
      /\ wire[l].kind = "reply"
      /\ remote_time' = [remote_time EXCEPT ![c] = wire[l].time]
      /\ wire' = [wire EXCEPT ![l] = Empty]
      /\ link' = [link EXCEPT ![l] = "closed"]
      /\ UNCHANGED <<clock, server, request_time, response_time, call, retry_times, handler, handled>>
  BY <1>1 DEF ReceiveReply, At
<1>3. /\ pc'[c] = "report" /\ \A d \in Clients \ {c} : pc'[d] = pc[d]
      /\ remote_time'[c] = wire[l].time
      /\ \A d \in Clients \ {c} : remote_time'[d] = remote_time[d]
      /\ wire'[l] = Empty /\ \A m \in Links \ {l} : wire'[m] = wire[m]
      /\ link'[l] = "closed" /\ \A m \in Links \ {l} : link'[m] = link[m]
  BY <1>2 DEF TypeOK
<1>4. TypeOK'
  <2>1. Empty \in [kind : {"none", "call"} \cup Replies, time : Times]
    BY DEF Empty, Times
  <2>2. wire[l].time \in Times
    BY DEF TypeOK
  <2>3. remote_time' \in [Clients -> Times]
    BY <1>2, <2>2 DEF TypeOK
  <2> QED
    BY <1>2, <2>1, <2>3 DEF TypeOK, server
<1>5. ServerOK'
  BY <1>2, <1>3 DEF ServerOK, server
<1>6. handled[l] = 1 /\ LinkOK(l)
  BY <1>2 DEF LinkOK, Replies
<1>7. LinkOK(l)'
  BY <1>2, <1>3, <1>6, Messages DEF LinkOK, Replies
<1>8. CallOK(c)'
  <2>1. call[c] = 1 => link'[<<c, 2>>] = "none"
    <3>1. call[c] = 1 => <<c, 2>> # l
      BY <1>1 DEF Here
    <3> QED
      BY <1>1, <1>3, <3>1 DEF CallOK
  <2> QED
    BY <1>1, <1>2, <1>3, <1>6, <2>1 DEF CallOK
<1>9. TimesOK(c)'
  BY <1>1, <1>2, <1>3 DEF TimesOK, ClientTime, ServerTime, Skew
<1>10. response_time'[c] = Unread
  BY <1>2 DEF TimesOK
<1> QED
  BY <1>1, <1>2, <1>3, <1>4, <1>5, <1>7, <1>8, <1>9, <1>10, OneClient

LEMMA ReceiveFailsKeepsInv == ASSUME Inv, NEW c \in Clients, ReceiveFails(c) PROVE Inv'
<1>1. Throw(c) /\ UNCHANGED <<clock, server, times, call, retry_times>>
  BY DEF ReceiveFails
<1>2. PICK l \in Links : l = Here(c)
  BY HereIsLink DEF Inv
<1>3. TypeOK'
  BY <1>1, <1>2 DEF Inv, TypeOK, Throw, server, times
<1> QED
  BY <1>1, <1>3, ThrowKeepsInv DEF times

LEMMA ResponseTimeKeepsInv == ASSUME Inv, NEW c \in Clients, ResponseTime(c) PROVE Inv'
<1> USE DEF Inv
<1>1. PICK l \in Links : l = Here(c)
  BY HereIsLink
<1>2. /\ pc[c] = "report"
      /\ response_time' = [response_time EXCEPT ![c] = ClientTime(c)]
      /\ UNCHANGED <<clock, server, request_time, remote_time, retry_times, link, wire, handler, handled>>
  BY DEF ResponseTime, At, network
<1>3. \/ /\ call[c] = 1 /\ call' = [call EXCEPT ![c] = 2]
         /\ pc' = [pc EXCEPT ![c] = "ask"]
      \/ /\ call[c] # 1 /\ call' = call
         /\ pc' = [pc EXCEPT ![c] = "done"]
  BY DEF ResponseTime, At
<1>4. /\ response_time'[c] = ClientTime(c)
      /\ \A d \in Clients \ {c} : /\ response_time'[d] = response_time[d]
                                  /\ pc'[d] = pc[d] /\ call'[d] = call[d]
  BY <1>2, <1>3 DEF TypeOK
<1>5. \/ call[c] = 1 /\ call'[c] = 2 /\ pc'[c] = "ask"
      \/ call[c] # 1 /\ call'[c] = call[c] /\ pc'[c] = "done"
  BY <1>3 DEF TypeOK
<1>6. TypeOK'
  <2>1. call' \in [Clients -> Calls]
    BY <1>3 DEF TypeOK, Calls
  <2>2. response_time' \in [Clients -> Times]
    BY <1>2, Readings DEF TypeOK
  <2> QED
    BY <1>2, <1>3, <2>1, <2>2 DEF TypeOK, server
<1>7. ServerOK'
  BY <1>2 DEF ServerOK, server
<1>8. \A m \in Links : LinkOK(m) /\ LinkOK(m)'
  BY <1>2 DEF LinkOK
<1>9. CallOK(c)'
  <2>1. CASE call[c] = 1
    <3>1. <<c, 2>> \in Links /\ Here(c)' = <<c, 2>>
      BY <1>5, <2>1, HereIsLink DEF Here
    <3>2. link[<<c, 2>>] = "none"
      BY <2>1 DEF CallOK
    <3>3. wire[<<c, 2>>] = Empty /\ handled[<<c, 2>>] = 0 /\ handler[<<c, 2>>] = "none"
      BY <1>8, <3>1, <3>2 DEF LinkOK
    <3> QED
      BY <1>2, <1>5, <2>1, <3>1, <3>2, <3>3 DEF CallOK
  <2>2. CASE call[c] # 1
    <3>1. Here(c)' = l
      BY <1>1, <1>5, <2>2 DEF Here
    <3>2. handled[l] = 1
      BY <1>1, <1>2 DEF CallOK
    <3> QED
      BY <1>2, <1>5, <2>2, <3>1, <3>2 DEF CallOK
  <2> QED
    BY <2>1, <2>2
<1>10. /\ request_time[c] <= remote_time[c] - Skew(c)
       /\ remote_time[c] - Skew(c) <= ClientTime(c)
       /\ request_time[c] <= ClientTime(c)
  BY <1>2, Numbers, Readings DEF TimesOK
<1>11. TimesOK(c)'
  BY <1>2, <1>5, <1>10 DEF TimesOK, ClientTime
<1> QED
  BY <1>1, <1>2, <1>4, <1>6, <1>7, <1>8, <1>9, <1>10, <1>11, OneClient

LEMMA ClientKeepsInv == ASSUME Inv, NEW c \in Clients, Client(c) PROVE Inv'
BY ConstructKeepsInv, RefusedKeepsInv, RequestKeepsInv, SendCallKeepsInv,
   ReceiveReplyKeepsInv, ReceiveFailsKeepsInv, ResponseTimeKeepsInv DEF Client

LEMMA StutterKeepsInv == ASSUME Inv, UNCHANGED vars PROVE Inv'
<1>1. UNCHANGED <<clock, main, serving, interrupted, cut, times, client, link, wire, handler, handled>>
  BY DEF vars, server, network
<1>2. TypeOK'
  BY <1>1 DEF Inv, TypeOK, times, client
<1>3. ServerOK'
  BY <1>1 DEF Inv, ServerOK
<1>4. clock \in Nat /\ clock <= clock
  BY ThriftRPCAssumption DEF Inv, TypeOK
<1> QED
  BY <1>1, <1>2, <1>3, <1>4, QuietStep

LEMMA NextKeepsInv == Inv /\ [Next]_vars => Inv'
<1> SUFFICES ASSUME Inv, [Next]_vars PROVE Inv'
  OBVIOUS
<1>1. CASE Main
  BY <1>1, MainKeepsInv
<1>2. CASE ServerThread
  BY <1>2, ListenKeepsInv, StopListeningKeepsInv, DrainedKeepsInv, AcceptKeepsInv DEF ServerThread
<1>3. CASE Tick
  BY <1>3, TickKeepsInv
<1>4. CASE \E c \in Clients : Client(c)
  BY <1>4, ClientKeepsInv
<1>5. CASE \E l \in Links : HandlerThread(l) \/ Break(l)
  BY <1>5, ReadCallKeepsInv, HandleKeepsInv, HandlerEndsKeepsInv, BreakKeepsInv DEF HandlerThread
<1>6. CASE UNCHANGED vars
  BY <1>6, StutterKeepsInv
<1> QED
  BY <1>1, <1>2, <1>3, <1>4, <1>5, <1>6 DEF Next

-----------------------------------------------------------------------------
(* The theorems *)

(* The invariant of the Thrift programs: what each connection has carried, *)
(* what each client waits for and which of the server's threads may run    *)
(* fit together (IRPC.h, TestRPC.h, Client.cpp).                           *)
THEOREM RPCInvariant == Spec => []Inv
BY InitInv, NextKeepsInv, PTL DEF Spec

(* Every variable has its type; in particular no client attempts to        *)
(* connect more than retry_limit times (the constructor of IRPCClient).    *)
THEOREM RPCTypes == Spec => []TypeOK
<1>1. Inv => TypeOK
  BY DEF Inv
<1> QED
  BY <1>1, RPCInvariant, PTL

(* A difference that is not negative is printed as it is.                  *)
LEMMA PrintedAsIs ==
  ASSUME NEW a \in Times, NEW b \in Times, b <= a, a # Unread, b # Unread
  PROVE  Printed(a, b) = a - b
<1>1. a - b \in 0 .. TimeMod - 1 /\ TimeMod \in Nat \ {0}
  BY ThriftRPCAssumption DEF Times
<1>2. \A d \in 0 .. TimeMod - 1 : d % TimeMod = d
  BY <1>1
<1> QED
  BY <1>1, <1>2 DEF Printed

(* The time the server sends was read between the two times the client     *)
(* reads around its call, whichever hosts they run on; on one host the     *)
(* differences Client.cpp prints do not wrap and add up to the whole.      *)
THEOREM RPCAnswerFresh == Spec => []AnswerFresh
<1>1. ASSUME Inv PROVE AnswerFresh
  <2> SUFFICES ASSUME NEW c \in Clients, response_time[c] # Unread, Skew(c) = 0
               PROVE  Printed(remote_time[c], request_time[c])
                        + Printed(response_time[c], remote_time[c])
                          = response_time[c] - request_time[c]
    BY <1>1 DEF Inv, AnswerFresh
  <2>1. /\ request_time[c] \in Times /\ remote_time[c] \in Times /\ response_time[c] \in Times
        /\ request_time[c] \in Int /\ remote_time[c] \in Int /\ response_time[c] \in Int
    BY <1>1, Numbers DEF Inv, TypeOK
  <2>2. request_time[c] <= remote_time[c] /\ remote_time[c] <= response_time[c]
    BY <1>1, <2>1 DEF Inv, TimesOrdered
  <2>3. request_time[c] # Unread /\ remote_time[c] # Unread
    BY <1>1 DEF Inv, TimesOK
  <2>4. /\ Printed(remote_time[c], request_time[c]) = remote_time[c] - request_time[c]
        /\ Printed(response_time[c], remote_time[c]) = response_time[c] - remote_time[c]
    BY <2>1, <2>2, <2>3, PrintedAsIs
  <2> QED
    BY <2>1, <2>4
<1> QED
  BY <1>1, RPCInvariant, PTL

(* A call is carried out at most once, and once if it returns, whichever   *)
(* connections break and whenever the server stops.                        *)
THEOREM RPCHandledOnce == Spec => []HandledOnce
<1>1. Inv => HandledOnce
  BY DEF Inv, HandledOnce, LinkOK, CallOK
<1> QED
  BY <1>1, RPCInvariant, PTL

(* When ~IRPCServer has returned (stop, leave), no thread of the server    *)
(* runs, no connection waits for one, and no call is carried out.          *)
THEOREM RPCNothingAfterLeave == Spec => []NothingAfterLeave
<1>1. Inv => NothingAfterLeave
  BY DEF Inv, NothingAfterLeave, ServerOK
<1> QED
  BY <1>1, RPCInvariant, PTL
=============================================================================
