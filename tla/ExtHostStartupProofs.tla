------------------------ MODULE ExtHostStartupProofs ------------------------
(***************************************************************************)
(* Safety of ExtHostStartup for any number of sockets, faults and other    *)
(* clients: types, one owner for every socket, and no grace time that runs *)
(* against a connected client.                                             *)
(***************************************************************************)
EXTENDS ExtHostStartup, TLAPS

-----------------------------------------------------------------------------
(* Messages on the way to the process.                                       *)

\* What a message carries.
LEMMA MessageSockets ==
  ASSUME NEW m \in Messages
  PROVE  /\ m.socket \in Sockets \cup {0} /\ m.handle \in BOOLEAN
         /\ m.type \in {"socket", "reduce"}
         /\ m.type = "socket" => m.socket \in Sockets
         /\ m.type = "reduce" => m.socket = 0
BY DEF Messages

\* A message that carries a socket differs from one that carries none.
LEMMA ReduceDiffers ==
  ASSUME NEW m \in Messages, NEW n \in Messages, m.type = "socket", n.type = "reduce"
  PROVE  m.socket # n.socket
BY MessageSockets DEF Sockets

\* One more message is sent: it has a socket that no other has, or none.
LEMMA AppendSockets ==
  ASSUME NEW q \in Seq(Messages), NEW m \in Messages
  PROVE  /\ Append(q, m) \in Seq(Messages)
         /\ SocketsIn(Append(q, m)) = SocketsIn(q) \cup {m.socket}
         /\ Distinct(q) /\ (m.socket \notin SocketsIn(q) \/ m.type = "reduce")
               => Distinct(Append(q, m))
<1> DEFINE p == Append(q, m)
<1>1. /\ p \in Seq(Messages) /\ Len(p) = Len(q) + 1 /\ Len(q) \in Nat
      /\ \A i \in 1..Len(q) : p[i] = q[i]
      /\ p[Len(q) + 1] = m
      /\ DOMAIN q = 1..Len(q) /\ DOMAIN p = 1..(Len(q) + 1)
  OBVIOUS
<1> HIDE DEF p
<1>2. \A i \in DOMAIN p : i = Len(q) + 1 \/ i \in DOMAIN q
  BY <1>1
<1>3. SocketsIn(p) = SocketsIn(q) \cup {m.socket}
  BY <1>1, <1>2 DEF SocketsIn
<1>4. ASSUME Distinct(q), m.socket \notin SocketsIn(q) \/ m.type = "reduce" PROVE Distinct(p)
  <2> SUFFICES ASSUME NEW i \in DOMAIN p, NEW j \in DOMAIN p, i # j, p[i].type = "socket"
               PROVE  p[i].socket # p[j].socket
    BY DEF Distinct
  <2>1. CASE i \in DOMAIN q /\ j \in DOMAIN q
    BY <1>1, <1>4, <2>1 DEF Distinct
  <2>2. CASE m.socket \notin SocketsIn(q) /\ (i = Len(q) + 1 \/ j = Len(q) + 1)
    BY <1>1, <1>2, <2>2 DEF SocketsIn
  <2>3. CASE m.type = "reduce" /\ i = Len(q) + 1
    BY <1>1, <2>3
  <2>4. CASE m.type = "reduce" /\ i \in DOMAIN q /\ j = Len(q) + 1
    <3>1. p[i] \in Messages /\ p[j] = m
      BY <1>1, <2>4
    <3> QED BY <2>4, <3>1, ReduceDiffers
  <2> QED BY <1>2, <1>4, <2>1, <2>2, <2>3, <2>4
<1> QED BY <1>1, <1>3, <1>4 DEF p

\* The first message is handled.
LEMMA TailSockets ==
  ASSUME NEW q \in Seq(Messages), q # <<>>
  PROVE  /\ Head(q) \in Messages /\ Tail(q) \in Seq(Messages)
         /\ SocketsIn(Tail(q)) \subseteq SocketsIn(q)
         /\ Head(q).socket \in SocketsIn(q)
         /\ Distinct(q) => Distinct(Tail(q))
         /\ Distinct(q) /\ Head(q).type = "socket" => Head(q).socket \notin SocketsIn(Tail(q))
<1> DEFINE p == Tail(q)
<1>1. /\ p \in Seq(Messages) /\ Len(q) \in Nat /\ Len(q) > 0
      /\ DOMAIN q = 1..Len(q) /\ DOMAIN p = 1..(Len(q) - 1)
      /\ \A i \in 1..(Len(q) - 1) : p[i] = q[i + 1]
      /\ Head(q) = q[1] /\ Head(q) \in Messages
  OBVIOUS
<1> HIDE DEF p
<1>2. \A i \in DOMAIN p : i + 1 \in DOMAIN q /\ i + 1 # 1 /\ p[i] = q[i + 1]
  BY <1>1
<1>3. 1 \in DOMAIN q
  BY <1>1
<1>4. SocketsIn(p) \subseteq SocketsIn(q) /\ Head(q).socket \in SocketsIn(q)
  BY <1>1, <1>2, <1>3 DEF SocketsIn
<1>5. ASSUME Distinct(q) PROVE Distinct(p)
  <2> SUFFICES ASSUME NEW i \in DOMAIN p, NEW j \in DOMAIN p, i # j, p[i].type = "socket"
               PROVE  p[i].socket # p[j].socket
    BY DEF Distinct
  <2>1. i + 1 # j + 1
    BY <1>1
  <2> QED BY <1>2, <1>5, <2>1 DEF Distinct
<1>6. ASSUME Distinct(q), Head(q).type = "socket" PROVE Head(q).socket \notin SocketsIn(p)
  BY <1>1, <1>2, <1>3, <1>6 DEF Distinct, SocketsIn
<1> QED BY <1>1, <1>4, <1>5, <1>6 DEF p
-----------------------------------------------------------------------------
(* The invariant.                                                            *)

Inv == TypeOK /\ OneOwner /\ NoGraceWhileConnected

\* No socket is on its way, and the first has one owner.
LEMMA Initially == Init => Inv
<1> SUFFICES ASSUME Init PROVE Inv
  OBVIOUS
<1>1. /\ 1 \in Sockets /\ None \notin Sockets
      /\ MaxFaults \in Nat /\ MaxReduces \in Nat
  BY StartupAssumption DEF Sockets
<1>2. toHost = <<>> /\ DOMAIN toHost = {} /\ SocketsIn(toHost) = {} /\ Distinct(toHost)
  BY DEF Init, SocketsIn, Distinct
<1>3. toHost \in Seq(Messages)
  BY <1>2
<1>4. faults \in 0..MaxFaults /\ reduces \in 0..MaxReduces
  BY <1>1 DEF Init
<1>5. TypeOK
  BY <1>1, <1>3, <1>4 DEF Init, TypeOK
<1>6. OneOwner
  BY <1>1, <1>2 DEF Init, OneOwner, Sent
<1>7. NoGraceWhileConnected
  BY DEF Init, NoGraceWhileConnected
<1> QED BY <1>5, <1>6, <1>7 DEF Inv

\* None is not a socket, and no message without one carries a socket.
LEMMA NoneIsNoSocket == None \notin Sockets /\ 0 \notin Sockets /\ None # 0
BY StartupAssumption DEF Sockets

\* None is neither drained nor sent.
LEMMA NoneNotSent == TypeOK => None \notin draining \cup Sent
<1> SUFFICES ASSUME TypeOK PROVE None \notin draining \cup Sent
  OBVIOUS
<1>1. \A i \in DOMAIN toHost : toHost[i] \in Messages
  BY DEF TypeOK
<1>2. \A i \in DOMAIN toHost : toHost[i].socket # None
  BY <1>1, MessageSockets, NoneIsNoSocket
<1>3. None \notin draining
  BY NoneIsNoSocket DEF TypeOK
<1> QED BY <1>2, <1>3 DEF Sent, SocketsIn

\* The link of the client's socket breaks.
LEMMA BreakStep ==
  ASSUME Inv, Break
  PROVE  Inv'
<1> USE DEF Inv
<1>1. client \in Sockets /\ link' = [link EXCEPT ![client] = "lost"] /\ link[client] = "up"
  BY DEF Break, TypeOK
<1>2. faults' \in 0..MaxFaults
  BY StartupAssumption DEF Break, TypeOK
<1>3. TypeOK'
  BY <1>1, <1>2 DEF Break, TypeOK, connection, hostVars
<1>4. OneOwner'
  BY <1>1, NoneIsNoSocket DEF Break, TypeOK, OneOwner, Sent, connection, hostVars
<1>5. NoGraceWhileConnected'
  BY <1>1 DEF Break, TypeOK, NoGraceWhileConnected, connection, hostVars
<1> QED BY <1>3, <1>4, <1>5

\* The client leaves a socket that nobody answers on.
LEMMA UnansweredStep ==
  ASSUME Inv, Unanswered
  PROVE  Inv'
<1> USE DEF Inv
<1>1. /\ client \in Sockets
      /\ link' = [link EXCEPT ![client] = IF link[client] = "up" THEN "lost" ELSE link[client]]
  BY DEF Unanswered, TypeOK
<1>2. \A s \in Sockets : (link'[s] = "new" => link[s] = "new") /\ (link[s] = "closed" => link'[s] = "closed")
  BY <1>1 DEF TypeOK
<1>3. TypeOK'
  BY <1>1 DEF Unanswered, TypeOK, connection, hostVars
<1>4. OneOwner'
  BY <1>2, NoneIsNoSocket DEF Unanswered, TypeOK, OneOwner, Sent, connection, hostVars
<1>5. NoGraceWhileConnected'
  BY <1>2 DEF Unanswered, TypeOK, NoGraceWhileConnected, connection, hostVars
<1> QED BY <1>3, <1>4, <1>5

\* A new socket, which nobody has, goes to the server or is drained.
LEMMA AcceptStep ==
  ASSUME Inv, NEW s \in Sockets, AcceptReconnection(s)
  PROVE  Inv'
<1> USE DEF Inv
<1>1. /\ link[s] = "new" /\ link' = [link EXCEPT ![s] = "up"]
      /\ s \notin draining \cup Sent \cup {connectionData, current, client}
  BY DEF AcceptReconnection, OneOwner
<1>2. \A t \in Sockets : link'[t] = "new" => link[t] = "new" /\ t # s
  BY <1>1 DEF TypeOK
<1>3. CASE NotStarted
  <2>1. /\ connectionData' = s /\ draining' = draining /\ client' = s
        /\ toHost' = toHost /\ current' = current
    BY <1>3 DEF AcceptReconnection, hostVars
  <2>2. TypeOK'
    BY <1>1, <1>3, <2>1, NoneIsNoSocket DEF AcceptReconnection, TypeOK, hostVars, NotStarted
  <2>3. OneOwner'
    BY <1>1, <1>2, <2>1, NoneIsNoSocket DEF OneOwner, Sent
  <2>4. NoGraceWhileConnected'
    BY <1>1 DEF AcceptReconnection, TypeOK, NoGraceWhileConnected, hostVars
  <2> QED BY <2>2, <2>3, <2>4
<1>4. CASE ~NotStarted
  <2>1. /\ connectionData' = connectionData /\ draining' = draining \cup {s} /\ client' = s
        /\ toHost' = toHost /\ current' = current
    BY <1>4 DEF AcceptReconnection, hostVars
  <2>2. TypeOK'
    BY <1>1, <1>4, <2>1, NoneIsNoSocket DEF AcceptReconnection, TypeOK, hostVars
  <2>3. OneOwner'
    BY <1>1, <1>2, <2>1, NoneIsNoSocket DEF OneOwner, Sent
  <2>4. NoGraceWhileConnected'
    BY <1>1 DEF AcceptReconnection, TypeOK, NoGraceWhileConnected, hostVars
  <2> QED BY <2>2, <2>3, <2>4
<1> QED BY <1>3, <1>4

\* A fork moves no socket.
LEMMA ForkStep ==
  ASSUME Inv, Fork
  PROVE  Inv'
<1> USE DEF Inv
<1>1. TypeOK'
  BY DEF Fork, TypeOK, net
<1>2. OneOwner'
  BY DEF Fork, OneOwner, Sent, net
<1>3. NoGraceWhileConnected'
  BY DEF Fork, NoGraceWhileConnected, net
<1> QED BY <1>1, <1>2, <1>3

\* _cleanResources closes a socket that nobody else has.
LEMMA CleanTypes ==
  ASSUME Inv, CleanResources, current' = current
  PROVE  /\ link' \in [Sockets -> {"new", "up", "lost", "closed"}]
         /\ \A s \in Sockets : link'[s] = "new" => link[s] = "new"
         /\ \A s \in Sockets : link[s] = "closed" => link'[s] = "closed"
         /\ connectionData' = None /\ process' = FALSE /\ disposed' = TRUE
BY DEF CleanResources, Inv, TypeOK

\* Its socket leaves the server, and nothing else moves.
LEMMA CleanOwner ==
  ASSUME Inv, CleanResources, current' = current, draining' = draining, toHost' = toHost,
         client' = client
  PROVE  OneOwner'
<1>1. None \notin draining \cup Sent
  BY NoneNotSent DEF Inv
<1>2. connectionData' = None /\ \A s \in Sockets : link'[s] = "new" => link[s] = "new"
  BY CleanTypes
<1> QED BY <1>1, <1>2, NoneIsNoSocket DEF Inv, OneOwner, Sent

\* A failed start cleans up.
LEMMA StartFailsStep ==
  ASSUME Inv, StartFails
  PROVE  Inv'
<1> USE DEF Inv
<1>1. /\ CleanResources /\ current' = current /\ draining' = draining /\ toHost' = toHost
      /\ client' = client
  BY DEF StartFails, hostVars
<1>2. faults' \in 0..MaxFaults
  BY StartupAssumption DEF StartFails, TypeOK
<1>3. TypeOK'
  BY <1>1, <1>2, CleanTypes DEF StartFails, TypeOK, hostVars
<1>4. OneOwner'
  BY <1>1, CleanOwner
<1>5. NoGraceWhileConnected'
  BY <1>1, CleanTypes DEF StartFails, TypeOK, NoGraceWhileConnected, hostVars
<1> QED BY <1>3, <1>4, <1>5

\* The first socket goes from the server to the drained ones.
LEMMA ReadyStep ==
  ASSUME Inv, HandleReady
  PROVE  Inv'
<1> USE DEF Inv
<1>1. /\ connectionData \in Sockets /\ connectionData' = None
      /\ draining' = draining \cup {connectionData} /\ toHost' = toHost
  BY DEF HandleReady, TypeOK, DataAfterReady
<1>2. None \notin draining \cup Sent
  BY NoneNotSent
<1>3. TypeOK'
  BY <1>1 DEF HandleReady, TypeOK, net, hostVars
<1>4. OneOwner'
  BY <1>1, <1>2, NoneIsNoSocket DEF HandleReady, OneOwner, Sent, net, hostVars
<1>5. NoGraceWhileConnected'
  BY DEF HandleReady, NoGraceWhileConnected, net, hostVars
<1> QED BY <1>3, <1>4, <1>5

\* A drained socket is sent, unless the process has gone.
LEMMA DrainedStep ==
  ASSUME Inv, NEW s \in Sockets, Drained(s)
  PROVE  Inv'
<1> USE DEF Inv
<1> DEFINE m == [type |-> "socket", socket |-> s, handle |-> link[s] # "closed"]
<1>1. m \in Messages /\ m.socket = s
  BY DEF Messages
<1>2. /\ s \in draining /\ draining' = draining \ {s}
      /\ s \notin Sent /\ s # current /\ s # connectionData
  BY DEF Drained, OneOwner
<1>3. /\ toHost' \in Seq(Messages) /\ Sent' \subseteq Sent \cup {s} /\ Distinct(toHost')
  <2>1. CASE process
    <3>1. toHost' = Append(toHost, m)
      BY <2>1 DEF Drained
    <3> QED BY <3>1, <1>1, <1>2, AppendSockets DEF TypeOK, OneOwner, Sent
  <2>2. CASE ~process
    BY <2>2 DEF Drained, TypeOK, OneOwner, Sent
  <2> QED BY <2>1, <2>2
<1>4. TypeOK'
  BY <1>2, <1>3 DEF Drained, TypeOK, net, hostVars
<1>5. OneOwner'
  BY <1>2, <1>3 DEF Drained, OneOwner, net, hostVars
<1>6. NoGraceWhileConnected'
  BY DEF Drained, NoGraceWhileConnected, net, hostVars
<1> QED BY <1>4, <1>5, <1>6

\* A message without a socket is sent, whatever the process and the queue are like.
LEMMA ReduceStep ==
  ASSUME Inv, ReduceGraceTime
  PROVE  Inv'
<1> USE DEF Inv
<1> DEFINE m == [type |-> "reduce", socket |-> 0, handle |-> FALSE]
<1>1. m \in Messages /\ m.socket = 0 /\ m.type = "reduce"
  BY DEF Messages
<1>2. toHost' = Append(toHost, m)
  BY DEF ReduceGraceTime
<1> HIDE DEF m
<1>3. toHost' \in Seq(Messages) /\ Sent' = Sent \cup {0} /\ Distinct(toHost')
  BY <1>1, <1>2, AppendSockets DEF TypeOK, OneOwner, Sent
<1>4. 0 \notin draining \cup {current, connectionData, client}
  BY NoneIsNoSocket DEF TypeOK
<1>5. reduces' \in 0..MaxReduces
  BY StartupAssumption DEF ReduceGraceTime, TypeOK
<1>6. TypeOK'
  BY <1>3, <1>5 DEF ReduceGraceTime, TypeOK, net, connection, hostVars
<1>7. OneOwner'
  BY <1>3, <1>4, NoneIsNoSocket DEF ReduceGraceTime, OneOwner, net, connection, hostVars
<1>8. NoGraceWhileConnected'
  BY DEF ReduceGraceTime, NoGraceWhileConnected, net, hostVars
<1> QED BY <1>6, <1>7, <1>8

\* The process has gone: the server gives up the socket it still had.
LEMMA ExitStep ==
  ASSUME Inv, HandleExit
  PROVE  Inv'
<1> USE DEF Inv
<1>1. /\ CleanResources /\ current' = current /\ draining' = draining /\ toHost' = toHost
      /\ client' = client
  BY DEF HandleExit, hostVars
<1>2. TypeOK'
  BY <1>1, CleanTypes DEF HandleExit, TypeOK, hostVars
<1>3. OneOwner'
  BY <1>1, CleanOwner
<1>4. NoGraceWhileConnected'
  BY <1>1, CleanTypes DEF HandleExit, TypeOK, NoGraceWhileConnected, hostVars
<1> QED BY <1>2, <1>3, <1>4

\* The same when the process reports an error.
LEMMA ErrorStep ==
  ASSUME Inv, HandleError
  PROVE  Inv'
<1> USE DEF Inv
<1>1. /\ CleanResources /\ current' = current /\ draining' = draining /\ toHost' = toHost
      /\ client' = client
  BY DEF HandleError
<1>2. faults' \in 0..MaxFaults
  BY StartupAssumption DEF HandleError, TypeOK
<1>3. TypeOK'
  BY <1>1, <1>2, CleanTypes DEF HandleError, TypeOK
<1>4. OneOwner'
  BY <1>1, CleanOwner
<1>5. NoGraceWhileConnected'
  BY <1>1, CleanTypes DEF HandleError, TypeOK, NoGraceWhileConnected
<1> QED BY <1>3, <1>4, <1>5

\* The request of the process moves no socket.
LEMMA AskStep ==
  ASSUME Inv, Ask
  PROVE  Inv'
<1> USE DEF Inv
<1>1. TypeOK'
  BY DEF Ask, TypeOK, net, connection
<1>2. OneOwner'
  BY DEF Ask, OneOwner, Sent, net, connection
<1>3. NoGraceWhileConnected'
  BY DEF Ask, NoGraceWhileConnected, net
<1> QED BY <1>1, <1>2, <1>3

\* The process takes a socket, ends the one before and forgets its grace times.
LEMMA HandleSocketStep ==
  ASSUME Inv, HandleSocket
  PROVE  Inv'
<1> USE DEF Inv
<1> DEFINE s == Head(toHost).socket
<1>1. /\ toHost \in Seq(Messages) /\ toHost # <<>> /\ toHost' = Tail(toHost)
      /\ Head(toHost).type = "socket" /\ Distinct(toHost)
  BY DEF HandleSocket, TypeOK, OneOwner
<1>2. /\ s \in Sockets /\ toHost' \in Seq(Messages) /\ Sent' \subseteq Sent /\ s \in Sent
      /\ Distinct(toHost') /\ s \notin Sent'
  BY <1>1, TailSockets, MessageSockets DEF Sent
<1>3. s \notin draining /\ s # connectionData
  BY <1>2 DEF OneOwner
<1>4. CASE Head(toHost).handle
  <2>1. /\ current' = s /\ graceTime' = FALSE /\ shortGraceTime' = FALSE
        /\ link' = IF current = None THEN link ELSE [link EXCEPT ![current] = "closed"]
    BY <1>4 DEF HandleSocket
  <2>2. /\ link' \in [Sockets -> {"new", "up", "lost", "closed"}]
        /\ \A t \in Sockets : link'[t] = "new" => link[t] = "new" /\ t # s
    BY <1>2, <2>1 DEF TypeOK, OneOwner
  <2>3. TypeOK'
    BY <1>2, <2>1, <2>2 DEF HandleSocket, TypeOK, connection
  <2>4. OneOwner'
    BY <1>2, <1>3, <2>1, <2>2 DEF HandleSocket, OneOwner, connection
  <2>5. NoGraceWhileConnected'
    BY <2>1 DEF NoGraceWhileConnected
  <2> QED BY <2>3, <2>4, <2>5
<1>5. CASE ~Head(toHost).handle
  <2>1. UNCHANGED <<current, link, graceTime, shortGraceTime>>
    BY <1>5 DEF HandleSocket
  <2>2. TypeOK'
    BY <1>2, <2>1 DEF HandleSocket, TypeOK, connection
  <2>3. OneOwner'
    BY <1>2, <2>1 DEF HandleSocket, OneOwner, connection
  <2>4. NoGraceWhileConnected'
    BY <2>1 DEF NoGraceWhileConnected
  <2> QED BY <2>2, <2>3, <2>4
<1> QED BY <1>4, <1>5

\* The process may be connected: a grace time is reduced only when one runs already.
LEMMA HandleReduceStep ==
  ASSUME Inv, HandleReduce
  PROVE  Inv'
<1> USE DEF Inv
<1>1. toHost' \in Seq(Messages) /\ Sent' \subseteq Sent /\ Distinct(toHost')
  BY TailSockets DEF HandleReduce, TypeOK, OneOwner, Sent
<1>2. shortGraceTime' \in BOOLEAN
  BY DEF HandleReduce
<1>3. TypeOK'
  BY <1>1, <1>2 DEF HandleReduce, TypeOK, net, connection
<1>4. OneOwner'
  BY <1>1 DEF HandleReduce, OneOwner, net, connection
<1>5. NoGraceWhileConnected'
  BY DEF HandleReduce, Disconnected, NoGraceWhileConnected, net, connection
<1> QED BY <1>3, <1>4, <1>5

\* A grace time starts when the socket that the process uses is closed.
LEMMA NoticeStep ==
  ASSUME Inv, NEW s \in Sockets, NoticeClose(s)
  PROVE  Inv'
<1> USE DEF Inv
<1>1. link' = [link EXCEPT ![s] = "closed"] /\ link[s] = "lost"
  BY DEF NoticeClose
<1>2. graceTime' \in BOOLEAN
  BY DEF NoticeClose
<1>3. TypeOK'
  BY <1>1, <1>2 DEF NoticeClose, TypeOK, connection
<1>4. OneOwner'
  BY <1>1 DEF NoticeClose, TypeOK, OneOwner, Sent, connection
<1>5. NoGraceWhileConnected'
  BY <1>1 DEF NoticeClose, TypeOK, NoGraceWhileConnected, IsCurrent, connection
<1> QED BY <1>3, <1>4, <1>5

\* The end of the process moves no socket.
LEMMA TerminateStep ==
  ASSUME Inv, Terminate
  PROVE  Inv'
<1> USE DEF Inv
<1>1. faults' \in 0..MaxFaults
  BY StartupAssumption DEF Terminate, TypeOK
<1>2. TypeOK'
  BY <1>1 DEF Terminate, TypeOK, connection
<1>3. OneOwner'
  BY DEF Terminate, OneOwner, Sent, connection
<1>4. NoGraceWhileConnected'
  BY DEF Terminate, NoGraceWhileConnected
<1> QED BY <1>2, <1>3, <1>4
-----------------------------------------------------------------------------
(* The theorems.                                                             *)

\* Every step preserves the invariant.
LEMMA Invariance == Spec => []Inv
<1>1. Inv /\ [Next]_vars => Inv'
  <2> SUFFICES ASSUME Inv, [Next]_vars PROVE Inv'
    OBVIOUS
  <2>1. CASE Break \/ Unanswered
    BY <2>1, BreakStep, UnansweredStep
  <2>2. ASSUME NEW s \in Sockets, AcceptReconnection(s) \/ Drained(s) \/ NoticeClose(s)
        PROVE  Inv'
    BY <2>2, AcceptStep, DrainedStep, NoticeStep
  <2>3. CASE Fork \/ StartFails \/ Ask \/ HandleReady \/ ReduceGraceTime
    BY <2>3, ForkStep, StartFailsStep, AskStep, ReadyStep, ReduceStep
  <2>4. CASE HandleExit \/ HandleError \/ Terminate
    BY <2>4, ExitStep, ErrorStep, TerminateStep
  <2>5. CASE HandleSocket \/ HandleReduce
    BY <2>5, HandleSocketStep, HandleReduceStep
  <2>6. CASE UNCHANGED vars
    BY <2>6 DEF Inv, TypeOK, OneOwner, Sent, NoGraceWhileConnected, vars, net, connection, hostVars
  <2> QED BY <2>1, <2>2, <2>3, <2>4, <2>5, <2>6 DEF Next, Reconnect, HandOver
<1> QED BY <1>1, Initially, PTL DEF Spec

\* Until it is disposed the server's connection keeps the first socket for a
\* process that has not asked, and starts or has a process.
THEOREM TypeCorrect == Spec => []TypeOK
<1>1. Inv => TypeOK
  BY DEF Inv
<1> QED BY <1>1, Invariance, PTL

\* However often the client comes back, and in whatever order sockets are
\* drained, no socket is owned twice.
THEOREM OneOwnerAlways == Spec => []OneOwner
<1>1. Inv => OneOwner
  BY DEF Inv
<1> QED BY <1>1, Invariance, PTL

\* The process never runs a grace time while the socket it uses is connected, however
\* many other clients make the server reduce the grace time and whenever they do.
THEOREM NoEarlyExit == Spec => []NoGraceWhileConnected
<1>1. Inv => NoGraceWhileConnected
  BY DEF Inv
<1> QED BY <1>1, Invariance, PTL
=============================================================================
