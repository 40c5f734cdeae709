--------------------------- MODULE UaClientProofs ---------------------------
(***************************************************************************)
(* Proofs about UaClient, for every number of sockets and of requests.     *)
(* They rest on the order the steps of a call come in, however they fail:  *)
(* a property of the sequence todo.                                        *)
(***************************************************************************)
EXTENDS UaClient, SequenceTheorems, FiniteSetTheorems, TLAPS

\* What must come directly before a step, and after the close request.
Follows(before, op) ==
  /\ op = "tcp" => before = "new"
  /\ op = "hello" => before = "tcp"
  /\ op = "free" => before \in {"disconnect", "finish"}

Ordered(s) ==
  /\ s \in Seq(Ops)
  /\ \A i \in 2 .. Len(s) : Follows(s[i - 1], s[i])
  /\ \A i \in 1 .. Len(s) : s[i] = "close" => i < Len(s) /\ s[i + 1] = "finish"

LEMMA OpsFacts ==
  Ops = {"new", "tcp", "hello", "open", "endpoints", "create", "activate", "read", "close",
         "disconnect", "free", "finish"}
<1>1. Range(Connecting) = {"new", "tcp", "hello", "open", "endpoints", "create", "activate"}
  BY DEF Range, Connecting
<1>2. Range(Deletion) = {"disconnect", "free"}
  BY DEF Range, Deletion
<1> QED BY <1>1, <1>2 DEF Ops, Services

LEMMA OrderedTail ==
  ASSUME NEW s, Ordered(s), s # <<>>
  PROVE  /\ Head(s) = s[1] /\ Head(s) \in Ops
         /\ Ordered(Tail(s))
         /\ Tail(s) # <<>> => Follows(Head(s), Head(Tail(s)))
         /\ Head(s) = "close" => Tail(s) # <<>> /\ Head(Tail(s)) = "finish"
<1>1. /\ s \in Seq(Ops) /\ Len(s) \in Nat \ {0}
      /\ Tail(s) \in Seq(Ops) /\ Len(Tail(s)) = Len(s) - 1
      /\ \A i \in 1 .. Len(s) - 1 : Tail(s)[i] = s[i + 1]
      /\ Head(s) = s[1] /\ Head(s) \in Ops
  BY HeadTailProperties, EmptySeq, LenProperties DEF Ordered
<1>2. ASSUME NEW i \in 2 .. Len(Tail(s)) PROVE Follows(Tail(s)[i - 1], Tail(s)[i])
  <2>1. /\ i + 1 \in 2 .. Len(s) /\ (i + 1) - 1 = i /\ (i - 1) + 1 = i
        /\ i - 1 \in 1 .. Len(s) - 1 /\ i \in 1 .. Len(s) - 1
    BY <1>1
  <2>2. Tail(s)[i] = s[i + 1] /\ Tail(s)[i - 1] = s[i] BY <1>1, <2>1
  <2>3. Follows(s[i], s[i + 1]) BY <2>1 DEF Ordered
  <2> QED BY <2>2, <2>3
<1>3. ASSUME NEW i \in 1 .. Len(Tail(s)), Tail(s)[i] = "close"
      PROVE  i < Len(Tail(s)) /\ Tail(s)[i + 1] = "finish"
  <2>1. i + 1 \in 1 .. Len(s) /\ s[i + 1] = "close" BY <1>1, <1>3
  <2>2. i + 1 < Len(s) /\ s[(i + 1) + 1] = "finish" BY <2>1 DEF Ordered
  <2> QED BY <1>1, <2>1, <2>2
<1>4. Ordered(Tail(s)) BY <1>1, <1>2, <1>3 DEF Ordered
<1>5. ASSUME Tail(s) # <<>>
      PROVE  Len(s) >= 2 /\ Head(Tail(s)) = s[2] /\ Follows(s[1], s[2])
  <2>1. Len(s) >= 2 BY <1>1, <1>5, EmptySeq
  <2>2. Head(Tail(s)) = s[2] BY <1>1, <1>5, <2>1
  <2>3. Follows(s[2 - 1], s[2]) BY <2>1, <1>1 DEF Ordered
  <2> QED BY <2>1, <2>2, <2>3
<1>6. ASSUME Head(s) = "close" PROVE Tail(s) # <<>> /\ Head(Tail(s)) = "finish"
  <2>0. 1 \in 1 .. Len(s) /\ s[1] = "close" BY <1>1, <1>6
  <2>1. 1 < Len(s) /\ s[1 + 1] = "finish" BY <2>0 DEF Ordered
  <2>2. Len(Tail(s)) # 0 BY <1>1, <2>1
  <2>3. Tail(s) # <<>> BY <1>1, <2>2, EmptySeq
  <2> QED BY <2>1, <2>3, <1>5
<1> QED BY <1>1, <1>4, <1>5, <1>6

\* A step put before others.
LEMMA OrderedCons ==
  ASSUME NEW op \in Ops, NEW s, Ordered(s),
         s # <<>> => Follows(op, Head(s)),
         op = "close" => s # <<>> /\ Head(s) = "finish"
  PROVE  /\ Ordered(<<op>> \o s)
         /\ <<op>> \o s # <<>> /\ Head(<<op>> \o s) = op
<1> DEFINE t == <<op>> \o s
<1>1. /\ s \in Seq(Ops) /\ Len(s) \in Nat
      /\ t \in Seq(Ops) /\ Len(t) = Len(s) + 1
      /\ t[1] = op
      /\ \A i \in 2 .. Len(t) : t[i] = s[i - 1]
  BY DEF Ordered
<1> HIDE DEF t
<1>2. t # <<>> /\ Head(t) = op BY <1>1
<1>3. s # <<>> => Len(s) >= 1 /\ Head(s) = s[1] BY <1>1
<1>4. ASSUME NEW i \in 2 .. Len(t) PROVE Follows(t[i - 1], t[i])
  <2>1. CASE i = 2
    <3>1. Len(s) >= 1 /\ s # <<>> BY <1>1, <2>1, <1>4
    <3>2. t[2 - 1] = op /\ t[2] = s[1] BY <1>1, <3>1
    <3> QED BY <1>3, <2>1, <3>1, <3>2
  <2>2. CASE i > 2
    <3>1. i - 1 \in 2 .. Len(t) /\ i - 1 \in 2 .. Len(s) BY <1>1, <1>4, <2>2
    <3>2. t[i] = s[i - 1] /\ t[i - 1] = s[(i - 1) - 1] BY <1>1, <1>4, <3>1
    <3>3. Follows(s[(i - 1) - 1], s[i - 1]) BY <3>1 DEF Ordered
    <3> QED BY <3>2, <3>3
  <2> QED BY <1>4, <2>1, <2>2
<1>5. ASSUME NEW i \in 1 .. Len(t), t[i] = "close" PROVE i < Len(t) /\ t[i + 1] = "finish"
  <2>1. CASE i = 1
    <3>1. op = "close" BY <1>1, <1>5, <2>1
    <3>2. Len(s) >= 1 /\ s[1] = "finish" BY <1>3, <3>1
    <3>3. 2 \in 2 .. Len(t) /\ t[2] = s[2 - 1] BY <1>1, <3>2
    <3> QED BY <1>1, <2>1, <3>2, <3>3
  <2>2. CASE i > 1
    <3>1. i - 1 \in 1 .. Len(s) /\ s[i - 1] = "close" BY <1>1, <1>5, <2>2
    <3>2. i - 1 < Len(s) /\ s[(i - 1) + 1] = "finish" BY <3>1 DEF Ordered
    <3>3. i + 1 \in 2 .. Len(t) BY <1>1, <3>1, <3>2
    <3>4. t[i + 1] = s[(i + 1) - 1] BY <1>1, <3>3
    <3> QED BY <1>1, <3>1, <3>2, <3>4
  <2> QED BY <1>5, <2>1, <2>2
<1>6. Ordered(t) BY <1>1, <1>4, <1>5 DEF Ordered
<1> QED BY <1>2, <1>6 DEF t

LEMMA OrderedDisconnect ==
  ASSUME NEW s, Ordered(s), s # <<>> => Head(s) \notin {"tcp", "hello"}
  PROVE  /\ Ordered(<<"disconnect">> \o s)
         /\ <<"disconnect">> \o s # <<>> /\ Head(<<"disconnect">> \o s) = "disconnect"
<1>1. "disconnect" \in Ops BY OpsFacts
<1>2. s # <<>> => Follows("disconnect", Head(s)) BY DEF Follows
<1> QED BY <1>1, <1>2, OrderedCons

\* The sequences of steps a call starts with.
LEMMA OrderedStart ==
  /\ Ordered(Connecting) /\ Connecting # <<>> /\ Head(Connecting) = "new"
  /\ Ordered(Deletion \o Connecting) /\ Deletion \o Connecting # <<>>
  /\ Head(Deletion \o Connecting) = "disconnect"
  /\ Ordered(<<"read">>) /\ <<"read">> # <<>> /\ Head(<<"read">>) = "read"
<1> USE OpsFacts
<1>1. Ordered(Connecting) /\ Connecting # <<>> /\ Head(Connecting) = "new"
  BY DEF Ordered, Connecting, Follows
<1>2. Deletion \o Connecting = <<"disconnect">> \o (<<"free">> \o Connecting)
  BY DEF Deletion, Connecting
<1>3. /\ Ordered(<<"free">> \o Connecting) /\ <<"free">> \o Connecting # <<>>
      /\ Head(<<"free">> \o Connecting) = "free"
  BY <1>1, OrderedCons DEF Follows
<1>4. /\ Ordered(Deletion \o Connecting) /\ Deletion \o Connecting # <<>>
      /\ Head(Deletion \o Connecting) = "disconnect"
  BY <1>2, <1>3, OrderedDisconnect
<1>5. Ordered(<<"read">>) /\ <<"read">> # <<>> /\ Head(<<"read">>) = "read"
  BY DEF Ordered, Follows
<1> QED BY <1>1, <1>4, <1>5

\* What is left when a step of connecting has failed: disconnections and the
\* deletion.
LEMMA FailureForm ==
  ASSUME NEW op \in Range(Connecting) \ {"new"}
  PROVE  \E k \in 1 .. 3 :
           /\ OnFailure(op) \in Seq(Ops) /\ Len(OnFailure(op)) = k + 2
           /\ \A i \in 1 .. k + 2 : OnFailure(op)[i] = IF i <= k + 1 THEN "disconnect" ELSE "free"
<1> DEFINE k == Unwinding(op)
           d == [i \in 1 .. k |-> "disconnect"]
<1>1. k \in 1 .. 3
  <2>1. CASE op = "endpoints" BY <2>1 DEF Unwinding
  <2>2. CASE op \in {"tcp", "hello", "create", "activate"} BY <2>2 DEF Unwinding
  <2>3. CASE op = "open" BY <2>3 DEF Unwinding
  <2> QED BY <2>1, <2>2, <2>3 DEF Range, Connecting
<1>2. OnFailure(op) = d \o <<"disconnect", "free">> BY DEF OnFailure, Deletion
<1> HIDE DEF k
<1>3. d \in Seq({"disconnect"}) /\ Len(d) = k BY <1>1, SeqDef
<1>4. d \in Seq(Ops) /\ <<"disconnect", "free">> \in Seq(Ops) BY <1>1, OpsFacts, SeqDef
<1>5. /\ d \o <<"disconnect", "free">> \in Seq(Ops)
      /\ Len(d \o <<"disconnect", "free">>) = k + 2
      /\ \A i \in 1 .. k + 2 : (d \o <<"disconnect", "free">>)[i] =
           IF i <= k THEN d[i] ELSE <<"disconnect", "free">>[i - k]
  BY <1>1, <1>3, <1>4, ConcatProperties
<1>6. /\ OnFailure(op) \in Seq(Ops) /\ Len(OnFailure(op)) = k + 2
      /\ \A i \in 1 .. k + 2 : OnFailure(op)[i] = IF i <= k + 1 THEN "disconnect" ELSE "free"
  BY <1>1, <1>2, <1>3, <1>5
<1> QED BY <1>1, <1>6

\* What is left after a failure, of a step of connecting and of another.
LEMMA OrderedFailure ==
  ASSUME NEW op \in Ops, NEW s, Ordered(s), s # <<>>, Head(s) = op, todo = s
  PROVE  /\ op \in Range(Connecting) \ {"new"} =>
              Ordered(OnFailure(op)) /\ OnFailure(op) # <<>> /\ Head(OnFailure(op)) = "disconnect"
         /\ op \notin Range(Connecting) => OnFailure(op) = Tail(s)
         /\ op \in Services \cup {"tcp", "hello"} =>
              /\ Ordered(OnNoAnswer(op)) /\ OnNoAnswer(op) # <<>>
              /\ Head(OnNoAnswer(op)) = "disconnect"
<1>1. Range(Connecting) = {"new", "tcp", "hello", "open", "endpoints", "create", "activate"}
  BY DEF Range, Connecting
<1>2. ASSUME op \in Range(Connecting) \ {"new"}
      PROVE  Ordered(OnFailure(op)) /\ OnFailure(op) # <<>> /\ Head(OnFailure(op)) = "disconnect"
  <2>1. PICK k \in 1 .. 3 :
          /\ OnFailure(op) \in Seq(Ops) /\ Len(OnFailure(op)) = k + 2
          /\ \A i \in 1 .. k + 2 : OnFailure(op)[i] = IF i <= k + 1 THEN "disconnect" ELSE "free"
    BY <1>2, FailureForm
  <2>2. Ordered(OnFailure(op)) BY <2>1 DEF Ordered, Follows
  <2>3. OnFailure(op) # <<>> /\ Head(OnFailure(op)) = "disconnect" BY <2>1
  <2> QED BY <2>2, <2>3
<1>3. op \notin Range(Connecting) => OnFailure(op) = Tail(s) BY DEF OnFailure
<1>4. ASSUME op \in Services \cup {"tcp", "hello"}
      PROVE  /\ Ordered(OnNoAnswer(op)) /\ OnNoAnswer(op) # <<>>
             /\ Head(OnNoAnswer(op)) = "disconnect"
  <2>1. CASE op \in Range(Connecting)
    <3>1. op # "new" BY <1>4 DEF Services
    <3> QED BY <1>2, <2>1, <3>1, OrderedDisconnect DEF OnNoAnswer
  <2>2. CASE op \notin Range(Connecting)
    <3>1. OnFailure(op) = Tail(s) BY <1>3, <2>2
    <3>2. Ordered(Tail(s)) /\ (Tail(s) # <<>> => Follows(op, Head(Tail(s)))) BY OrderedTail
    <3>3. op \in {"read", "close"} BY <1>1, <1>4, <2>2 DEF Services
    <3>4. Tail(s) # <<>> => Head(Tail(s)) \notin {"tcp", "hello"}
      BY <3>2, <3>3 DEF Follows
    <3> QED BY <3>1, <3>2, <3>4, OrderedDisconnect DEF OnNoAnswer
  <2> QED BY <2>1, <2>2
<1> QED BY <1>2, <1>3, <1>4

-----------------------------------------------------------------------------

\* Requests may be outstanding without anybody waiting only while the client
\* disconnects.
Disconnecting == todo # <<>> /\ Head(todo) \in {"disconnect", "close", "finish"}

Kinds ==
  /\ object \in BOOLEAN /\ channel \in BOOLEAN /\ ok \in BOOLEAN
  /\ state \in ClientState
  /\ tcp \in {"CLOSED", "OPENING", "ESTABLISHED"}

Numbers ==
  /\ requestId \in Nat /\ awaiting \in 0 .. requestId /\ asked \subseteq 1 .. requestId
  /\ lost \in Nat /\ Sockets <= FD_MAX

Types == Kinds /\ Numbers

\* What the order of the steps says of the connection at each of them.
Connection ==
  /\ todo # <<>> /\ Head(todo) = "tcp" => ~channel
  /\ todo # <<>> /\ Head(todo) = "hello" => tcp = "OPENING"
  /\ todo # <<>> /\ Head(todo) = "free" => tcp # "ESTABLISHED"
  /\ channel => tcp # "OPENING"

Requests ==
  /\ awaiting # 0 => todo # <<>> /\ Head(todo) \in Services
  /\ asked # {} => tcp = "ESTABLISHED"
  /\ Disconnecting \/ asked \subseteq {awaiting}

IInv == Ordered(todo) /\ Types /\ Connection /\ Requests

LEMMA InvInit == Init => IInv
<1> SUFFICES ASSUME Init PROVE IInv OBVIOUS
<1>1. Ordered(todo) BY DEF Init, Ordered
<1>2. Types
  <2>1. Sockets = 0 BY DEF Init, Sockets
  <2>2. Sockets <= FD_MAX BY <2>1, UaClientAssumption
  <2>3. awaiting \in 0 .. requestId /\ asked \subseteq 1 .. requestId BY DEF Init
  <2> QED BY <2>2, <2>3 DEF Init, Types, Kinds, Numbers, ClientState
<1> QED BY <1>1, <1>2 DEF Init, IInv, Connection, Requests

\* The steps after the current one, and how they may go on.
LEMMA TailFacts ==
  ASSUME IInv, NEW op, Doing(op)
  PROVE  /\ op \in Ops /\ Ordered(Tail(todo))
         /\ Tail(todo) # <<>> => Follows(op, Head(Tail(todo)))
         /\ op = "close" => Tail(todo) # <<>> /\ Head(Tail(todo)) = "finish"
         /\ op \notin Services => awaiting = 0
         /\ op \notin {"disconnect", "close", "finish"} => asked \subseteq {awaiting}
BY OrderedTail DEF IInv, Doing, Requests, Disconnecting

\* The way out of a step that fails, or of a service without an answer.
LEMMA FailureFacts ==
  ASSUME IInv, NEW op, Doing(op)
  PROVE  /\ op \in Range(Connecting) \ {"new"} =>
              Ordered(OnFailure(op)) /\ OnFailure(op) # <<>> /\ Head(OnFailure(op)) = "disconnect"
         /\ op \notin Range(Connecting) => OnFailure(op) = Tail(todo)
         /\ op \in Services \cup {"tcp", "hello"} =>
              /\ Ordered(OnNoAnswer(op)) /\ OnNoAnswer(op) # <<>>
              /\ Head(OnNoAnswer(op)) = "disconnect"
BY TailFacts, OrderedFailure DEF IInv, Doing

LEMMA InvStep == IInv /\ [Next]_vars => IInv'
<1> SUFFICES ASSUME IInv, [Next]_vars PROVE IInv' OBVIOUS
<1> USE DEF link
<1>1. ASSUME NEW s, Ordered(s), s # <<>>, Head(s) \in {"new", "disconnect", "read"}, Enter(s)
      PROVE  IInv'
  <2>1. awaiting = 0 /\ asked = {} /\ awaiting \notin asked
    BY <1>1 DEF Enter, IInv, Types, Kinds, Numbers, Requests, Disconnecting
  <2>2. Types' BY <1>1 DEF Enter, IInv, Types, Kinds, Numbers, Sockets
  <2>3. Connection' /\ Requests' BY <1>1, <2>1 DEF Enter, IInv, Connection, Requests
  <2> QED BY <1>1, <2>2, <2>3 DEF Enter, IInv
<1>2. CASE Connect
  <2>1. CASE object BY <1>1, <1>2, <2>1, OrderedStart DEF Connect
  <2>2. CASE ~object
    <3>1. <<>> \o Connecting = Connecting BY DEF Connecting
    <3>2. Enter(Connecting) BY <1>2, <2>2, <3>1 DEF Connect
    <3> QED BY <1>1, <3>2, OrderedStart
  <2> QED BY <2>1, <2>2
<1>3. CASE Read BY <1>1, <1>3, OrderedStart DEF Read
<1>4. CASE New
  <2>1. awaiting = 0 /\ asked = {}
    BY <1>4, TailFacts DEF New, IInv, Types, Kinds, Numbers, Services
  <2>2. Ordered(todo') BY <1>4, TailFacts DEF New
  <2>3. Types'
    <3>1. Sockets' = lost BY <1>4 DEF New, Sockets, IInv, Types, Numbers
    <3>2. lost <= FD_MAX BY UaClientAssumption DEF IInv, Types, Numbers, Sockets
    <3>3. Numbers' BY <1>4, <2>1, <3>1, <3>2 DEF New, IInv, Types, Numbers
    <3>4. Kinds' BY <1>4 DEF New, IInv, Types, Kinds, ClientState
    <3> QED BY <3>3, <3>4 DEF Types
  <2>4. Connection' /\ Requests'
    BY <1>4, <2>1, TailFacts DEF New, Connection, Requests, Follows
  <2> QED BY <2>2, <2>3, <2>4 DEF IInv
<1>5. CASE OpenTcp
  <2>1. awaiting = 0 /\ asked = {} /\ ~channel
    BY <1>5, TailFacts DEF OpenTcp, IInv, Types, Kinds, Numbers, Services, Connection, Doing
  <2>2. "tcp" \in Range(Connecting) \ {"new"} BY DEF Range, Connecting
  <2>3. CASE Sockets < FD_MAX /\ tcp' = "OPENING" /\ todo' = Tail(todo)
    <3>1. Sockets' <= FD_MAX BY <1>5, <2>3, UaClientAssumption DEF OpenTcp, Sockets, IInv, Types, Kinds, Numbers
    <3>2. Types' BY <1>5, <2>1, <2>3, <3>1 DEF OpenTcp, IInv, Types, Kinds, Numbers
    <3>3. Ordered(todo') /\ Connection' /\ Requests'
      BY <1>5, <2>1, <2>3, TailFacts DEF OpenTcp, Connection, Requests, Follows
    <3> QED BY <3>2, <3>3 DEF IInv
  <2>4. CASE tcp' = "CLOSED" /\ todo' = OnFailure("tcp")
    <3>1. Sockets' <= FD_MAX BY <1>5, <2>4, UaClientAssumption DEF OpenTcp, Sockets, IInv, Types, Kinds, Numbers
    <3>2. Types' BY <1>5, <2>1, <2>4, <3>1 DEF OpenTcp, IInv, Types, Kinds, Numbers
    <3>3. Ordered(todo') /\ Connection' /\ Requests'
      BY <1>5, <2>1, <2>2, <2>4, FailureFacts DEF OpenTcp, Connection, Requests
    <3> QED BY <3>2, <3>3 DEF IInv
  <2> QED BY <1>5, <2>3, <2>4 DEF OpenTcp
<1>6. CASE Hello
  <2>1. awaiting = 0 /\ asked = {} /\ tcp = "OPENING" /\ ~channel
    BY <1>6, TailFacts DEF Hello, IInv, Types, Kinds, Numbers, Services, Connection, Doing
  <2>2. Sockets' <= FD_MAX
    BY <1>6, <2>1, UaClientAssumption DEF Hello, Sockets, IInv, Types, Kinds, Numbers
  <2>3. Types' BY <1>6, <2>1, <2>2 DEF Hello, IInv, Types, Kinds, Numbers, ClientState
  <2>4. CASE tcp' = "ESTABLISHED" /\ todo' = Tail(todo)
    BY <1>6, <2>1, <2>3, <2>4, TailFacts DEF Hello, IInv, Connection, Requests, Follows
  <2>5. CASE todo' = OnNoAnswer("hello") /\ UNCHANGED channel
    BY <1>6, <2>1, <2>3, <2>5, FailureFacts DEF Hello, IInv, Connection, Requests
  <2> QED BY <1>6, <2>4, <2>5 DEF Hello

<1>7. ASSUME NEW op \in Services, Send(op) PROVE IInv'
  <2>1. asked # {} => Disconnecting
    <3>1. 0 \notin asked BY DEF IInv, Types, Numbers
    <3> QED BY <1>7, <3>1 DEF Send, IInv, Requests
  <2>2. tcp = "ESTABLISHED" BY <1>7 DEF Send, IInv, Types, Kinds, Numbers, Connection
  <2>3. awaiting' \in 0 .. requestId' /\ asked' \subseteq 1 .. requestId' /\ requestId' \in Nat
    BY <1>7 DEF Send, IInv, Types, Kinds, Numbers
  <2>4. Types' BY <1>7, <2>3 DEF Send, IInv, Types, Kinds, Numbers, Sockets
  <2>5. Requests'
    BY <1>7, <2>1, <2>2 DEF Send, Serving, Doing, IInv, Types, Kinds, Numbers, Requests, Disconnecting
  <2> QED BY <1>7, <2>4, <2>5 DEF Send, IInv, Connection
<1>8. ASSUME NEW op \in Services, SendFails(op) PROVE IInv'
  <2>1. Doing(op) BY <1>8 DEF SendFails, Serving
  <2>2. /\ Ordered(todo') /\ todo' # <<>> /\ Head(todo') = "disconnect"
    BY <1>8, <2>1, FailureFacts DEF SendFails
  <2>3. Sockets' <= FD_MAX
    BY <1>8, UaClientAssumption DEF SendFails, Sockets, IInv, Types, Kinds, Numbers
  <2>4. requestId' \in Nat /\ awaiting' \in 0 .. requestId' /\ asked' \subseteq 1 .. requestId'
    <3>1. asked' \subseteq asked /\ awaiting' = 0 /\ requestId' = requestId + 1
      BY <1>8 DEF SendFails
    <3> QED BY <3>1 DEF IInv, Types, Numbers
  <2>5. Types'
    <3>1. Kinds' BY <1>8 DEF SendFails, IInv, Types, Kinds
    <3> QED BY <1>8, <2>3, <2>4, <3>1 DEF SendFails, IInv, Types, Numbers
  <2>6. Connection' /\ Requests'
    BY <1>8, <2>2 DEF SendFails, IInv, Connection, Requests, Disconnecting
  <2> QED BY <2>2, <2>5, <2>6 DEF IInv
<1>9. ASSUME NEW op \in Services, NoAnswer(op) \/ PeerCloses(op) PROVE IInv'
  <2>1. Doing(op) BY <1>9 DEF NoAnswer, PeerCloses, Serving
  <2>2. /\ Ordered(todo') /\ todo' # <<>> /\ Head(todo') = "disconnect"
    BY <1>9, <2>1, FailureFacts DEF NoAnswer, PeerCloses
  <2>3. Sockets' <= FD_MAX
    BY <1>9, UaClientAssumption DEF NoAnswer, PeerCloses, Sockets, IInv, Types, Kinds, Numbers
  <2>4. Types'
    <3>1. Kinds' BY <1>9 DEF NoAnswer, PeerCloses, IInv, Types, Kinds, ClientState
    <3>2. requestId' \in Nat /\ awaiting' \in 0 .. requestId' /\ asked' \subseteq 1 .. requestId'
      <4>1. asked' \subseteq asked /\ awaiting' = 0 /\ requestId' = requestId
        BY <1>9 DEF NoAnswer, PeerCloses
      <4> QED BY <4>1 DEF IInv, Types, Numbers
    <3> QED BY <1>9, <2>3, <3>1, <3>2 DEF NoAnswer, PeerCloses, IInv, Types, Numbers
  <2>5. Connection' /\ Requests'
    BY <1>9, <2>2 DEF NoAnswer, PeerCloses, IInv, Connection, Requests, Disconnecting
  <2> QED BY <2>2, <2>4, <2>5 DEF IInv
<1>10. ASSUME NEW op \in Services, Answer(op) PROVE IInv'
  <2>1. Doing(op) /\ awaiting \in asked BY <1>10 DEF Answer, Serving
  <2>2. tcp = "ESTABLISHED" BY <2>1 DEF IInv, Requests
  <2>3. op \notin {"new", "tcp", "disconnect", "finish"} /\ (op = "close" \/ asked' = {})
    BY <1>10, <2>1, TailFacts DEF Answer, Services
  <2>4. Types'
    <3>1. ok' \in BOOLEAN BY <1>10 DEF Answer, IInv, Types, Kinds
    <3>2. state' \in ClientState BY <1>10 DEF Answer, After, IInv, Types, Kinds, ClientState
    <3>3. Numbers' BY <1>10 DEF Answer, IInv, Types, Numbers, Sockets
    <3> QED BY <1>10, <3>1, <3>2, <3>3 DEF Answer, IInv, Types, Kinds
  <2>5. CASE todo' = Tail(todo)
    <3>1. Ordered(todo') BY <2>1, <2>5, TailFacts
    <3>2. todo' # <<>> => Head(todo') \notin {"tcp", "hello", "free"}
      BY <1>10, <2>1, <2>3, <2>5, TailFacts DEF Follows, Services
    <3>3. Disconnecting' \/ asked' = {} BY <2>1, <2>3, <2>5, TailFacts DEF Disconnecting
    <3> QED
      BY <1>10, <2>2, <2>4, <3>1, <3>2, <3>3 DEF Answer, IInv, Connection, Requests
  <2>6. CASE op # "open" /\ todo' = OnFailure(op)
    <3>1. CASE op \in Range(Connecting)
      <4>1. Ordered(todo') /\ todo' # <<>> /\ Head(todo') = "disconnect"
        BY <2>1, <2>3, <2>6, <3>1, FailureFacts
      <4> QED
        BY <1>10, <2>2, <2>4, <4>1 DEF Answer, IInv, Connection, Requests, Disconnecting
    <3>2. CASE op \notin Range(Connecting) BY <2>1, <2>5, <2>6, <3>2, FailureFacts
    <3> QED BY <3>1, <3>2
  <2> QED BY <1>10, <2>5, <2>6 DEF Answer
<1>11. ASSUME NEW op \in Services, LateAnswer(op) PROVE IInv'
  <2>1. asked' \subseteq asked BY <1>11 DEF LateAnswer
  <2>2. Types' BY <1>11, <2>1 DEF LateAnswer, IInv, Types, Kinds, Numbers, Sockets
  <2> QED
    BY <1>11, <2>1, <2>2 DEF LateAnswer, IInv, Connection, Requests, Disconnecting
<1>12. CASE Disconnect
  <2>1. awaiting = 0 /\ "disconnect" \in Ops /\ Ordered(Tail(todo))
        /\ (Tail(todo) # <<>> => Follows("disconnect", Head(Tail(todo))))
    BY <1>12, TailFacts DEF Disconnect, Services
  <2>2. /\ Ordered(<<"finish">> \o Tail(todo)) /\ <<"finish">> \o Tail(todo) # <<>>
        /\ Head(<<"finish">> \o Tail(todo)) = "finish"
    <3>1. "finish" \in Ops BY OpsFacts
    <3>2. Tail(todo) # <<>> => Follows("finish", Head(Tail(todo))) BY <2>1 DEF Follows
    <3> QED BY <2>1, <3>1, <3>2, OrderedCons
  <2>3. /\ Ordered(<<"close">> \o (<<"finish">> \o Tail(todo)))
        /\ <<"close">> \o (<<"finish">> \o Tail(todo)) # <<>>
        /\ Head(<<"close">> \o (<<"finish">> \o Tail(todo))) = "close"
    <3>1. "close" \in Ops BY OpsFacts
    <3>2. Follows("close", "finish") BY DEF Follows
    <3> QED BY <2>2, <3>1, <3>2, OrderedCons
  <2>4. todo' = (<<"close">> \o (<<"finish">> \o Tail(todo))) \/ todo' = <<"finish">> \o Tail(todo)
    <3>1. Tail(todo) \in Seq(Ops) BY <2>1 DEF Ordered
    <3> QED BY <1>12, <3>1, OpsFacts DEF Disconnect
  <2>5. Ordered(todo') /\ todo' # <<>> /\ Head(todo') \in {"close", "finish"}
    BY <2>2, <2>3, <2>4
  <2>6. Types' BY <1>12 DEF Disconnect, IInv, Types, Kinds, Numbers, ClientState, Sockets
  <2>7. Connection' /\ Requests'
    BY <1>12, <2>1, <2>5 DEF Disconnect, IInv, Connection, Requests, Disconnecting
  <2> QED BY <2>5, <2>6, <2>7 DEF IInv
<1>13. CASE Finish
  <2>1. awaiting = 0 BY <1>13, TailFacts DEF Finish, Services
  <2>2. tcp' # "ESTABLISHED" /\ asked' = {} /\ tcp' \in {tcp, "CLOSED"}
    BY <1>13 DEF Finish, IInv, Requests
  <2>3. Sockets' <= FD_MAX
    BY <1>13, UaClientAssumption DEF Finish, Sockets, IInv, Types, Kinds, Numbers
  <2>4. requestId' \in Nat BY <1>13 DEF Finish, IInv, Types, Kinds, Numbers
  <2>5. Types'
    <3>1. Kinds' BY <1>13, <2>2 DEF Finish, IInv, Types, Kinds, ClientState
    <3>2. lost' \in Nat /\ awaiting' = 0 BY <1>13, <2>1 DEF Finish, IInv, Types, Numbers
    <3>3. Numbers' BY <2>2, <2>3, <2>4, <3>2 DEF Numbers
    <3> QED BY <3>1, <3>3 DEF Types
  <2>6. Ordered(todo') /\ (todo' # <<>> => Follows("finish", Head(todo')))
    BY <1>13, TailFacts DEF Finish
  <2>7. Connection' /\ Requests'
    BY <1>13, <2>1, <2>2, <2>6 DEF Finish, Connection, Requests, Follows
  <2> QED BY <2>5, <2>6, <2>7 DEF IInv
<1>14. CASE Free
  <2>1. awaiting = 0 /\ asked = {}
    BY <1>14, TailFacts DEF Free, Services, IInv, Types, Kinds, Numbers
  <2>2. lost' \in Nat /\ Sockets' = Sockets BY <1>14 DEF Free, Sockets, IInv, Types, Kinds, Numbers
  <2>3. Types' BY <1>14, <2>1, <2>2 DEF Free, IInv, Types, Kinds, Numbers
  <2>4. Ordered(todo') /\ (todo' # <<>> => Follows("free", Head(todo')))
    BY <1>14, TailFacts DEF Free
  <2>5. Connection' /\ Requests'
    BY <1>14, <2>1, <2>4 DEF Free, Connection, Requests, Follows
  <2> QED BY <2>3, <2>4, <2>5 DEF IInv
<1>15. CASE UNCHANGED vars
  BY <1>15 DEF vars, IInv, Types, Kinds, Numbers, Connection, Requests, Disconnecting, Sockets
<1> QED
  BY <1>2, <1>3, <1>4, <1>5, <1>6, <1>7, <1>8, <1>9, <1>10, <1>11, <1>12, <1>13, <1>14, <1>15
  DEF Next, Client, Peer

THEOREM Invariance == Init /\ [][Next]_vars => []IInv
BY InvInit, InvStep, PTL

\* The connection, the requests and the steps left keep their types, and
\* there are never more sockets than the process may have.
THEOREM TypeCorrect == Spec => []TypeOK
<1>1. IInv => TypeOK
  <2> SUFFICES ASSUME IInv PROVE TypeOK OBVIOUS
  <2>1. Range(todo) \subseteq Ops
    <3>1. todo \in Seq(Ops) BY DEF IInv, Ordered
    <3> QED BY <3>1, LenProperties DEF Range
  <2>2. Sockets \in 0 .. FD_MAX BY UaClientAssumption DEF IInv, Types, Kinds, Numbers, Sockets
  <2> QED BY <2>1, <2>2 DEF IInv, Types, Kinds, Numbers, TypeOK
<1> QED BY <1>1, Invariance, PTL DEF Spec

\* No answer is outstanding in a session that is kept: a request that was
\* given up has cost the connection.
THEOREM AnswersCorrect == Spec => []NoOldAnswers
<1>1. IInv => NoOldAnswers
  BY DEF IInv, Types, Kinds, Numbers, Requests, Disconnecting, NoOldAnswers
<1> QED BY <1>1, Invariance, PTL DEF Spec

\* Only a client whose handshake failed is deleted with its socket open:
\* every other deletion comes after a disconnection that has closed it.
THEOREM LossCorrect == Spec => LosesOnlyOpening
<1>1. IInv /\ [Next]_vars => [lost' > lost => tcp = "OPENING"]_vars
  <2> SUFFICES ASSUME IInv, [Next]_vars, lost' > lost PROVE tcp = "OPENING"
    OBVIOUS
  <2>1. lost \in Nat BY DEF IInv, Types, Kinds, Numbers
  <2>2. lost' # lost BY <2>1
  <2>3. Free
    BY <2>2
    DEF Next, Client, Peer, Connect, Read, Enter, New, OpenTcp, Hello, Send, SendFails, NoAnswer,
        Answer, LateAnswer, PeerCloses, Disconnect, Finish, vars, link
  <2>4. tcp # "ESTABLISHED" BY <2>3 DEF Free, Doing, IInv, Connection
  <2>5. tcp # "CLOSED" BY <2>1, <2>2, <2>3 DEF Free, Sockets
  <2> QED BY <2>4, <2>5 DEF IInv, Types, Kinds, Numbers
<1> QED BY <1>1, Invariance, PTL DEF Spec, LosesOnlyOpening

-----------------------------------------------------------------------------
(* The refinement of OpcSession.  How the steps left are arranged says what *)
(* the call will have done when none is left.                              *)

\* The steps of a connection come together at the end; a client is deleted at
\* the end or to be followed by a new one; a read and a close request are next.
Arranged(s) ==
  /\ \A i \in 1 .. Len(s) : s[i] = "new" => i = Len(s) - 6
  /\ \A i \in 1 .. Len(s) : s[i] = "tcp" => i = Len(s) - 5
  /\ \A i \in 1 .. Len(s) : s[i] \in Range(Connecting) => s[Len(s)] = "activate"
  /\ \A i \in 2 .. Len(s) :
       /\ s[i - 1] \notin {"activate", "read"}
       /\ s[i - 1] = "free" <=> s[i] = "new"
       /\ s[i] \notin {"close", "read"}

\* The steps of a read, which neither end in a connection nor in a deletion.
OfRead(s) == s # <<>> /\ s[Len(s)] \in {"read", "disconnect", "finish"}

\* Disconnections that have been entered end within the first n steps.
FinishWithin(s, n) == \A i \in 1 .. Len(s) : s[i] = "finish" => i <= n

\* A client is deleted before there is a new one.
Renews(s) == \E i \in 1 .. Len(s) : s[i] = "new"

LEMMA ArrangedTail ==
  ASSUME NEW s \in Seq(Ops), s # <<>>, Arranged(s)
  PROVE  /\ Arranged(Tail(s))
         /\ FinishWithin(s, 2) => FinishWithin(Tail(s), 1)
         /\ OfRead(Tail(s)) => OfRead(s)
         /\ Tail(s) # <<>> => (OfRead(s) => OfRead(Tail(s)))
         /\ Renews(Tail(s)) => Renews(s)
         /\ Head(s) \in Range(Connecting) \ {"activate"} => Tail(s) # <<>> /\ ~OfRead(s)
         /\ Head(s) \in {"activate", "read"} => Tail(s) = <<>>
         /\ Head(s) = "tcp" => ~Renews(s)
         /\ Tail(s) # <<>> => /\ Head(s) = "free" <=> Head(Tail(s)) = "new"
                              /\ Head(Tail(s)) \notin {"close", "read"}
                              /\ Head(Tail(s)) = s[2] /\ Len(s) >= 2
         /\ Tail(s) = <<>> => s[Len(s)] = Head(s)
<1> DEFINE t == Tail(s)
<1>1. /\ Len(s) \in Nat \ {0} /\ t \in Seq(Ops) /\ Len(t) = Len(s) - 1
      /\ \A i \in 1 .. Len(s) - 1 : t[i] = s[i + 1]
      /\ Head(s) = s[1]
  BY HeadTailProperties, EmptySeq, LenProperties
<1>2. t # <<>> => Len(s) >= 2 /\ Head(t) = s[2] /\ t[Len(t)] = s[Len(s)]
  <2>1. t # <<>> => Len(t) # 0 /\ Head(t) = t[1] BY <1>1
  <2> QED BY <1>1, <2>1
<1>3. t = <<>> => Len(s) = 1 BY <1>1
<1> HIDE DEF t
<1>4. ASSUME NEW i \in 1 .. Len(t)
      PROVE  /\ t[i] = s[i + 1] /\ i + 1 \in 1 .. Len(s)
             /\ t # <<>> /\ t[Len(t)] = s[Len(s)]
  <2>1. t # <<>> BY <1>1, <1>4
  <2> QED BY <1>1, <1>2, <1>4, <2>1
<1>5. Arranged(t)
  <2>1. ASSUME NEW i \in 1 .. Len(t)
        PROVE  /\ t[i] = "new" => i = Len(t) - 6
               /\ t[i] = "tcp" => i = Len(t) - 5
               /\ t[i] \in Range(Connecting) => t[Len(t)] = "activate"
    BY <1>1, <1>4 DEF Arranged
  <2>2. ASSUME NEW i \in 2 .. Len(t)
        PROVE  /\ t[i - 1] \notin {"activate", "read"}
               /\ t[i - 1] = "free" <=> t[i] = "new"
               /\ t[i] \notin {"close", "read"}
    <3>1. i \in 1 .. Len(t) /\ i - 1 \in 1 .. Len(t) /\ i + 1 \in 2 .. Len(s)
      BY <1>1, <2>2
    <3>2. t[i] = s[i + 1] /\ t[i - 1] = s[(i + 1) - 1] BY <1>1, <1>4, <3>1
    <3> QED BY <3>1, <3>2 DEF Arranged
  <2> QED BY <2>1, <2>2 DEF Arranged
<1>6. FinishWithin(s, 2) => FinishWithin(t, 1) BY <1>1, <1>4 DEF FinishWithin
<1>7. Renews(t) => Renews(s) BY <1>4 DEF Renews
<1>8. /\ s[1] \in Range(Connecting) => s[Len(s)] = "activate"
      /\ s[1] = "tcp" => Len(s) = 6
      /\ Len(s) >= 2 => /\ s[1] \notin {"activate", "read"}
                        /\ s[1] = "free" <=> s[2] = "new"
                        /\ s[2] \notin {"close", "read"}
  <2>1. 1 \in 1 .. Len(s) BY <1>1
  <2>2. Len(s) >= 2 => 2 \in 2 .. Len(s) /\ 2 - 1 = 1 BY <1>1
  <2>3. s[1] = "tcp" => 1 = Len(s) - 5 BY <2>1 DEF Arranged
  <2> QED BY <1>1, <2>1, <2>2, <2>3 DEF Arranged
<1>9. s[1] = "tcp" => ~Renews(s) BY <1>1, <1>8 DEF Renews, Arranged
<1>10. s[1] \in Range(Connecting) \ {"activate"} => t # <<>> /\ ~OfRead(s)
  BY <1>1, <1>3, <1>8 DEF OfRead
<1>11. s[1] \in {"activate", "read"} => t = <<>> BY <1>2, <1>8
<1>12. t # <<>> => (OfRead(s) <=> OfRead(t)) BY <1>2 DEF OfRead
<1>13. OfRead(t) => OfRead(s) BY <1>12 DEF OfRead
<1> QED
  BY <1>1, <1>2, <1>3, <1>5, <1>6, <1>7, <1>8, <1>9, <1>10, <1>11, <1>12, <1>13 DEF t

LEMMA ArrangedCons ==
  ASSUME NEW op \in {"disconnect", "close", "finish"}, NEW s \in Seq(Ops), Arranged(s),
         s # <<>> => Head(s) \notin {"new", "close", "read"}
  PROVE  /\ <<op>> \o s \in Seq(Ops) /\ Arranged(<<op>> \o s)
         /\ \A n \in Nat : FinishWithin(s, n) => FinishWithin(<<op>> \o s, n + 1)
         /\ OfRead(<<op>> \o s) => s = <<>> \/ OfRead(s)
         /\ OfRead(s) => OfRead(<<op>> \o s)
         /\ Renews(<<op>> \o s) => Renews(s)
         /\ Len(<<op>> \o s) >= 2 => s # <<>> /\ (<<op>> \o s)[2] = Head(s)
         /\ (<<op>> \o s)[1] = op
<1> DEFINE t == <<op>> \o s
<1>1. /\ Len(s) \in Nat /\ t \in Seq(Ops) /\ Len(t) = Len(s) + 1
      /\ t[1] = op
      /\ \A i \in 2 .. Len(t) : t[i] = s[i - 1]
  BY OpsFacts
<1>2. s # <<>> => Len(s) >= 1 /\ Head(s) = s[1] BY <1>1
<1>3. Len(s) >= 1 => s # <<>> BY <1>1
<1> HIDE DEF t
<1>4. Range(Connecting) = {"new", "tcp", "hello", "open", "endpoints", "create", "activate"}
  BY DEF Range, Connecting
<1>5. ASSUME NEW i \in 1 .. Len(t), t[i] \in Range(Connecting)
      PROVE  i - 1 \in 1 .. Len(s) /\ t[i] = s[i - 1] /\ Len(s) >= 1
  <2>1. i # 1 BY <1>1, <1>4, <1>5
  <2> QED BY <1>1, <1>5, <2>1
<1>6. s # <<>> => t[Len(t)] = s[Len(s)] BY <1>1, <1>2
<1>7. Arranged(t)
  <2>1. ASSUME NEW i \in 1 .. Len(t)
        PROVE  /\ t[i] = "new" => i = Len(t) - 6
               /\ t[i] = "tcp" => i = Len(t) - 5
               /\ t[i] \in Range(Connecting) => t[Len(t)] = "activate"
    <3>1. CASE t[i] \in Range(Connecting)
      <4>1. i - 1 \in 1 .. Len(s) /\ t[i] = s[i - 1] /\ Len(s) >= 1 BY <1>5, <3>1
      <4>2. /\ t[i] = "new" => i - 1 = Len(s) - 6
            /\ t[i] = "tcp" => i - 1 = Len(s) - 5
            /\ s[Len(s)] = "activate"
        BY <3>1, <4>1 DEF Arranged
      <4> QED BY <1>1, <1>3, <1>6, <2>1, <4>1, <4>2
    <3> QED BY <1>4, <3>1
  <2>2. ASSUME NEW i \in 2 .. Len(t)
        PROVE  /\ t[i - 1] \notin {"activate", "read"}
               /\ t[i - 1] = "free" <=> t[i] = "new"
               /\ t[i] \notin {"close", "read"}
    <3>1. CASE i = 2
      <4>1. Len(s) >= 1 /\ t[2] = Head(s) BY <1>1, <1>2, <1>3, <2>2, <3>1
      <4> QED BY <1>1, <1>3, <3>1, <4>1
    <3>2. CASE i > 2
      <4>1. i - 1 \in 2 .. Len(s) /\ i - 1 \in 2 .. Len(t) BY <1>1, <2>2, <3>2
      <4>2. t[i] = s[i - 1] /\ t[i - 1] = s[(i - 1) - 1] BY <1>1, <2>2, <4>1
      <4> QED BY <4>1, <4>2 DEF Arranged
    <3> QED BY <2>2, <3>1, <3>2
  <2> QED BY <2>1, <2>2 DEF Arranged
<1>8. ASSUME NEW n \in Nat, FinishWithin(s, n) PROVE FinishWithin(t, n + 1)
  <2>1. ASSUME NEW i \in 1 .. Len(t), t[i] = "finish" PROVE i <= n + 1
    <3>1. CASE i = 1 BY <3>1
    <3>2. CASE i # 1
      <4>1. i \in 2 .. Len(t) /\ i - 1 \in 1 .. Len(s) BY <1>1, <2>1, <3>2
      <4>2. i - 1 <= n BY <1>1, <1>8, <2>1, <4>1 DEF FinishWithin
      <4> QED BY <4>1, <4>2
    <3> QED BY <3>1, <3>2
  <2> QED BY <2>1 DEF FinishWithin
<1>9. Renews(t) => Renews(s) BY <1>4, <1>5 DEF Renews
<1>10. s # <<>> => (OfRead(t) <=> OfRead(s)) BY <1>1, <1>6 DEF OfRead
<1>11. OfRead(s) => s # <<>> BY DEF OfRead
<1>12. Len(t) >= 2 => s # <<>> /\ t[2] = Head(s) BY <1>1, <1>2, <1>3
<1> QED BY <1>1, <1>7, <1>8, <1>9, <1>10, <1>11, <1>12 DEF t

\* The way out of a step of connecting that fails, and of a service without
\* an answer.
LEMMA ArrangedFailure ==
  ASSUME NEW op, Doing(op), todo \in Seq(Ops), Arranged(todo), FinishWithin(todo, 2),
         op = "close" => Tail(todo) # <<>>
  PROVE  /\ op \in Range(Connecting) \ {"new"} =>
              /\ Arranged(OnFailure(op)) /\ FinishWithin(OnFailure(op), 0)
              /\ ~OfRead(OnFailure(op)) /\ ~Renews(OnFailure(op))
              /\ OnFailure(op) \in Seq(Ops) /\ OnFailure(op)[2] = "disconnect"
         /\ op \in Services \cup {"tcp", "hello"} =>
              /\ Arranged(OnNoAnswer(op)) /\ FinishWithin(OnNoAnswer(op), 2)
              /\ OfRead(OnNoAnswer(op)) => OfRead(todo)
              /\ Renews(OnNoAnswer(op)) => Renews(todo)
              /\ Len(OnNoAnswer(op)) >= 2 /\ OnNoAnswer(op)[2] = "finish" => op = "close"
<1>1. Range(Connecting) = {"new", "tcp", "hello", "open", "endpoints", "create", "activate"}
  BY DEF Range, Connecting
<1>2. ASSUME op \in Range(Connecting) \ {"new"}
      PROVE  /\ Arranged(OnFailure(op)) /\ FinishWithin(OnFailure(op), 0)
             /\ ~OfRead(OnFailure(op)) /\ ~Renews(OnFailure(op))
             /\ OnFailure(op) \in Seq(Ops) /\ OnFailure(op)[2] = "disconnect"
             /\ OnFailure(op) # <<>> /\ Head(OnFailure(op)) = "disconnect"
  <2>1. PICK k \in 1 .. 3 :
          /\ OnFailure(op) \in Seq(Ops) /\ Len(OnFailure(op)) = k + 2
          /\ \A i \in 1 .. k + 2 : OnFailure(op)[i] = IF i <= k + 1 THEN "disconnect" ELSE "free"
    BY <1>2, FailureForm
  <2> DEFINE r == OnFailure(op)
  <2> HIDE DEF r
  <2>2. /\ r \in Seq(Ops) /\ Len(r) = k + 2
        /\ \A i \in 1 .. k + 2 : r[i] \in {"disconnect", "free"}
        /\ \A i \in 1 .. k + 1 : r[i] = "disconnect"
        /\ r[k + 2] = "free"
    BY <2>1 DEF r
  <2>3. Arranged(r)
    <3>1. \A i \in 1 .. Len(r) : r[i] \notin Range(Connecting) BY <1>1, <2>2
    <3>2. \A i \in 1 .. Len(r) : r[i] \notin {"new", "tcp", "close", "read"} BY <2>2
    <3>3. \A i \in 2 .. Len(r) : i - 1 \in 1 .. k + 1 /\ i \in 1 .. Len(r) BY <2>2
    <3>4. \A i \in 2 .. Len(r) : r[i - 1] = "disconnect" BY <2>2, <3>3
    <3> QED BY <3>1, <3>2, <3>3, <3>4 DEF Arranged
  <2>4. FinishWithin(r, 0) /\ ~Renews(r) BY <2>2 DEF FinishWithin, Renews
  <2>5. ~OfRead(r) BY <2>2 DEF OfRead
  <2>6. r[2] = "disconnect" /\ r # <<>> /\ Head(r) = "disconnect" BY <2>2
  <2> QED BY <2>2, <2>3, <2>4, <2>5, <2>6 DEF r
<1>3. ASSUME op \in Services \cup {"tcp", "hello"}
      PROVE  /\ Arranged(OnNoAnswer(op)) /\ FinishWithin(OnNoAnswer(op), 2)
             /\ OfRead(OnNoAnswer(op)) => OfRead(todo)
             /\ Renews(OnNoAnswer(op)) => Renews(todo)
             /\ Len(OnNoAnswer(op)) >= 2 /\ OnNoAnswer(op)[2] = "finish" => op = "close"
  <2>1. CASE op \in Range(Connecting)
    <3>0. op \in Range(Connecting) \ {"new"} BY <1>3, <2>1 DEF Services
    <3> DEFINE r == OnFailure(op)
    <3>1. OnNoAnswer(op) = <<"disconnect">> \o r BY DEF OnNoAnswer
    <3>2. /\ Arranged(r) /\ FinishWithin(r, 0) /\ ~OfRead(r) /\ ~Renews(r) /\ r \in Seq(Ops)
          /\ r # <<>> /\ Head(r) = "disconnect"
      BY <1>2, <3>0
    <3> HIDE DEF r
    <3>3. /\ Arranged(<<"disconnect">> \o r)
          /\ FinishWithin(<<"disconnect">> \o r, 0 + 1)
          /\ ~OfRead(<<"disconnect">> \o r) /\ ~Renews(<<"disconnect">> \o r)
          /\ Len(<<"disconnect">> \o r) >= 2 => (<<"disconnect">> \o r)[2] = "disconnect"
      BY <3>2, ArrangedCons
    <3>4. FinishWithin(<<"disconnect">> \o r, 2) BY <3>2, <3>3, OpsFacts DEF FinishWithin
    <3> QED BY <3>1, <3>3, <3>4
  <2>2. CASE op \notin Range(Connecting)
    <3>1. op \in {"read", "close"} BY <1>1, <1>3, <2>2 DEF Services
    <3>2. OnNoAnswer(op) = <<"disconnect">> \o Tail(todo) BY <2>2 DEF OnNoAnswer, OnFailure
    <3>3. /\ Arranged(Tail(todo)) /\ FinishWithin(Tail(todo), 1)
          /\ OfRead(Tail(todo)) => OfRead(todo)
          /\ Renews(Tail(todo)) => Renews(todo)
          /\ Tail(todo) # <<>> => Head(Tail(todo)) \notin {"new", "close", "read"}
          /\ op = "read" => Tail(todo) = <<>>
          /\ Tail(todo) = <<>> /\ op = "read" => OfRead(todo)
          /\ Tail(todo) = <<>> => todo[Len(todo)] = op
      BY <3>1, ArrangedTail DEF Doing, OfRead
    <3>4. Tail(todo) \in Seq(Ops) BY HeadTailProperties DEF Doing
    <3> DEFINE t == <<"disconnect">> \o Tail(todo)
    <3>5. /\ Arranged(t) /\ FinishWithin(t, 1 + 1)
          /\ OfRead(t) => Tail(todo) = <<>> \/ OfRead(Tail(todo))
          /\ Renews(t) => Renews(Tail(todo))
          /\ Len(t) >= 2 => Tail(todo) # <<>>
      BY <3>3, <3>4, ArrangedCons
    <3> HIDE DEF t
    <3>6. OnNoAnswer(op) = t BY <3>2 DEF t
    <3>7. Tail(todo) = <<>> => op = "read" /\ OfRead(todo) BY <3>1, <3>3
    <3>8. Len(t) >= 2 => op = "close" BY <3>1, <3>3, <3>5
    <3>9. FinishWithin(t, 2) BY <3>5
    <3> QED BY <3>3, <3>5, <3>6, <3>7, <3>8, <3>9
  <2> QED BY <2>1, <2>2
<1> QED BY <1>2, <1>3

-----------------------------------------------------------------------------

\* The sockets that were not the session's when the call began.
Others == IF seen.handle = "session" THEN seen.sockets - 1 ELSE seen.sockets

Reading == todo # <<>> /\ Head(todo) = "read"

Arrangement == todo \in Seq(Ops) /\ Arranged(todo) /\ FinishWithin(todo, 2)

\* When there is an object, and when its socket is not one that is opening.
Objects ==
  /\ todo # <<>> /\ Head(todo) # "new" => object
  /\ ~object => tcp = "CLOSED"
  /\ Renews(todo) \/ OfRead(todo) => tcp # "OPENING"

\* Nothing a call has done so far can be seen; a read starts from the session
\* the manager knows.
Unseen ==
  /\ todo # <<>> => /\ ~ok
                    /\ seen.handle \in {"null", "session", "disconnected"}
                    /\ seen.sockets \in Nat /\ lost = Others
  /\ OfRead(todo) => seen.handle # "null"
  /\ Reading => seen.handle = SessionNow.handle /\ seen.sockets = Sockets

\* Between the calls, and until a read is sent, the client has a session and
\* its connection, or neither.
Settled ==
  object /\ (todo = <<>> \/ Reading) =>
    \/ state = "SESSION" /\ tcp = "ESTABLISHED"
    \/ state = "DISCONNECTED" /\ tcp = "CLOSED"

\* A disconnection within another finds the session closed.
Closing ==
  /\ todo # <<>> /\ Head(todo) = "close" => state # "SESSION"
  /\ Len(todo) >= 2 /\ todo[1] = "disconnect" /\ todo[2] = "finish" => state # "SESSION"

CallInv == Arrangement /\ Objects /\ Unseen /\ Settled /\ Closing

LEMMA ArrangedStart ==
  /\ Arranged(<<>>) /\ FinishWithin(<<>>, 2)
  /\ Connecting \in Seq(Ops) /\ Arranged(Connecting) /\ FinishWithin(Connecting, 2)
  /\ ~OfRead(Connecting) /\ Connecting # <<>> /\ Head(Connecting) = "new"
  /\ Deletion \o Connecting \in Seq(Ops) /\ Arranged(Deletion \o Connecting)
  /\ FinishWithin(Deletion \o Connecting, 2) /\ ~OfRead(Deletion \o Connecting)
  /\ Deletion \o Connecting # <<>> /\ Head(Deletion \o Connecting) = "disconnect"
  /\ (Deletion \o Connecting)[2] = "free"
  /\ <<"read">> \in Seq(Ops) /\ Arranged(<<"read">>) /\ FinishWithin(<<"read">>, 2)
  /\ OfRead(<<"read">>) /\ <<"read">> # <<>> /\ Head(<<"read">>) = "read"
<1>1. Range(Connecting) = {"new", "tcp", "hello", "open", "endpoints", "create", "activate"}
  BY DEF Range, Connecting
<1>2. Arranged(<<>>) /\ FinishWithin(<<>>, 2) BY DEF Arranged, FinishWithin
<1>3. /\ Connecting \in Seq(Ops) /\ Connecting # <<>> /\ Head(Connecting) = "new"
      /\ FinishWithin(Connecting, 2) /\ ~OfRead(Connecting)
  BY OpsFacts DEF Connecting, FinishWithin, OfRead
<1>4. Arranged(Connecting)
  <2> DEFINE s == <<"new", "tcp", "hello", "open", "endpoints", "create", "activate">>
  <2>1. Len(s) = 7 /\ s[7] = "activate" OBVIOUS
  <2>2. \A i \in 1 .. 7 : (s[i] = "new" => i = 1) /\ (s[i] = "tcp" => i = 2) OBVIOUS
  <2>3. \A i \in 2 .. 7 :
          /\ s[i - 1] \notin {"activate", "read", "free"}
          /\ s[i] \notin {"new", "close", "read"}
    OBVIOUS
  <2> HIDE DEF s
  <2>4. Arranged(s) BY <2>1, <2>2, <2>3 DEF Arranged
  <2> QED BY <2>4 DEF s, Connecting
<1> DEFINE s == Deletion \o Connecting
<1>5. /\ s \in Seq(Ops) /\ Len(s) = 9
      /\ s[1] = "disconnect" /\ s[2] = "free" /\ s[3] = "new" /\ s[4] = "tcp" /\ s[5] = "hello"
      /\ s[6] = "open" /\ s[7] = "endpoints" /\ s[8] = "create" /\ s[9] = "activate"
  <2>1. /\ Deletion \in Seq(Ops) /\ Len(Deletion) = 2
        /\ Deletion[1] = "disconnect" /\ Deletion[2] = "free"
    BY OpsFacts DEF Deletion
  <2>2. /\ Len(Connecting) = 7
        /\ Connecting[1] = "new" /\ Connecting[2] = "tcp" /\ Connecting[3] = "hello"
        /\ Connecting[4] = "open" /\ Connecting[5] = "endpoints" /\ Connecting[6] = "create"
        /\ Connecting[7] = "activate"
    BY DEF Connecting
  <2>3. /\ s \in Seq(Ops) /\ Len(s) = Len(Deletion) + Len(Connecting)
        /\ \A i \in 1 .. Len(Deletion) + Len(Connecting) :
             s[i] = IF i <= Len(Deletion) THEN Deletion[i] ELSE Connecting[i - Len(Deletion)]
    BY <1>3, <2>1, ConcatProperties
  <2> HIDE DEF s
  <2>4. \A i \in 1 .. 9 : s[i] = IF i <= 2 THEN Deletion[i] ELSE Connecting[i - 2]
    BY <2>1, <2>2, <2>3
  <2>5. s[1] = "disconnect" /\ s[2] = "free" BY <2>1, <2>4
  <2>6. /\ s[3] = "new" /\ s[4] = "tcp" /\ s[5] = "hello" /\ s[6] = "open"
        /\ s[7] = "endpoints" /\ s[8] = "create" /\ s[9] = "activate"
    BY <2>2, <2>4
  <2> QED BY <2>1, <2>2, <2>3, <2>5, <2>6
<1> HIDE DEF s
<1>6. s # <<>> /\ Head(s) = "disconnect" /\ FinishWithin(s, 2) /\ ~OfRead(s)
  <2>1. \A i \in 1 .. 9 : s[i] # "finish" BY <1>5
  <2>2. s # <<>> /\ Head(s) = "disconnect" BY <1>5
  <2> QED BY <1>5, <2>1, <2>2 DEF FinishWithin, OfRead
<1>7. Arranged(s)
  <2>1. \A i \in 1 .. 9 : (s[i] = "new" => i = 3) /\ (s[i] = "tcp" => i = 4) BY <1>5
  <2>2. \A i \in 2 .. 9 :
          /\ s[i - 1] \notin {"activate", "read"} /\ s[i] \notin {"close", "read"}
          /\ s[i - 1] = "free" <=> s[i] = "new"
    BY <1>5
  <2> QED BY <1>5, <2>1, <2>2 DEF Arranged
<1>8. /\ <<"read">> \in Seq(Ops) /\ FinishWithin(<<"read">>, 2)
      /\ OfRead(<<"read">>) /\ <<"read">> # <<>> /\ Head(<<"read">>) = "read"
  BY OpsFacts DEF FinishWithin, OfRead
<1>9. Arranged(<<"read">>) BY <1>1 DEF Arranged
<1> QED BY <1>2, <1>3, <1>4, <1>5, <1>6, <1>7, <1>8, <1>9 DEF s

LEMMA CallInit == Init => CallInv
<1> SUFFICES ASSUME Init PROVE CallInv OBVIOUS
<1>1. Arrangement BY ArrangedStart DEF Init, Arrangement
<1>2. Objects /\ Unseen /\ Settled /\ Closing
  BY DEF Init, Objects, Unseen, Settled, Closing, Reading, OfRead, Renews
<1> QED BY <1>1, <1>2 DEF CallInv

\* A step is followed by the next one.
LEMMA NextStep ==
  ASSUME IInv, CallInv, NEW op, Doing(op), todo' = Tail(todo)
  PROVE  /\ Arrangement'
         /\ Renews(todo') => Renews(todo)
         /\ OfRead(todo') => OfRead(todo)
         /\ todo' # <<>> => /\ op = "free" <=> Head(todo') = "new"
                            /\ Head(todo') \notin {"close", "read"}
                            /\ (OfRead(todo) => OfRead(todo'))
         /\ op \in Range(Connecting) \ {"activate"} => todo' # <<>> /\ ~OfRead(todo)
         /\ op \in {"activate", "read"} => todo' = <<>>
         /\ op = "tcp" => ~Renews(todo)
         /\ ~Reading' /\ Closing'
<1>1. todo \in Seq(Ops) /\ todo # <<>> /\ Head(todo) = op /\ Arranged(todo) /\ FinishWithin(todo, 2)
  BY DEF Doing, CallInv, Arrangement
<1>2. Tail(todo) \in Seq(Ops) BY <1>1, HeadTailProperties
<1>3. FinishWithin(Tail(todo), 1) => FinishWithin(Tail(todo), 2)
  BY <1>2 DEF FinishWithin
<1>4. Arrangement' BY <1>1, <1>2, <1>3, ArrangedTail DEF Arrangement
<1>5. ~Reading' BY <1>1, ArrangedTail DEF Reading
<1>6. Closing'
  <2>1. ~(Len(todo') >= 2 /\ todo'[2] = "finish")
    BY <1>1, <1>2, ArrangedTail DEF FinishWithin
  <2>2. todo' # <<>> => Head(todo') # "close" BY <1>1, ArrangedTail
  <2> QED BY <2>1, <2>2 DEF Closing
<1> QED BY <1>1, <1>4, <1>5, <1>6, ArrangedTail

LEMMA CallStep == IInv /\ CallInv /\ [Next]_vars => CallInv'
<1> SUFFICES ASSUME IInv, CallInv, [Next]_vars PROVE CallInv' OBVIOUS
<1> USE DEF link
<1>1. ASSUME NEW s \in Seq(Ops), Arranged(s), FinishWithin(s, 2), s # <<>>, Enter(s),
             Head(s) = "new" \/ (object /\ Head(s) = "disconnect" /\ s[2] = "free")
               \/ (object /\ Head(s) = "read"),
             OfRead(s) => object
      PROVE  CallInv'
  <2>1. Arrangement' BY <1>1 DEF Enter, Arrangement
  <2>2. tcp # "OPENING" BY <1>1 DEF Enter, CallInv, Objects, Settled
  <2>3. Objects' BY <1>1, <2>2 DEF Enter, CallInv, Objects
  <2>4. Unseen'
    <3>1. SessionNow.sockets = Sockets /\ Sockets \in Nat /\ seen' = SessionNow
      BY <1>1 DEF Enter, SessionNow, Sockets, IInv, Types, Numbers
    <3>2. Others' = lost'
      <4>1. SessionNow.handle = "session" <=> object /\ state = "SESSION" BY DEF SessionNow
      <4>2. SessionNow.sockets - 1 = lost \/ SessionNow.sockets = lost
        BY <3>1 DEF Sockets, IInv, Types, Numbers
      <4>3. CASE object /\ state = "SESSION"
        <5>1. tcp = "ESTABLISHED" BY <1>1, <4>3 DEF Enter, CallInv, Settled
        <5> QED BY <1>1, <3>1, <4>1, <4>3, <5>1 DEF Enter, Others, Sockets, IInv, Types, Numbers
      <4>4. CASE ~(object /\ state = "SESSION")
        <5>1. tcp = "CLOSED" BY <1>1, <4>4 DEF Enter, CallInv, Settled, Objects
        <5> QED BY <1>1, <3>1, <4>1, <4>4, <5>1 DEF Enter, Others, Sockets, IInv, Types, Numbers
      <4> QED BY <4>3, <4>4
    <3>3. SessionNow'.handle = SessionNow.handle /\ Sockets' = Sockets
      BY <1>1 DEF Enter, SessionNow, Sockets
    <3>4. /\ object => SessionNow.handle # "null"
          /\ SessionNow.handle \in {"null", "session", "disconnected"}
      BY DEF SessionNow
    <3> QED BY <1>1, <3>1, <3>2, <3>3, <3>4 DEF Enter, Unseen, Reading
  <2>5. Settled' BY <1>1 DEF Enter, CallInv, Settled, Reading
  <2>6. Closing' BY <1>1 DEF Enter, Closing
  <2> QED BY <2>1, <2>3, <2>4, <2>5, <2>6 DEF CallInv
<1>2. CASE Connect
  <2>1. CASE object BY <1>1, <1>2, <2>1, ArrangedStart DEF Connect
  <2>2. CASE ~object
    <3>1. <<>> \o Connecting = Connecting BY DEF Connecting
    <3>2. Enter(Connecting) BY <1>2, <2>2, <3>1 DEF Connect
    <3> QED BY <1>1, <3>2, ArrangedStart
  <2> QED BY <2>1, <2>2
<1>3. CASE Read BY <1>1, <1>3, ArrangedStart DEF Read
<1>4. CASE New
  <2>1. "new" \in Range(Connecting) \ {"activate"} BY DEF Range, Connecting
  <2>2. /\ Arrangement' /\ ~Reading' /\ Closing' /\ todo' # <<>> /\ ~OfRead(todo')
    BY <1>4, <2>1, NextStep DEF New
  <2>3. Objects' BY <1>4, <2>2 DEF New, Objects
  <2>4. Unseen' BY <1>4, <2>2 DEF New, CallInv, Unseen, Doing, Others
  <2>5. Settled' BY <2>2 DEF Settled
  <2> QED BY <2>2, <2>3, <2>4, <2>5 DEF CallInv
<1>5. CASE OpenTcp
  <2>1. "tcp" \in Range(Connecting) \ {"new", "activate"} BY DEF Range, Connecting
  <2>2. object BY <1>5 DEF OpenTcp, Doing, CallInv, Objects
  <2>3. CASE tcp' = "OPENING" /\ todo' = Tail(todo)
    <3>1. /\ Arrangement' /\ ~Reading' /\ Closing' /\ todo' # <<>> /\ ~OfRead(todo') /\ ~Renews(todo')
      BY <1>5, <2>1, <2>3, NextStep DEF OpenTcp
    <3>2. Objects' BY <1>5, <2>2, <3>1 DEF OpenTcp, Objects
    <3>3. Unseen' BY <1>5, <3>1 DEF OpenTcp, CallInv, Unseen, Doing, Others
    <3>4. Settled' BY <3>1 DEF Settled
    <3> QED BY <3>1, <3>2, <3>3, <3>4 DEF CallInv
  <2>4. CASE tcp' = "CLOSED" /\ todo' = OnFailure("tcp")
    <3>1. /\ Arrangement' /\ ~OfRead(todo') /\ ~Renews(todo') /\ todo'[2] = "disconnect"
          /\ todo' # <<>> /\ Head(todo') = "disconnect"
      BY <1>5, <2>1, <2>4, ArrangedFailure, FailureFacts
      DEF OpenTcp, CallInv, Arrangement, FinishWithin
    <3>2. Objects' BY <1>5, <2>2, <3>1 DEF OpenTcp, Objects
    <3>3. Unseen' BY <1>5, <3>1 DEF OpenTcp, CallInv, Unseen, Doing, Others, Reading
    <3>4. Settled' /\ Closing' BY <3>1 DEF Settled, Closing, Reading
    <3> QED BY <3>1, <3>2, <3>3, <3>4 DEF CallInv
  <2> QED BY <1>5, <2>3, <2>4 DEF OpenTcp
\* A step that ends with disconnections.
<1>6. ASSUME NEW op \in Services \cup {"tcp", "hello"}, Doing(op), todo' = OnNoAnswer(op),
             UNCHANGED <<object, lost, ok, seen>>, tcp' \in {tcp, "CLOSED"},
             state' \in {state, "DISCONNECTED"}
      PROVE  CallInv'
  <2>1. op = "close" => Tail(todo) # <<>> BY <1>6, TailFacts
  <2>2. /\ Arrangement' /\ todo' # <<>> /\ Head(todo') = "disconnect"
        /\ OfRead(todo') => OfRead(todo)
        /\ Renews(todo') => Renews(todo)
        /\ Len(todo') >= 2 /\ todo'[2] = "finish" => op = "close"
    <3>1. Arranged(todo') /\ FinishWithin(todo', 2)
      BY <1>6, <2>1, ArrangedFailure DEF CallInv, Arrangement
    <3>2. todo' \in Seq(Ops) BY <1>6, FailureFacts DEF Ordered
    <3> QED
      BY <1>6, <2>1, <3>1, <3>2, ArrangedFailure, FailureFacts DEF CallInv, Arrangement
  <2>3. op # "new" BY <1>6 DEF Services
  <2>4. Objects' BY <1>6, <2>2, <2>3 DEF CallInv, Objects, Doing
  <2>5. Unseen' BY <1>6, <2>2 DEF CallInv, Unseen, Doing, Reading, Others
  <2>6. Settled' /\ Closing' BY <1>6, <2>2 DEF CallInv, Settled, Closing, Doing, Reading
  <2> QED BY <2>2, <2>4, <2>5, <2>6 DEF CallInv
<1>7. CASE Hello
  <2>1. "hello" \in Range(Connecting) \ {"activate"} BY DEF Range, Connecting
  <2>2. object BY <1>7 DEF Hello, Doing, CallInv, Objects
  <2>3. CASE tcp' = "ESTABLISHED" /\ todo' = Tail(todo)
    <3>1. /\ Arrangement' /\ ~Reading' /\ Closing' /\ todo' # <<>> /\ ~OfRead(todo')
      BY <1>7, <2>1, <2>3, NextStep DEF Hello
    <3>2. Objects' BY <1>7, <2>2, <2>3, <3>1 DEF Hello, Objects
    <3>3. Unseen' BY <1>7, <3>1 DEF Hello, CallInv, Unseen, Doing, Others
    <3>4. Settled' BY <3>1 DEF Settled
    <3> QED BY <3>1, <3>2, <3>3, <3>4 DEF CallInv
  <2>4. CASE todo' = OnNoAnswer("hello") BY <1>6, <1>7, <2>3, <2>4 DEF Hello
  <2> QED BY <1>7, <2>3, <2>4 DEF Hello
<1>8. ASSUME NEW op \in Services, Send(op) \/ LateAnswer(op) PROVE CallInv'
  <2>1. UNCHANGED <<object, todo, state, tcp, lost, ok, seen>> BY <1>8 DEF Send, LateAnswer
  <2>2. Arrangement' /\ Objects' BY <2>1 DEF CallInv, Arrangement, Objects
  <2>3. Unseen' BY <2>1 DEF CallInv, Unseen, Reading, Others, SessionNow, Sockets
  <2>4. Settled' /\ Closing' BY <2>1 DEF CallInv, Settled, Closing, Reading
  <2> QED BY <2>2, <2>3, <2>4 DEF CallInv
<1>9. ASSUME NEW op \in Services, SendFails(op) \/ NoAnswer(op) \/ PeerCloses(op) PROVE CallInv'
  BY <1>6, <1>9 DEF SendFails, NoAnswer, PeerCloses, Serving
<1>10. ASSUME NEW op \in Services, Answer(op) PROVE CallInv'
  <2>1. Doing(op) /\ op # "new" /\ op # "free" /\ object
    BY <1>10 DEF Answer, Serving, Services, Doing, CallInv, Objects
  <2>2. tcp = "ESTABLISHED" /\ UNCHANGED <<object, tcp, lost, seen>>
    BY <1>10 DEF Answer, IInv, Requests
  <2>3. CASE todo' = Tail(todo) /\ (todo' # <<>> => ok' = ok)
             /\ (todo' = <<>> /\ op # "activate" => state' = state)
             /\ (op = "activate" => state' = "SESSION")
    <3>1. /\ Arrangement' /\ ~Reading' /\ Closing'
          /\ Renews(todo') => Renews(todo)
          /\ OfRead(todo') => OfRead(todo)
      BY <2>1, <2>3, NextStep
    <3>2. Objects' BY <2>1, <2>2, <2>3 DEF Objects
    <3>3. Unseen' BY <2>1, <2>2, <2>3, <3>1 DEF CallInv, Unseen, Doing, Others
    <3>4. Settled'
      <4>1. SUFFICES ASSUME todo' = <<>> PROVE state' = "SESSION" BY <2>2, <3>1 DEF Settled
      <4>2. op \in {"activate", "read"}
        <5>1. op \notin Range(Connecting) \ {"activate"} BY <2>1, <2>3, <4>1, NextStep
        <5>2. op # "close" BY <2>1, <2>3, <4>1, TailFacts
        <5> QED BY <5>1, <5>2 DEF Services, Range, Connecting
      <4>3. CASE op = "read" BY <2>1, <2>2, <2>3, <4>1, <4>3 DEF CallInv, Settled, Reading, Doing
      <4> QED BY <2>3, <4>2, <4>3
    <3> QED BY <3>1, <3>2, <3>3, <3>4 DEF CallInv
  <2>4. CASE todo' = Tail(todo) /\ state' = After(op) /\ ok' = (ok \/ op \in {"activate", "read"})
    <3>1. todo' # <<>> => op \notin {"activate", "read"} BY <2>1, <2>4, NextStep
    <3>2. todo' # <<>> => ok' = ok BY <2>4, <3>1 DEF IInv, Types, Kinds
    <3>3. todo' = <<>> => op # "open"
      <4>1. "open" \in Range(Connecting) \ {"activate"} BY DEF Range, Connecting
      <4> QED BY <2>1, <2>4, <4>1, NextStep
    <3>4. todo' = <<>> /\ op # "activate" => state' = state BY <2>4, <3>3 DEF After
    <3>5. op = "activate" => state' = "SESSION" BY <2>4 DEF After
    <3> QED BY <2>3, <2>4, <3>2, <3>4, <3>5
  <2>5. CASE op # "open" /\ todo' = OnFailure(op) /\ UNCHANGED <<state, ok>>
    <3>1. CASE op \in Range(Connecting)
      <4>0. op \in Range(Connecting) \ {"new"} BY <2>1, <3>1
      <4>1. /\ Arrangement' /\ ~OfRead(todo') /\ ~Renews(todo') /\ todo'[2] = "disconnect"
            /\ todo' # <<>> /\ Head(todo') = "disconnect"
        BY <2>1, <2>5, <4>0, ArrangedFailure, FailureFacts, TailFacts
        DEF CallInv, Arrangement, FinishWithin
      <4>2. Objects' BY <2>1, <2>2, <4>1 DEF Objects
      <4>3. Unseen' BY <2>1, <2>2, <2>5, <4>1 DEF CallInv, Unseen, Doing, Others, Reading
      <4>4. Settled' /\ Closing' BY <4>1 DEF Settled, Closing, Reading
      <4> QED BY <4>1, <4>2, <4>3, <4>4 DEF CallInv
    <3>2. CASE op \notin Range(Connecting)
      <4>1. todo' = Tail(todo) /\ op # "activate"
        BY <2>5, <3>2 DEF OnFailure, Range, Connecting
      <4> QED BY <2>3, <2>5, <4>1
    <3> QED BY <3>1, <3>2
  <2> QED BY <1>10, <2>4, <2>5 DEF Answer
<1>11. CASE Disconnect
  <2>1. /\ Doing("disconnect") /\ object /\ awaiting = 0
        /\ UNCHANGED <<object, tcp, lost, ok, seen>>
    BY <1>11, TailFacts DEF Disconnect, Services, Doing, CallInv, Objects
  <2> DEFINE t == Tail(todo)
             f == <<"finish">> \o t
             c == <<"close">> \o f
  <2>2. /\ t \in Seq(Ops) /\ Arranged(t) /\ FinishWithin(t, 1)
        /\ OfRead(t) => OfRead(todo)
        /\ Renews(t) => Renews(todo)
        /\ t # <<>> => /\ Head(t) \notin {"new", "close", "read"}
                       /\ Head(t) = todo[2] /\ Len(todo) >= 2
        /\ t = <<>> => OfRead(todo)
        /\ todo[1] = "disconnect"
    BY <2>1, ArrangedTail, HeadTailProperties DEF Doing, CallInv, Arrangement, OfRead
  <2> HIDE DEF t
  <2>3. /\ f \in Seq(Ops) /\ Arranged(f) /\ FinishWithin(f, 1 + 1)
        /\ OfRead(f) => OfRead(todo)
        /\ Renews(f) => Renews(todo)
        /\ f[1] = "finish"
        /\ FinishWithin(t, 0) => FinishWithin(f, 0 + 1)
    BY <2>2, ArrangedCons
  <2> HIDE DEF f
  <2>4. f # <<>> /\ Head(f) = "finish"
    <3>1. f # <<>> BY <2>2 DEF f
    <3> QED BY <2>3, <3>1
  <2>5. /\ c \in Seq(Ops) /\ Arranged(c)
        /\ OfRead(c) => OfRead(todo)
        /\ Renews(c) => Renews(todo)
        /\ c[1] = "close"
        /\ FinishWithin(f, 1) => FinishWithin(c, 1 + 1)
    BY <2>3, <2>4, ArrangedCons
  <2> HIDE DEF c
  <2>6. c # <<>> /\ Head(c) = "close"
    <3>1. c # <<>> BY <2>3 DEF c
    <3> QED BY <2>5, <3>1
  <2>7. CASE state = "SESSION"
    <3>1. todo' = c /\ state' = "SECURECHANNEL"
      <4>1. todo' = (<<"close">> \o <<"finish">>) \o t BY <1>11, <2>7 DEF Disconnect, t
      <4>2. (<<"close">> \o <<"finish">>) \o t = c BY <2>2, OpsFacts DEF c, f
      <4> QED BY <1>11, <2>7, <4>1, <4>2 DEF Disconnect
    <3>2. FinishWithin(t, 0)
      <4>1. t # <<>> => Head(t) # "finish"
        BY <2>2, <2>7 DEF CallInv, Closing
      <4>2. \A i \in 1 .. Len(t) : t[i] = "finish" => i = 1 BY <2>2 DEF FinishWithin
      <4>3. \A i \in 1 .. Len(t) : t[i] # "finish" BY <2>2, <4>1, <4>2
      <4> QED BY <4>3 DEF FinishWithin
    <3>3. Arrangement' BY <2>3, <2>5, <3>1, <3>2 DEF Arrangement
    <3>4. Objects' BY <2>1, <2>5, <3>1 DEF CallInv, Objects
    <3>5. Unseen'
      BY <2>1, <2>5, <2>6, <3>1 DEF CallInv, Unseen, Doing, Others, Reading
    <3>6. Settled' /\ Closing' BY <2>5, <2>6, <3>1 DEF Settled, Closing, Reading
    <3> QED BY <3>3, <3>4, <3>5, <3>6 DEF CallInv
  <2>8. CASE state # "SESSION"
    <3>1. todo' = f /\ state' = state
      <4>1. todo' = (<<>> \o <<"finish">>) \o t BY <1>11, <2>8 DEF Disconnect, t
      <4>2. (<<>> \o <<"finish">>) \o t = f BY <2>2, OpsFacts DEF f
      <4> QED BY <1>11, <2>8, <4>1, <4>2 DEF Disconnect
    <3>2. Arrangement' BY <2>3, <3>1 DEF Arrangement
    <3>3. Objects' BY <2>1, <2>3, <3>1 DEF CallInv, Objects
    <3>4. Unseen'
      BY <2>1, <2>3, <2>4, <3>1 DEF CallInv, Unseen, Doing, Others, Reading
    <3>5. Settled' /\ Closing' BY <2>3, <2>4, <3>1 DEF Settled, Closing, Reading
    <3> QED BY <3>2, <3>3, <3>4, <3>5 DEF CallInv
  <2> QED BY <2>7, <2>8
<1>12. CASE Finish
  <2>1. /\ Doing("finish") /\ object /\ todo' = Tail(todo)
        /\ UNCHANGED <<object, lost, ok, seen>>
    BY <1>12 DEF Finish, Doing, CallInv, Objects
  <2>2. /\ Arrangement' /\ ~Reading' /\ Closing'
        /\ Renews(todo') => Renews(todo)
        /\ OfRead(todo') => OfRead(todo)
    BY <2>1, NextStep
  <2>3. tcp' \in {tcp, "CLOSED"} /\ tcp' # "ESTABLISHED" /\ state' = "DISCONNECTED"
    BY <1>12 DEF Finish
  <2>4. Objects' BY <2>1, <2>2, <2>3, NextStep DEF CallInv, Objects
  <2>5. Unseen' BY <2>1, <2>2 DEF CallInv, Unseen, Doing, Others
  <2>6. Settled'
    <3>1. SUFFICES ASSUME todo' = <<>> PROVE tcp' = "CLOSED" BY <2>2, <2>3 DEF Settled
    <3>2. OfRead(todo)
      BY <2>1, <3>1, ArrangedTail DEF CallInv, Arrangement, Doing, OfRead
    <3> QED BY <2>3, <3>2 DEF CallInv, Objects, IInv, Types, Kinds
  <2> QED BY <2>2, <2>4, <2>5, <2>6 DEF CallInv
<1>13. CASE Free
  <2>1. /\ Doing("free") /\ todo' = Tail(todo) /\ ~object' /\ tcp' = "CLOSED"
        /\ UNCHANGED <<ok, seen>> /\ lost' = Sockets
    BY <1>13 DEF Free
  <2>2. /\ Arrangement' /\ ~Reading' /\ Closing'
        /\ OfRead(todo') => OfRead(todo)
        /\ todo' # <<>> => Head(todo') = "new"
    BY <2>1, NextStep
  <2>3. Objects' BY <2>1, <2>2 DEF Objects
  <2>4. Unseen'
    <3>1. SUFFICES ASSUME todo' # <<>> PROVE lost' = lost
      BY <2>1, <2>2 DEF CallInv, Unseen, Doing, Others
    <3>2. Renews(todo')
      <4>1. todo' \in Seq(Ops) /\ Len(todo') # 0 /\ todo'[1] = "new"
        BY <2>2, <3>1 DEF Arrangement
      <4> QED BY <4>1 DEF Renews
    <3>3. tcp # "OPENING" BY <2>1, <3>2, NextStep DEF CallInv, Objects
    <3>4. tcp = "CLOSED" BY <2>1, <3>3 DEF Doing, IInv, Connection, Types, Kinds
    <3> QED BY <2>1, <3>4 DEF Sockets, IInv, Types, Numbers
  <2>5. Settled' BY <2>1 DEF Settled
  <2> QED BY <2>2, <2>3, <2>4, <2>5 DEF CallInv
<1>14. CASE UNCHANGED vars
  <2>1. Arrangement' /\ Objects' /\ Closing' BY <1>14 DEF vars, CallInv, Arrangement, Objects, Closing
  <2>2. Unseen' /\ Settled'
    BY <1>14 DEF vars, CallInv, Unseen, Settled, Reading, Others, SessionNow, Sockets
  <2> QED BY <2>1, <2>2 DEF CallInv
<1> QED
  BY <1>2, <1>3, <1>4, <1>5, <1>7, <1>8, <1>9, <1>10, <1>11, <1>12, <1>13, <1>14
  DEF Next, Client, Peer

THEOREM CallInvariance == Init /\ [][Next]_vars => []CallInv
<1>1. Init => IInv /\ CallInv BY InvInit, CallInit
<1>2. IInv /\ CallInv /\ [Next]_vars => (IInv /\ CallInv)' BY InvStep, CallStep
<1> QED BY <1>1, <1>2, PTL

\* A failing close request does not make disconnections pile up: at most one
\* is entered within another.
THEOREM NestedCorrect == Spec => []NestedDisconnect
<1>1. CallInv => NestedDisconnect
  <2> SUFFICES ASSUME CallInv PROVE NestedDisconnect OBVIOUS
  <2>1. todo \in Seq(Ops) /\ DOMAIN todo = 1 .. Len(todo)
    BY LenProperties DEF CallInv, Arrangement
  <2>2. {i \in DOMAIN todo : todo[i] = "finish"} \subseteq 1 .. 2
    BY <2>1, LenProperties DEF CallInv, Arrangement, FinishWithin
  <2>3. IsFiniteSet(1 .. 2) /\ Cardinality(1 .. 2) = 2
    <3>1. 1 \in Int /\ 2 \in Int /\ 1 <= 2 /\ (2 - 1) + 1 = 2 OBVIOUS
    <3>2. IsFiniteSet(1 .. 2) /\ Cardinality(1 .. 2) = IF 1 > 2 THEN 0 ELSE (2 - 1) + 1
      BY <3>1, FS_Interval
    <3> QED BY <3>2
  <2>4. Cardinality({i \in DOMAIN todo : todo[i] = "finish"}) <= Cardinality(1 .. 2)
    BY <2>2, <2>3, FS_Subset
  <2> QED BY <2>3, <2>4 DEF NestedDisconnect
<1> QED BY <1>1, CallInvariance, PTL DEF Spec

-----------------------------------------------------------------------------

\* What the manager sees is the session where there is none under way.
LEMMA SessionSeen ==
  /\ Session!vars = IF todo = <<>> THEN <<SessionNow.handle, Sockets, ok>>
                                   ELSE <<seen.handle, seen.sockets, seen.ok>>
  /\ SessionNow.handle = IF ~object THEN "null"
                         ELSE IF state = "SESSION" THEN "session" ELSE "disconnected"
  /\ SessionNow.sockets = Sockets /\ SessionNow.ok = ok
BY DEF Session!vars, SessionNow

\* A call that has begun, or is still under way, changes nothing.
LEMMA StillUnderWay ==
  ASSUME todo' # <<>>, todo = <<>> => seen' = SessionNow, todo # <<>> => seen' = seen
  PROVE  UNCHANGED Session!vars
BY SessionSeen DEF Session!vars

\* The last step of a call does what the call promises.
LEMMA CallReturns ==
  ASSUME IInv, CallInv, IInv', CallInv', [Next]_vars, todo # <<>>, todo' = <<>>
  PROVE  Session!Next
<1> USE DEF link
<1> DEFINE sv == Sockets'
           hv == IF ~object' THEN "null" ELSE IF state' = "SESSION" THEN "session" ELSE "disconnected"
<1>1. /\ lost = Others /\ ~ok /\ seen.sockets \in Nat /\ seen' = seen
  <2>1. seen' = seen
    BY DEF Next, Client, Peer, Connect, Read, Enter, New, OpenTcp, Hello, Send, SendFails, NoAnswer,
           Answer, LateAnswer, PeerCloses, Disconnect, Finish, Free, vars
  <2> QED BY <2>1 DEF CallInv, Unseen
<1>2. Session!Connect <=>
        \/ Session!Others < FD_MAX /\ hv = "session" /\ sv = Session!Others + 1 /\ ok'
        \/ hv = "null" /\ sv \in {Session!Others} \cup {n \in {Session!Others + 1} : n <= FD_MAX} /\ ~ok'
  BY DEF Session!Connect, SessionNow
<1>3. Session!Read <=>
        \/ seen.handle = "session" /\ ok' /\ hv = seen.handle /\ sv = seen.sockets
        \/ seen.handle # "null" /\ ~ok' /\ hv = seen.handle /\ sv = seen.sockets
        \/ seen.handle = "session" /\ hv = "disconnected" /\ sv = seen.sockets - 1 /\ ~ok'
  BY DEF Session!Read, SessionNow
<1>4. Session!Others = lost BY <1>1 DEF Session!Others, Others
<1>5. lost \in Nat /\ sv <= FD_MAX BY DEF IInv, Types, Numbers
<1>6. ASSUME NEW op, Doing(op), todo' = Tail(todo)
      PROVE  /\ op \notin Range(Connecting) \ {"activate"} /\ op # "close"
             /\ op \in {"read", "disconnect", "finish"} => OfRead(todo)
  <2>1. op \notin Range(Connecting) \ {"activate"} BY <1>6, NextStep
  <2>2. op # "close" BY <1>6, TailFacts
  <2>3. op = todo[Len(todo)]
    BY <1>6, ArrangedTail DEF CallInv, Arrangement, Doing
  <2> QED BY <2>1, <2>2, <2>3 DEF OfRead
<1>7. CASE Free
  <2>1. hv = "null" /\ sv \in {lost, lost + 1} /\ ~ok'
    BY <1>1, <1>5, <1>7 DEF Free, Sockets
  <2> QED BY <1>2, <1>4, <1>5, <2>1 DEF Session!Next
<1>8. CASE Finish
  <2>1. OfRead(todo) BY <1>6, <1>8 DEF Finish
  <2>2. /\ object /\ seen.handle # "null"
        /\ seen.handle = "session" => lost = seen.sockets - 1
        /\ seen.handle # "session" => lost = seen.sockets
    BY <1>1, <1>8, <2>1 DEF Finish, Doing, CallInv, Objects, Unseen, Others
  <2>3. hv = "disconnected" /\ ~ok' BY <1>1, <1>8, <2>2 DEF Finish
  <2>4. sv = lost
    <3>1. object' /\ state' = "DISCONNECTED" BY <1>8, <2>2 DEF Finish
    <3>2. tcp' = "CLOSED" BY <3>1 DEF CallInv, Settled
    <3> QED BY <1>5, <1>8, <3>2 DEF Finish, Sockets
  <2>5. seen.handle \in {"session", "disconnected"} BY <2>2 DEF CallInv, Unseen
  <2> QED BY <1>3, <2>2, <2>3, <2>4, <2>5 DEF Session!Next
<1>9. ASSUME NEW op \in Services, Answer(op) PROVE Session!Next
  <2>1. Doing(op) /\ tcp = "ESTABLISHED" /\ UNCHANGED <<object, tcp, lost, seen>> /\ object
    BY <1>9 DEF Answer, Serving, IInv, Requests, Doing, CallInv, Objects, Services
  <2>2. CASE op = "activate" /\ todo' = Tail(todo) /\ state' = After(op) /\ ok'
    <3>1. hv = "session" /\ sv = lost + 1 BY <1>5, <2>1, <2>2 DEF After, Sockets
    <3>2. lost < FD_MAX BY <1>5, <3>1, UaClientAssumption
    <3> QED BY <1>2, <1>4, <2>2, <3>1, <3>2 DEF Session!Next
  <2>3. CASE op = "read" /\ state' = state
    <3>1. seen.handle = SessionNow.handle /\ seen.sockets = Sockets /\ state = "SESSION"
      BY <2>1, <2>3 DEF CallInv, Unseen, Settled, Reading, Doing
    <3>2. hv = "session" /\ seen.handle = "session" /\ sv = seen.sockets
      BY <2>1, <2>3, <3>1 DEF SessionNow, Sockets
    <3>3. ok' \in BOOLEAN BY DEF IInv, Types, Kinds
    <3> QED BY <1>3, <3>2, <3>3 DEF Session!Next
  <2>4. CASE todo' = Tail(todo) /\ state' = After(op) /\ ok' = (ok \/ op \in {"activate", "read"})
    <3>1. op \in {"activate", "read"} BY <1>6, <2>1, <2>4 DEF Services, Range, Connecting
    <3> QED BY <2>2, <2>3, <2>4, <3>1 DEF After
  <2>5. CASE op # "open" /\ todo' = OnFailure(op) /\ UNCHANGED <<state, ok>>
    <3>1. op \notin Range(Connecting)
      <4>1. SUFFICES ASSUME op \in Range(Connecting) PROVE FALSE OBVIOUS
      <4>2. op \in Range(Connecting) \ {"new"} BY <4>1 DEF Services
      <4> QED BY <2>1, <2>5, <4>2, FailureFacts
    <3>2. todo' = Tail(todo) BY <2>5, <3>1 DEF OnFailure
    <3>3. op = "read" BY <1>6, <2>1, <3>1, <3>2 DEF Services, Range, Connecting
    <3> QED BY <2>3, <2>5, <3>3
  <2> QED BY <1>9, <2>4, <2>5 DEF Answer
<1>10. CASE New \/ OpenTcp \/ Hello
  <2>1. \A op : Doing(op) /\ op \in Range(Connecting) \ {"activate"} => todo' # Tail(todo)
    BY <1>6
  <2>2. {"new", "tcp", "hello"} \subseteq Range(Connecting) \ {"activate"}
    BY DEF Range, Connecting
  <2>3. CASE New BY <2>1, <2>2, <2>3 DEF New
  <2>4. CASE OpenTcp BY <2>1, <2>2, <2>4, FailureFacts DEF OpenTcp
  <2>5. CASE Hello BY <2>1, <2>2, <2>5, FailureFacts DEF Hello
  <2> QED BY <1>10, <2>3, <2>4, <2>5
<1>11. ASSUME NEW op \in Services, SendFails(op) \/ NoAnswer(op) \/ PeerCloses(op) PROVE FALSE
  <2>1. Doing(op) /\ todo' = OnNoAnswer(op)
    BY <1>11 DEF SendFails, NoAnswer, PeerCloses, Serving
  <2> QED BY <2>1, FailureFacts
<1>12. CASE Disconnect
  <2>1. Tail(todo) \in Seq(Ops) BY HeadTailProperties DEF CallInv, Arrangement
  <2>2. todo' # <<>> BY <1>12, <2>1, OpsFacts DEF Disconnect
  <2> QED BY <2>2
<1>13. ASSUME NEW op \in Services, Send(op) \/ LateAnswer(op) PROVE FALSE
  BY <1>13 DEF Send, LateAnswer
<1>14. CASE Connect \/ Read BY <1>14 DEF Connect, Read, Enter
<1>15. CASE UNCHANGED vars BY <1>15 DEF vars
<1> QED
  BY <1>7, <1>8, <1>9, <1>10, <1>11, <1>12, <1>13, <1>14, <1>15 DEF Next, Client, Peer

\* Whatever fails, and wherever, each call of opc_connect.c ends as OpcSession
\* says: with a session or without an object after a connection, with the
\* session as it was or disconnected after a read.
THEOREM SessionImplemented == Spec => ImplementsSession
<1>1. Init => Session!Init
  BY DEF Init, Session!Init, SessionNow, Sockets
<1>2. IInv /\ CallInv /\ IInv' /\ CallInv' /\ [Next]_vars => [Session!Next]_(Session!vars)
  <2> SUFFICES ASSUME IInv, CallInv, IInv', CallInv', [Next]_vars
               PROVE  Session!Next \/ UNCHANGED Session!vars
    OBVIOUS
  <2>1. todo # <<>> => seen' = seen
    BY DEF Next, Client, Peer, Connect, Read, Enter, New, OpenTcp, Hello, Send, SendFails, NoAnswer,
           Answer, LateAnswer, PeerCloses, Disconnect, Finish, Free, vars
  <2>2. CASE todo = <<>>
    <3>1. Connect \/ Read \/ UNCHANGED vars
      BY <2>2
      DEF Next, Client, Peer, New, OpenTcp, Hello, Send, SendFails, NoAnswer, Answer, LateAnswer,
          PeerCloses, Disconnect, Finish, Free, Serving, Doing
    <3>2. CASE UNCHANGED vars
      BY <3>2, <2>2 DEF vars, link, Session!vars, SessionNow, Sockets
    <3>3. CASE Connect \/ Read
      <4>1. todo' # <<>>
        <5>1. <<>> \o Connecting = Connecting BY DEF Connecting
        <5> QED BY <3>3, <5>1, ArrangedStart DEF Connect, Read, Enter
      <4>2. seen' = SessionNow BY <3>3 DEF Connect, Read, Enter
      <4> QED BY <2>2, <4>1, <4>2, StillUnderWay
    <3> QED BY <3>1, <3>2, <3>3
  <2>3. CASE todo # <<>> /\ todo' # <<>> BY <2>1, <2>3, StillUnderWay
  <2>4. CASE todo # <<>> /\ todo' = <<>> BY <2>4, CallReturns
  <2> QED BY <2>2, <2>3, <2>4
<1> QED BY <1>1, <1>2, Invariance, CallInvariance, PTL DEF Spec, ImplementsSession, Session!Spec

-----------------------------------------------------------------------------
(* How many steps a call can take.  Every step left is given a price that   *)
(* pays for the steps it may be replaced by when it fails.                  *)

Price(op) ==
  IF op \in Range(Connecting) \cup {"read"} THEN 12
  ELSE IF op = "close" THEN 3
  ELSE IF op = "disconnect" THEN 2
  ELSE 1

\* The price of a sequence of steps: of every step its pennies are counted.
Pennies(s) == {u \in (1 .. Len(s)) \X (1 .. 12) : u[2] <= Price(s[u[1]])}
Total(s)   == Cardinality(Pennies(s))

\* The steps a call can take yet.  A session that is closed costs a close
\* request; a request is sent before its answer is waited for, and every
\* answer outstanding may arrive late.
StepsLeft ==
  3 * Total(todo) + (IF state = "SESSION" THEN 9 ELSE 0) + (IF awaiting = 0 THEN 2 ELSE 0)
    + Cardinality(asked)

LEMMA PriceFacts ==
  /\ \A op : Price(op) \in 1 .. 12
  /\ \A op \in Range(Connecting) : Price(op) = 12
  /\ Price("read") = 12 /\ Price("close") = 3 /\ Price("disconnect") = 2
  /\ Price("free") = 1 /\ Price("finish") = 1
<1>1. Range(Connecting) = {"new", "tcp", "hello", "open", "endpoints", "create", "activate"}
  BY DEF Range, Connecting
<1>2. \A op : Price(op) \in 1 .. 12 BY DEF Price
<1>3. \A op \in Range(Connecting) : Price(op) = 12 BY DEF Price
<1>4. /\ Price("read") = 12 /\ Price("close") = 3 /\ Price("disconnect") = 2
      /\ Price("free") = 1 /\ Price("finish") = 1
  BY <1>1 DEF Price
<1> QED BY <1>2, <1>3, <1>4

\* Sets that a one-to-one correspondence relates have as many members.
LEMMA SameSize ==
  ASSUME NEW S, NEW T, IsFiniteSet(S), NEW f \in [S -> T],
         \A a, b \in S : f[a] = f[b] => a = b,
         \A t \in T : \E a \in S : f[a] = t
  PROVE  IsFiniteSet(T) /\ Cardinality(T) = Cardinality(S)
<1>1. f \in Injection(S, T) BY DEF Injection, IsInjective
<1>2. f \in Surjection(S, T) BY DEF Surjection
<1>3. ExistsBijection(S, T) BY <1>1, <1>2 DEF ExistsBijection, Bijection
<1> QED BY <1>3, FS_Bijection

LEMMA PenniesFinite ==
  ASSUME NEW s \in Seq(Ops)
  PROVE  IsFiniteSet(Pennies(s)) /\ Total(s) \in Nat
<1>1. Len(s) \in Int /\ 1 \in Int /\ 12 \in Int OBVIOUS
<1>2. IsFiniteSet(1 .. Len(s)) BY <1>1, FS_Interval
<1>3. IsFiniteSet(1 .. 12) BY <1>1, FS_Interval
<1>4. IsFiniteSet((1 .. Len(s)) \X (1 .. 12)) BY <1>2, <1>3, FS_Product
<1>5. Pennies(s) \in SUBSET ((1 .. Len(s)) \X (1 .. 12)) BY DEF Pennies
<1>6. IsFiniteSet(Pennies(s)) BY <1>4, <1>5, FS_Subset
<1> QED BY <1>6, FS_CardinalityType DEF Total

\* A step put before others adds its price.
LEMMA TotalCons ==
  ASSUME NEW op \in Ops, NEW s \in Seq(Ops)
  PROVE  Total(<<op>> \o s) = Price(op) + Total(s)
<1> DEFINE t == <<op>> \o s
           A == {u \in Pennies(t) : u[1] = 1}
           B == {u \in Pennies(t) : u[1] > 1}
<1>1. /\ Len(s) \in Nat /\ t \in Seq(Ops) /\ Len(t) = Len(s) + 1 /\ t[1] = op
      /\ \A i \in 1 .. Len(s) : t[i + 1] = s[i]
  OBVIOUS
<1> HIDE DEF t
<1>2. IsFiniteSet(Pennies(s)) /\ IsFiniteSet(Pennies(t)) BY <1>1, PenniesFinite
<1>3. IsFiniteSet(A) /\ IsFiniteSet(B) /\ A \cup B = Pennies(t) /\ A \cap B = {}
  <2>1. A \in SUBSET Pennies(t) /\ B \in SUBSET Pennies(t) OBVIOUS
  <2>2. IsFiniteSet(A) /\ IsFiniteSet(B) BY <1>2, <2>1, FS_Subset
  <2>3. \A u \in Pennies(t) : u[1] \in 1 .. Len(t) BY DEF Pennies
  <2> QED BY <1>1, <2>2, <2>3
<1>4. Cardinality(Pennies(t)) = Cardinality(A) + Cardinality(B)
  <2>1. Cardinality(A \cap B) = 0 BY <1>3, FS_EmptySet
  <2>2. Cardinality(A) \in Nat /\ Cardinality(B) \in Nat BY <1>3, FS_CardinalityType
  <2>3. Cardinality(A \cup B) = Cardinality(A) + Cardinality(B) - Cardinality(A \cap B)
    BY <1>3, FS_Union
  <2>4. Cardinality(A \cup B) = Cardinality(Pennies(t)) BY <1>3
  <2> HIDE DEF A, B
  <2> QED BY <2>1, <2>2, <2>3, <2>4
<1>5. Cardinality(A) = Price(op)
  <2> DEFINE f == [k \in 1 .. Price(op) |-> <<1, k>>]
  <2>1. Price(op) \in 1 .. 12 BY PriceFacts
  <2>2. ASSUME NEW k \in 1 .. Price(op) PROVE <<1, k>> \in A
    <3>1. 1 \in 1 .. Len(t) /\ k \in 1 .. 12 BY <1>1, <2>1
    <3> QED BY <1>1, <3>1 DEF Pennies
  <2>3. f \in [1 .. Price(op) -> A] BY <2>2
  <2>4. \A a, b \in 1 .. Price(op) : f[a] = f[b] => a = b OBVIOUS
  <2>5. ASSUME NEW u \in A PROVE \E k \in 1 .. Price(op) : f[k] = u
    <3>1. u \in (1 .. Len(t)) \X (1 .. 12) /\ u[1] = 1 /\ u[2] <= Price(t[u[1]]) BY DEF Pennies
    <3>2. u[2] \in 1 .. Price(op) /\ u = <<1, u[2]>> BY <1>1, <2>1, <3>1
    <3> QED BY <3>2
  <2>6. 1 \in Int /\ Price(op) \in Int BY <2>1
  <2>7. /\ IsFiniteSet(1 .. Price(op))
        /\ Cardinality(1 .. Price(op)) = IF 1 > Price(op) THEN 0 ELSE Price(op) - 1 + 1
    BY <2>6, FS_Interval, Zenon
  <2>8. Cardinality(1 .. Price(op)) = Price(op) BY <2>1, <2>7
  <2> HIDE DEF f
  <2> QED BY <2>3, <2>4, <2>5, <2>7, <2>8, SameSize
<1>6. Cardinality(B) = Cardinality(Pennies(s))
  <2> DEFINE f == [u \in Pennies(s) |-> <<u[1] + 1, u[2]>>]
  <2>1. ASSUME NEW u \in Pennies(s)
        PROVE  /\ u = <<u[1], u[2]>> /\ u[1] \in 1 .. Len(s) /\ u[2] \in 1 .. 12
               /\ <<u[1] + 1, u[2]>> \in B
    <3>1. /\ u = <<u[1], u[2]>> /\ u[1] \in 1 .. Len(s) /\ u[2] \in 1 .. 12
          /\ u[2] <= Price(s[u[1]])
      BY DEF Pennies
    <3>2. u[1] + 1 \in 1 .. Len(t) /\ t[u[1] + 1] = s[u[1]] /\ u[1] + 1 > 1 BY <1>1, <3>1
    <3>3. u[2] <= Price(t[u[1] + 1]) BY <3>1, <3>2
    <3> QED BY <3>1, <3>2, <3>3 DEF Pennies
  <2>2. f \in [Pennies(s) -> B] BY <2>1
  <2>3. ASSUME NEW a \in Pennies(s), NEW b \in Pennies(s), f[a] = f[b] PROVE a = b
    <3>1. a[1] + 1 = b[1] + 1 /\ a[2] = b[2] BY <2>3
    <3>2. a[1] \in 1 .. Len(s) /\ b[1] \in 1 .. Len(s)
      <4>1. a[1] \in 1 .. Len(s) BY <2>1
      <4>2. b[1] \in 1 .. Len(s) BY <2>1
      <4> QED BY <4>1, <4>2
    <3>3. a[1] = b[1] BY <3>1, <3>2
    <3> QED BY <2>1, <3>1, <3>3
  <2>4. ASSUME NEW u \in B PROVE \E a \in Pennies(s) : f[a] = u
    <3> DEFINE a == <<u[1] - 1, u[2]>>
    <3>1. /\ u = <<u[1], u[2]>> /\ u[1] \in 2 .. Len(t) /\ u[2] \in 1 .. 12
          /\ u[2] <= Price(t[u[1]])
      BY <1>1 DEF Pennies
    <3>2. u[1] - 1 \in 1 .. Len(s) /\ (u[1] - 1) + 1 = u[1] BY <1>1, <3>1
    <3>3. t[u[1]] = s[u[1] - 1] BY <1>1, <3>2
    <3>4. a \in Pennies(s) BY <3>1, <3>2, <3>3 DEF Pennies
    <3>5. f[a] = u BY <3>1, <3>2, <3>4
    <3> QED BY <3>4, <3>5
  <2> HIDE DEF f
  <2> QED BY <1>2, <2>2, <2>3, <2>4, SameSize
<1> QED BY <1>4, <1>5, <1>6 DEF Total, t

LEMMA TotalBound ==
  ASSUME NEW s \in Seq(Ops)
  PROVE  Total(s) <= 12 * Len(s)
<1>1. Len(s) \in Nat /\ Len(s) \in Int /\ 1 \in Int /\ 12 \in Int OBVIOUS
<1>2. IsFiniteSet(1 .. Len(s)) /\ Cardinality(1 .. Len(s)) = IF 1 > Len(s) THEN 0 ELSE Len(s) - 1 + 1
  BY <1>1, FS_Interval, Zenon
<1>3. IsFiniteSet(1 .. 12) /\ Cardinality(1 .. 12) = IF 1 > 12 THEN 0 ELSE 12 - 1 + 1
  BY <1>1, FS_Interval, Zenon
<1>4. Cardinality(1 .. Len(s)) = Len(s) /\ Cardinality(1 .. 12) = 12 BY <1>1, <1>2, <1>3
<1>5. /\ IsFiniteSet((1 .. Len(s)) \X (1 .. 12))
      /\ Cardinality((1 .. Len(s)) \X (1 .. 12)) = Cardinality(1 .. Len(s)) * Cardinality(1 .. 12)
  BY <1>2, <1>3, FS_Product
<1>6. Pennies(s) \in SUBSET ((1 .. Len(s)) \X (1 .. 12)) BY DEF Pennies
<1>7. Total(s) <= Cardinality((1 .. Len(s)) \X (1 .. 12)) BY <1>5, <1>6, FS_Subset DEF Total
<1>8. Total(s) <= Len(s) * 12 BY <1>4, <1>5, <1>7
<1> QED BY <1>1, <1>8, PenniesFinite

LEMMA TotalEmpty == Total(<<>>) = 0
<1>1. Pennies(<<>>) = {} BY DEF Pennies
<1> QED BY <1>1, FS_EmptySet DEF Total

LEMMA TotalTail ==
  ASSUME NEW s \in Seq(Ops), s # <<>>
  PROVE  /\ Tail(s) \in Seq(Ops)
         /\ Total(s) = Price(Head(s)) + Total(Tail(s))
<1>1. Head(s) \in Ops /\ Tail(s) \in Seq(Ops) /\ s = <<Head(s)>> \o Tail(s)
  OBVIOUS
<1> QED BY <1>1, TotalCons

LEMMA TotalDisconnect ==
  ASSUME NEW s \in Seq(Ops)
  PROVE  Total(<<"disconnect">> \o s) = 2 + Total(s) /\ <<"disconnect">> \o s \in Seq(Ops)
<1>1. "disconnect" \in Ops BY OpsFacts
<1> QED BY <1>1, TotalCons, PriceFacts

\* The way out of a failed step: n disconnections and the deletion.
WayOut(s, n) ==
  /\ s \in Seq(Ops) /\ Len(s) = n + 1
  /\ \A i \in 1 .. n + 1 : s[i] = IF i <= n THEN "disconnect" ELSE "free"

LEMMA WayOutShort ==
  ASSUME NEW n \in Nat, NEW s, WayOut(s, n)
  PROVE  /\ s \in Seq(Ops) /\ s # <<>> /\ Total(s) \in Nat
         /\ n = 0 => Total(s) = 1
         /\ n > 0 => WayOut(Tail(s), n - 1) /\ Total(s) = 2 + Total(Tail(s))
<1>1. s \in Seq(Ops) /\ s # <<>> /\ Len(s) = n + 1 /\ Head(s) = s[1] BY DEF WayOut
<1>2. Total(s) = Price(Head(s)) + Total(Tail(s)) BY <1>1, TotalTail
<1>3. ASSUME n = 0 PROVE Total(s) = 1
  <2>1. Head(s) = "free" BY <1>1, <1>3 DEF WayOut
  <2>2. Len(Tail(s)) = 0 /\ Tail(s) \in Seq(Ops) BY <1>1, <1>3
  <2>3. Tail(s) = <<>> BY <2>2, EmptySeq
  <2>4. Price(Head(s)) = 1 /\ Total(Tail(s)) = 0 BY <2>1, <2>3, PriceFacts, TotalEmpty
  <2> QED BY <1>2, <2>4
<1>4. ASSUME n > 0 PROVE WayOut(Tail(s), n - 1) /\ Total(s) = 2 + Total(Tail(s))
  <2>1. Head(s) = "disconnect" BY <1>1, <1>4 DEF WayOut
  <2>2. /\ Tail(s) \in Seq(Ops) /\ Len(Tail(s)) = n
        /\ \A i \in 1 .. n : Tail(s)[i] = s[i + 1]
    BY <1>1, <1>4
  <2>3. \A i \in 1 .. n : s[i + 1] = IF i <= n - 1 THEN "disconnect" ELSE "free"
    BY <1>4 DEF WayOut
  <2>4. WayOut(Tail(s), n - 1) BY <1>4, <2>2, <2>3 DEF WayOut
  <2> QED BY <1>2, <2>1, <2>4, PriceFacts
<1> QED BY <1>1, <1>3, <1>4, PenniesFinite

LEMMA WayOutTotal ==
  ASSUME NEW n \in 1 .. 4, NEW s, WayOut(s, n)
  PROVE  s \in Seq(Ops) /\ Total(s) \in 1 .. 9
<1>1. ASSUME NEW t, WayOut(t, 0) PROVE Total(t) = 1 BY <1>1, WayOutShort
<1>2. ASSUME NEW t, WayOut(t, 1) PROVE Total(t) = 3
  <2>1. WayOut(Tail(t), 1 - 1) /\ Total(t) = 2 + Total(Tail(t)) BY <1>2, WayOutShort
  <2> QED BY <1>1, <2>1
<1>3. ASSUME NEW t, WayOut(t, 2) PROVE Total(t) = 5
  <2>1. WayOut(Tail(t), 2 - 1) /\ Total(t) = 2 + Total(Tail(t)) BY <1>3, WayOutShort
  <2> QED BY <1>2, <2>1
<1>4. ASSUME NEW t, WayOut(t, 3) PROVE Total(t) = 7
  <2>1. WayOut(Tail(t), 3 - 1) /\ Total(t) = 2 + Total(Tail(t)) BY <1>4, WayOutShort
  <2> QED BY <1>3, <2>1
<1>5. ASSUME NEW t, WayOut(t, 4) PROVE Total(t) = 9
  <2>1. WayOut(Tail(t), 4 - 1) /\ Total(t) = 2 + Total(Tail(t)) BY <1>5, WayOutShort
  <2> QED BY <1>4, <2>1
<1>6. n = 1 \/ n = 2 \/ n = 3 \/ n = 4 OBVIOUS
<1>7. Total(s) = 3 \/ Total(s) = 5 \/ Total(s) = 7 \/ Total(s) = 9
  BY <1>2, <1>3, <1>4, <1>5, <1>6, Zenon
<1>8. s \in Seq(Ops) BY DEF WayOut
<1> QED BY <1>7, <1>8

\* However a step fails, the way out costs less than the step did, with what
\* would have followed it.
LEMMA FailurePrice ==
  ASSUME NEW op, todo \in Seq(Ops), Doing(op)
  PROVE  /\ Total(todo) \in Nat /\ Total(Tail(todo)) \in Nat
         /\ Total(todo) = Price(op) + Total(Tail(todo))
         /\ op \in Range(Connecting) \ {"new"} => Total(OnFailure(op)) \in 1 .. 9
         /\ op \notin Range(Connecting) => OnFailure(op) = Tail(todo)
         /\ op # "new" => Total(OnNoAnswer(op)) = 2 + Total(OnFailure(op))
<1>1. /\ op = Head(todo) /\ Tail(todo) \in Seq(Ops) /\ Total(todo) = Price(op) + Total(Tail(todo))
  BY TotalTail DEF Doing
<1>2. Total(todo) \in Nat /\ Total(Tail(todo)) \in Nat BY <1>1, PenniesFinite
<1>3. ASSUME op \in Range(Connecting) \ {"new"}
      PROVE  OnFailure(op) \in Seq(Ops) /\ Total(OnFailure(op)) \in 1 .. 9
  <2>1. PICK k \in 1 .. 3 :
          /\ OnFailure(op) \in Seq(Ops) /\ Len(OnFailure(op)) = k + 2
          /\ \A i \in 1 .. k + 2 : OnFailure(op)[i] = IF i <= k + 1 THEN "disconnect" ELSE "free"
    BY <1>3, FailureForm
  <2>2. k + 1 \in 1 .. 4 /\ (k + 1) + 1 = k + 2 OBVIOUS
  <2>3. WayOut(OnFailure(op), k + 1) BY <2>1, <2>2 DEF WayOut
  <2> QED BY <2>1, <2>2, <2>3, WayOutTotal
<1>4. op \notin Range(Connecting) => OnFailure(op) = Tail(todo) BY DEF OnFailure
<1>5. op # "new" => Total(OnNoAnswer(op)) = 2 + Total(OnFailure(op))
  <2>1. op # "new" => OnFailure(op) \in Seq(Ops) BY <1>1, <1>3, <1>4
  <2> QED BY <2>1, TotalDisconnect DEF OnNoAnswer
<1> QED BY <1>1, <1>2, <1>3, <1>4, <1>5

\* The requests outstanding are finitely many, and fewer once one is answered.
LEMMA AskedSize ==
  ASSUME IInv, NEW A, A \subseteq asked
  PROVE  /\ IsFiniteSet(asked) /\ Cardinality(asked) \in Nat
         /\ IsFiniteSet(A) /\ Cardinality(A) \in Nat /\ Cardinality(A) <= Cardinality(asked)
         /\ \A id \in asked : A = asked \ {id} => Cardinality(A) = Cardinality(asked) - 1
<1>1. requestId \in Nat /\ asked \subseteq 1 .. requestId BY DEF IInv, Types, Numbers
<1>2. IsFiniteSet(1 .. requestId)
  <2>1. 1 \in Int /\ requestId \in Int BY <1>1
  <2> QED BY <2>1, FS_Interval
<1>3. IsFiniteSet(asked) BY <1>1, <1>2, FS_Subset
<1>4. IsFiniteSet(A) /\ Cardinality(A) <= Cardinality(asked) BY <1>3, FS_Subset
<1>5. Cardinality(asked) \in Nat /\ Cardinality(A) \in Nat BY <1>3, <1>4, FS_CardinalityType
<1>6. ASSUME NEW id \in asked, A = asked \ {id} PROVE Cardinality(A) = Cardinality(asked) - 1
  BY <1>3, <1>6, FS_RemoveElement
<1> QED BY <1>3, <1>4, <1>5, <1>6

\* Every step of a call uses up some of what it may take.
LEMMA StepsDecrease ==
  ASSUME IInv, IInv', Next, todo # <<>>
  PROVE  StepsLeft' < StepsLeft
<1> USE DEF link
<1> DEFINE w == Total(todo)  w1 == Total(todo')
           c == Cardinality(asked)  c1 == Cardinality(asked')
           p == IF state = "SESSION" THEN 9 ELSE 0  p1 == IF state' = "SESSION" THEN 9 ELSE 0
           q == IF awaiting = 0 THEN 2 ELSE 0  q1 == IF awaiting' = 0 THEN 2 ELSE 0
<1>1. StepsLeft = 3 * w + p + q + c /\ StepsLeft' = 3 * w1 + p1 + q1 + c1
  BY DEF StepsLeft
<1>2. /\ todo \in Seq(Ops) /\ todo' \in Seq(Ops) /\ w \in Nat /\ w1 \in Nat /\ c \in Nat
      /\ asked' \subseteq asked => c1 \in Nat /\ c1 <= c
  BY PenniesFinite, AskedSize DEF IInv, Ordered
<1>3. p \in {0, 9} /\ p1 \in {0, 9} /\ q \in {0, 2} /\ q1 \in {0, 2} OBVIOUS
<1>4. ASSUME NEW op, Doing(op)
      PROVE  /\ w = Price(op) + Total(Tail(todo)) /\ Total(Tail(todo)) \in Nat
             /\ op \in Range(Connecting) \ {"new"} => Total(OnFailure(op)) \in 1 .. 9
             /\ op \notin Range(Connecting) => OnFailure(op) = Tail(todo)
             /\ op # "new" => Total(OnNoAnswer(op)) = 2 + Total(OnFailure(op))
             /\ op \in Range(Connecting) => Price(op) = 12
  BY <1>2, <1>4, FailurePrice, PriceFacts
<1>5. Range(Connecting) = {"new", "tcp", "hello", "open", "endpoints", "create", "activate"}
  BY DEF Range, Connecting
<1> HIDE DEF w, w1, p, p1, q, q1, c, c1
<1>6. ASSUME NEW op \in Services, Doing(op)
      PROVE  /\ Total(OnFailure(op)) \in Nat /\ Total(Tail(todo)) \in Nat
             /\ Total(Tail(todo)) <= w - 3 /\ Total(OnFailure(op)) <= w - 3
             /\ op = "activate" => Total(Tail(todo)) = w - 12
             /\ Total(OnNoAnswer(op)) <= w - 1
  <2>1. CASE op \in Range(Connecting)
    <3>1. op # "new" BY <1>6 DEF Services
    <3>2. /\ w = 12 + Total(Tail(todo)) /\ Total(Tail(todo)) \in Nat
          /\ Total(OnFailure(op)) \in 1 .. 9 /\ Total(OnNoAnswer(op)) = 2 + Total(OnFailure(op))
      BY <1>4, <1>6, <2>1, <3>1
    <3> QED BY <3>2
  <2>2. CASE op \in {"read", "close"}
    <3>1. op \notin Range(Connecting) /\ op # "new" /\ op # "activate" BY <1>5, <2>2
    <3>2. Price(op) \in {3, 12} BY <2>2, PriceFacts
    <3>3. /\ w = Price(op) + Total(Tail(todo)) /\ Total(Tail(todo)) \in Nat
          /\ OnFailure(op) = Tail(todo) /\ Total(OnNoAnswer(op)) = 2 + Total(OnFailure(op))
      BY <1>4, <1>6, <3>1
    <3> QED BY <3>1, <3>2, <3>3
  <2> QED BY <1>5, <2>1, <2>2 DEF Services
<1>7. CASE New \/ OpenTcp \/ Hello
  <2>1. p1 <= p
    BY <1>7 DEF New, OpenTcp, Hello, p, p1
  <2>2. q1 = q /\ UNCHANGED asked BY <1>7 DEF New, OpenTcp, Hello, q, q1
  <2>3. w1 <= w - 1
    <3>1. CASE New
      <4>1. Doing("new") /\ w1 = Total(Tail(todo)) BY <3>1 DEF New, w1
      <4> QED BY <1>2, <1>4, <1>5, <4>1
    <3>2. CASE OpenTcp
      <4>1. Doing("tcp") /\ (w1 = Total(Tail(todo)) \/ w1 = Total(OnFailure("tcp")))
        BY <3>2 DEF OpenTcp, w1
      <4> QED BY <1>2, <1>4, <1>5, <4>1
    <3>3. CASE Hello
      <4>1. Doing("hello") /\ (w1 = Total(Tail(todo)) \/ w1 = Total(OnNoAnswer("hello")))
        BY <3>3 DEF Hello, w1
      <4> QED BY <1>2, <1>4, <1>5, <4>1
    <3> QED BY <1>7, <3>1, <3>2, <3>3
  <2> QED BY <1>1, <1>2, <1>3, <2>1, <2>2, <2>3
<1>8. ASSUME NEW op \in Services, Send(op) PROVE StepsLeft' < StepsLeft
  <2>1. w1 = w /\ p1 = p BY <1>8 DEF Send, w, w1, p, p1
  <2>2. q = 2 /\ q1 = 0
    <3>1. awaiting = 0 /\ awaiting' = requestId + 1 /\ requestId \in Nat
      BY <1>8 DEF Send, IInv, Types, Numbers
    <3> QED BY <3>1 DEF q, q1
  <2>3. c1 \in Nat /\ c1 <= c + 1
    <3>1. asked' = asked \cup {requestId + 1} /\ IsFiniteSet(asked)
      BY <1>8, AskedSize DEF Send
    <3>2. /\ IsFiniteSet(asked')
          /\ Cardinality(asked') = IF requestId + 1 \in asked THEN Cardinality(asked)
                                   ELSE Cardinality(asked) + 1
      BY <3>1, FS_AddElement, Zenon
    <3> QED BY <1>2, <3>2 DEF c, c1
  <2> QED BY <1>1, <1>2, <1>3, <2>1, <2>2, <2>3
<1>9. ASSUME NEW op \in Services, SendFails(op) PROVE StepsLeft' < StepsLeft
  <2>1. Doing(op) /\ w1 = Total(OnNoAnswer(op)) BY <1>9 DEF SendFails, Serving, w1
  <2>2. p1 = p /\ q1 = q /\ asked' \subseteq asked
    BY <1>9 DEF SendFails, p, p1, q, q1
  <2>3. w1 <= w - 1 BY <1>6, <2>1
  <2> QED BY <1>1, <1>2, <1>3, <2>2, <2>3
<1>10. ASSUME NEW op \in Services, NoAnswer(op) PROVE StepsLeft' < StepsLeft
  <2>1. Doing(op) /\ w1 = Total(OnNoAnswer(op)) BY <1>10 DEF NoAnswer, Serving, w1
  <2>2. p1 = p /\ asked' \subseteq asked BY <1>10 DEF NoAnswer, p, p1
  <2>3. w1 <= w - 1 BY <1>6, <2>1
  <2> QED BY <1>1, <1>2, <1>3, <2>2, <2>3
<1>11. ASSUME NEW op \in Services, PeerCloses(op) PROVE StepsLeft' < StepsLeft
  <2>1. Doing(op) /\ w1 = Total(OnNoAnswer(op)) BY <1>11 DEF PeerCloses, Serving, w1
  <2>2. p1 <= p /\ asked' \subseteq asked BY <1>11 DEF PeerCloses, p, p1
  <2>3. w1 <= w - 1 BY <1>6, <2>1
  <2> QED BY <1>1, <1>2, <1>3, <2>2, <2>3
<1>12. ASSUME NEW op \in Services, Answer(op) PROVE StepsLeft' < StepsLeft
  <2>1. Doing(op) /\ asked' \subseteq asked BY <1>12 DEF Answer, Serving
  <2>2. c1 = c - 1 BY <1>12, AskedSize DEF Answer, c, c1
  <2>3. \/ w1 = Total(Tail(todo)) /\ (p1 <= p \/ op = "activate")
        \/ w1 = Total(OnFailure(op)) /\ p1 = p
    <3>1. op # "activate" => After(op) \in {state, "SECURECHANNEL"} BY DEF After
    <3>2. state' \in {state, After(op)} BY <1>12 DEF Answer
    <3>3. p1 <= p \/ op = "activate" BY <3>1, <3>2 DEF p, p1
    <3>4. \/ w1 = Total(Tail(todo))
          \/ w1 = Total(OnFailure(op)) /\ state' = state
      BY <1>12 DEF Answer, w1
    <3> QED BY <3>3, <3>4 DEF p, p1
  <2> QED BY <1>1, <1>2, <1>3, <1>6, <2>1, <2>2, <2>3
<1>13. ASSUME NEW op \in Services, LateAnswer(op) PROVE StepsLeft' < StepsLeft
  <2>1. w1 = w /\ p1 = p /\ q1 = q BY <1>13 DEF LateAnswer, w, w1, p, p1, q, q1
  <2>2. c1 = c - 1 BY <1>13, AskedSize DEF LateAnswer, c, c1
  <2> QED BY <1>1, <1>2, <1>3, <2>1, <2>2
<1>14. CASE Disconnect
  <2>1. q1 = q /\ asked' \subseteq asked /\ Doing("disconnect") BY <1>14 DEF Disconnect, q, q1
  <2>2. w = 2 + Total(Tail(todo)) /\ Total(Tail(todo)) \in Nat /\ Tail(todo) \in Seq(Ops)
    BY <1>2, <1>4, <2>1, PriceFacts
  <2>3. Total(<<"finish">> \o Tail(todo)) = 1 + Total(Tail(todo))
    BY <2>2, OpsFacts, TotalCons, PriceFacts
  <2> DEFINE r == Total(Tail(todo))
  <2>4. c1 <= c /\ c1 \in Nat /\ c \in Nat /\ q1 = q /\ r \in Nat /\ w = 2 + r BY <1>2, <2>1, <2>2
  <2>5. CASE state = "SESSION"
    <3>1. todo' = <<"close">> \o (<<"finish">> \o Tail(todo))
      BY <1>14, <2>2, <2>5 DEF Disconnect
    <3>2. w1 = 4 + r
      <4>1. "finish" \in Ops /\ "close" \in Ops BY OpsFacts
      <4>2. <<"finish">> \o Tail(todo) \in Seq(Ops) BY <2>2, <4>1
      <4>3. w1 = 3 + Total(<<"finish">> \o Tail(todo))
        BY <3>1, <4>1, <4>2, TotalCons, PriceFacts DEF w1
      <4> QED BY <2>2, <2>3, <4>3
    <3>3. p = 9 /\ p1 = 0 BY <1>14, <2>5 DEF Disconnect, p, p1
    <3> HIDE DEF r
    <3> QED BY <1>1, <1>3, <2>4, <3>2, <3>3
  <2>6. CASE state # "SESSION"
    <3>1. todo' = <<"finish">> \o Tail(todo) BY <1>14, <2>2, <2>6 DEF Disconnect
    <3>2. w1 = 1 + r BY <2>3, <3>1 DEF w1
    <3>3. p = 0 /\ p1 = 0 BY <1>14, <2>6 DEF Disconnect, p, p1
    <3> HIDE DEF r
    <3> QED BY <1>1, <1>3, <2>4, <3>2, <3>3
  <2> QED BY <2>5, <2>6
<1>15. CASE Finish \/ Free
  <2>1. q1 = q /\ p1 <= p /\ asked' \subseteq asked
    BY <1>15 DEF Finish, Free, p, p1, q, q1
  <2>2. w1 = Total(Tail(todo)) /\ (Doing("finish") \/ Doing("free"))
    BY <1>15 DEF Finish, Free, w1
  <2>3. w = 1 + w1 BY <1>4, <2>2, PriceFacts
  <2> QED BY <1>1, <1>2, <1>3, <2>1, <2>3
<1>16. ~Connect /\ ~Read BY DEF Connect, Read, Enter
<1> QED BY <1>7, <1>8, <1>9, <1>10, <1>11, <1>12, <1>13, <1>14, <1>15, <1>16 DEF Next, Client, Peer

\* A call starts with no more than this; between the calls no answer is
\* outstanding.
LEMMA StepsAtStart ==
  ASSUME IInv, Connect \/ Read
  PROVE  StepsLeft' \in 0 .. 272
<1> USE DEF link
<1>1. todo = <<>> /\ awaiting = 0 /\ asked = {} /\ UNCHANGED <<awaiting, asked, state>>
  <2>1. todo = <<>> /\ UNCHANGED <<awaiting, asked, state>> BY DEF Connect, Read, Enter
  <2>2. awaiting = 0 /\ 0 \notin asked
    BY <2>1 DEF IInv, Types, Numbers, Requests
  <2> QED BY <2>1, <2>2 DEF IInv, Requests, Disconnecting
<1>2. Connecting \in Seq(Ops) /\ Len(Connecting) = 7 BY OpsFacts DEF Connecting
<1>3. Total(Connecting) \in 0 .. 84
  <2>1. Total(Connecting) <= 12 * 7 BY <1>2, TotalBound
  <2>2. Total(Connecting) \in Nat BY <1>2, PenniesFinite
  <2> QED BY <2>1, <2>2
<1>4. Total(Deletion \o Connecting) \in 0 .. 87
  <2>1. "disconnect" \in Ops /\ "free" \in Ops BY OpsFacts
  <2>2. Deletion \o Connecting = <<"disconnect">> \o (<<"free">> \o Connecting)
    BY <1>2 DEF Deletion
  <2>3. <<"free">> \o Connecting \in Seq(Ops) BY <1>2, <2>1
  <2>4. Total(<<"free">> \o Connecting) = 1 + Total(Connecting)
    BY <1>2, <2>1, TotalCons, PriceFacts
  <2>5. Total(Deletion \o Connecting) = 2 + Total(<<"free">> \o Connecting)
    BY <2>1, <2>2, <2>3, TotalCons, PriceFacts
  <2> QED BY <1>3, <2>4, <2>5
<1>5. Total(<<"read">>) \in 0 .. 12
  <2>1. <<"read">> \in Seq(Ops) /\ Len(<<"read">>) = 1 BY OpsFacts
  <2>2. Total(<<"read">>) <= 12 * 1 BY <2>1, TotalBound
  <2>3. Total(<<"read">>) \in Nat BY <2>1, PenniesFinite
  <2> QED BY <2>2, <2>3
<1>6. Total(todo') \in 0 .. 87
  <2>1. CASE Connect /\ object BY <1>4, <2>1 DEF Connect, Enter
  <2>2. CASE Connect /\ ~object
    <3>1. <<>> \o Connecting = Connecting BY <1>2
    <3> QED BY <1>3, <2>2, <3>1 DEF Connect, Enter
  <2>3. CASE Read BY <1>5, <2>3 DEF Read, Enter
  <2> QED BY <2>1, <2>2, <2>3
<1>7. Cardinality(asked') = 0 BY <1>1, FS_EmptySet
<1>8. StepsLeft' = 3 * Total(todo') + (IF state' = "SESSION" THEN 9 ELSE 0)
                     + (IF awaiting' = 0 THEN 2 ELSE 0) + Cardinality(asked')
  BY DEF StepsLeft
<1>9. (IF state' = "SESSION" THEN 9 ELSE 0) \in 0 .. 9 /\ (IF awaiting' = 0 THEN 2 ELSE 0) = 2
  BY <1>1
<1> QED BY <1>6, <1>7, <1>8, <1>9

\* What is left to do is a number of steps that is never more than 272, and
\* every step within a call makes it less: whatever the server does, and
\* however many of its steps fail, a call comes to its end after that many
\* steps at most.  (That it takes them is a matter of fairness.)
BoundedCalls == StepsLeft \in 0 .. 272
CallsShorten == [][todo # <<>> => StepsLeft' < StepsLeft]_vars

THEOREM CallsBounded == Spec => []BoundedCalls /\ CallsShorten
<1>1. ASSUME Init PROVE BoundedCalls
  <2>1. Total(todo) = 0 /\ Cardinality(asked) = 0 BY <1>1, TotalEmpty, FS_EmptySet DEF Init
  <2>2. state # "SESSION" /\ awaiting = 0 BY <1>1 DEF Init
  <2>3. StepsLeft = 3 * 0 + 0 + 2 + 0 BY <2>1, <2>2 DEF StepsLeft
  <2> QED BY <2>3 DEF BoundedCalls
<1>2. ASSUME IInv, IInv', BoundedCalls, [Next]_vars PROVE BoundedCalls'
  <2>1. CASE Connect \/ Read BY <1>2, <2>1, StepsAtStart DEF BoundedCalls
  <2>2. CASE UNCHANGED vars BY <1>2, <2>2 DEF vars, link, BoundedCalls, StepsLeft
  <2>3. CASE Next /\ todo # <<>>
    <3>1. StepsLeft' < StepsLeft BY <1>2, <2>3, StepsDecrease
    <3>2. StepsLeft' \in Nat
      <4>1. Total(todo') \in Nat BY <1>2, PenniesFinite DEF IInv, Ordered
      <4>2. IsFiniteSet(asked')
        <5>1. requestId' \in Nat /\ asked' \subseteq 1 .. requestId' BY <1>2 DEF IInv, Types, Numbers
        <5>2. 1 \in Int /\ requestId' \in Int BY <5>1
        <5> QED BY <5>1, <5>2, FS_Interval, FS_Subset
      <4>3. Cardinality(asked') \in Nat BY <4>2, FS_CardinalityType
      <4> QED BY <4>1, <4>3 DEF StepsLeft
    <3> QED BY <1>2, <3>1, <3>2 DEF BoundedCalls
  <2>4. CASE Next /\ todo = <<>> /\ ~Connect /\ ~Read
    BY <2>4 DEF Next, Client, Peer, New, OpenTcp, Hello, Send, SendFails, NoAnswer, Answer, LateAnswer,
            PeerCloses, Disconnect, Finish, Free, Serving, Doing
  <2> QED BY <1>2, <2>1, <2>2, <2>3, <2>4
<1>3. IInv /\ IInv' /\ [Next]_vars => [todo # <<>> => StepsLeft' < StepsLeft]_vars
  BY StepsDecrease
<1>4. Init /\ [][Next]_vars => []BoundedCalls BY <1>1, <1>2, Invariance, PTL
<1>5. Init /\ [][Next]_vars => CallsShorten BY <1>3, Invariance, PTL DEF CallsShorten
<1> QED BY <1>4, <1>5, PTL DEF Spec
=============================================================================
