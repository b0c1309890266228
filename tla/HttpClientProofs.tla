-------------------------- MODULE HttpClientProofs --------------------------
(***************************************************************************)
(* Proofs about HttpClient, for answers of any length, any number of       *)
(* requests and any tables of handles: what http_request reports, and that *)
(* it gives its socket back.                                               *)
(***************************************************************************)
EXTENDS HttpClient, FiniteSetTheorems, NumberFacts

-----------------------------------------------------------------------------
(* Handles and indices.                                                    *)

\* A finite set of numbers leaves a number free, and the lowest one is taken.
LEMMA LowestIsFree ==
  ASSUME NEW used, used \subseteq Nat, IsFiniteSet(used)
  PROVE  Lowest(used) \in Nat \ used
<1> DEFINE c == Cardinality(used)
           free == 0 .. c \ used
<1>1. c \in Nat
  BY FS_CardinalityType
<1>2. free # {}
  <2>1. SUFFICES ASSUME 0 .. c \subseteq used PROVE FALSE
    BY <1>1
  <2>2. Cardinality(0 .. c) = c + 1
    BY <1>1, FS_Interval
  <2>3. Cardinality(0 .. c) <= c
    BY <2>1, FS_Subset
  <2> QED
    BY <1>1, <2>2, <2>3
<1>3. \E x \in free : \A y \in free : x <= y
  <2>1. free \subseteq Nat
    BY <1>1
  <2> HIDE DEF free
  <2> QED
    BY <1>2, <2>1, LeastNatural
<1>4. Lowest(used) \in free
  BY <1>3 DEF Lowest, Min
<1> QED
  BY <1>1, <1>4

\* The loop of select over the handles finds the greatest index.
LEMMA GreatestExists ==
  ASSUME NEW index \in [Nat -> Int], NEW n \in Nat
  PROVE  LET S == {0} \cup { index[f] : f \in 0 .. n - 1 }
         IN  \E m \in S : \A i \in S : m >= i
<1> DEFINE S(k) == {0} \cup { index[f] : f \in 0 .. k - 1 }
           Missing == { k \in Nat : ~ \E m \in S(k) : \A i \in S(k) : m >= i }
<1>1. SUFFICES ASSUME Missing # {} PROVE FALSE
  OBVIOUS
<1>2. PICK k \in Missing : \A j \in Missing : k <= j
  <2>1. Missing \subseteq Nat
    OBVIOUS
  <2> HIDE DEF Missing
  <2> QED
    BY <1>1, <2>1, LeastNatural
<1>3. k # 0
  <2>1. S(0) = {0}
    OBVIOUS
  <2> QED
    BY <2>1
<1>4. k - 1 \in Nat /\ k - 1 \notin Missing
  <2>1. k \in Nat
    OBVIOUS
  <2> HIDE DEF Missing
  <2> QED
    BY <1>2, <1>3, <2>1
<1>5. PICK m \in S(k - 1) : \A i \in S(k - 1) : m >= i
  BY <1>4
<1>6. S(k) = S(k - 1) \cup {index[k - 1]}
  <2>1. 0 .. k - 1 = 0 .. (k - 1) - 1 \cup {k - 1}
    BY <1>4
  <2> QED
    BY <2>1
<1>7. m \in Int /\ index[k - 1] \in Int
  BY <1>4
<1>8. CASE m >= index[k - 1]
  BY <1>5, <1>6, <1>8
<1>9. CASE index[k - 1] >= m
  <2>1. \A i \in S(k - 1) : i \in Int
    BY <1>4
  <2>2. \A i \in S(k) : index[k - 1] >= i
    BY <1>5, <1>6, <1>7, <1>9, <2>1
  <2> QED
    BY <1>6, <2>2
<1> QED
  BY <1>7, <1>8, <1>9

\* select passes net_select an argument above the index of every socket.
LEMMA NetNfdsAbove ==
  ASSUME NEW t, \A h \in DOMAIN t : t[h].index \in Nat,
         NEW n \in Nat, NEW f \in 0 .. n - 1
  PROVE  ToNetFd(t, f) < NetNfds(t, n)
<1> DEFINE index == [h \in Nat |-> ToNetFd(t, h)]
           S == {0} \cup { ToNetFd(t, h) : h \in 0 .. n - 1 }
<1>1. index \in [Nat -> Int]
  BY DEF ToNetFd, NotOpen
<1>2. S = {0} \cup { index[h] : h \in 0 .. n - 1 }
  OBVIOUS
<1>3. \E m \in S : \A i \in S : m >= i
  <2> HIDE DEF index, S
  <2> QED
    BY <1>1, <1>2, GreatestExists
<1>4. Max(S) >= ToNetFd(t, f) /\ Max(S) \in S
  BY <1>3 DEF Max
<1>5. Max(S) \in Int /\ ToNetFd(t, f) \in Int
  BY <1>1, <1>2, <1>4
<1>6. NetNfds(t, n) = Max(S) + 1
  BY DEF NetNfds
<1> HIDE DEF S
<1> QED
  BY <1>4, <1>5, <1>6

\* net_select looks at the socket of the request, whatever else is open.
LEMMA SocketIsWatched ==
  ASSUME \A h \in DOMAIN table : table[h].index \in Nat,
         fd \in Nat, fd \in DOMAIN table, table[fd].device = "soc"
  PROVE  Ready(TRUE) # {}
<1>1. ToNetFd(table, fd) = table[fd].index /\ table[fd].index \in Nat
  BY DEF ToNetFd
<1>2. table[fd].index < NetNfds(table, fd + 1)
  BY <1>1, NetNfdsAbove
<1>3. table[fd].index \in Asked(table, fd + 1, {fd})
  BY <1>1 DEF Asked, NotOpen
<1> QED
  BY <1>2, <1>3 DEF Ready, Watched

-----------------------------------------------------------------------------
(* The invariant.                                                          *)

Places ==
  {"idle", "connect", "send", "select", "recv", "handshake", "tlsSend", "tlsRead", "close", "fail"}

\* The types, but that of data, which DataInv tells exactly.
StateOK ==
  /\ pc \in Places
  /\ result \in {-1, 0}
  /\ requests \in Nat
  /\ got \in Nat /\ got <= sent
  /\ sent \in Nat /\ sent <= AnswerPieces
  /\ others \in OtherTables

FlagsOK == secure \in BOOLEAN /\ hasLength \in BOOLEAN /\ closed \in BOOLEAN /\ broken \in BOOLEAN

Opened == pc \notin {"idle", "connect"}

\* Between connect_host and the end, the socket is open beside the others; the C
\* library and the network have given it numbers nobody else has.
TableInv ==
  /\ ~ Opened => table = others
  /\ Opened =>
       /\ fd \in Nat \ DOMAIN others
       /\ DOMAIN table = DOMAIN others \cup {fd}
       /\ \A h \in DOMAIN others : table[h] = others[h]
       /\ table[fd].device = "soc" /\ table[fd].index \in Nat

\* The first pieces of the answer to this request.
Collected(n) == [i \in 1 .. n |-> [request |-> requests, piece |-> i]]

\* What was received is what HTTP_DATA holds, from the moment it is emptied: before
\* that it may hold an answer to an earlier request.
DataInv ==
  /\ pc \in {"select", "recv", "tlsRead", "close"} => data = Collected(got)
  /\ pc \in {"connect", "handshake", "send", "tlsSend"} => got = 0

\* Without a failure the host closes only when it is done, and the client does not
\* stop before it has everything.
EndInv ==
  /\ pc = "fail" => broken
  /\ closed /\ ~ broken => sent = AnswerPieces
  /\ pc = "close" /\ ~ broken => got = AnswerPieces

ClientInv ==
  /\ StateOK /\ FlagsOK
  /\ TableInv /\ DataInv /\ EndInv
  /\ FreshAnswer /\ WholeAnswer

-----------------------------------------------------------------------------
(* What the steps of a request do to the data and to the table.            *)

\* An answer has headers and a body.
LEMMA AnswerLength == HeaderPieces \in Nat /\ BodyPieces \in Nat /\ BodyPieces > 0 /\ AnswerPieces \in Nat
BY HttpAssumption DEF AnswerPieces

\* What is collected is a sequence of its length.
LEMMA CollectedLength ==
  ASSUME NEW n \in Nat
  PROVE  Len(Collected(n)) = n /\ Collected(n) \in Seq([request : {requests}, piece : Nat])
BY DEF Collected

\* Another read continues where the last one ended.
LEMMA ReceivedContinues ==
  ASSUME NEW n \in Nat, got \in Nat, data = Collected(got), Received(n), UNCHANGED requests
  PROVE  data' = Collected(got)' /\ got' = got + n
<1> DEFINE part == [i \in 1 .. n |-> [request |-> requests, piece |-> got + i]]
<1>1. data' = Collected(got) \o part /\ got' = got + n
  BY DEF Received
<1>2. Collected(got) \o part = [i \in 1 .. got + n |-> [request |-> requests, piece |-> i]]
  BY DEF Collected
<1> QED
  BY <1>1, <1>2 DEF Collected

\* strip_headers leaves the pieces after the headers, or all when there are fewer.
LEMMA BodyOfCollected ==
  ASSUME NEW n \in Nat
  PROVE  LET from == IF n >= HeaderPieces THEN HeaderPieces + 1 ELSE 1
         IN  Body(Collected(n)) = [i \in 1 .. n - from + 1 |-> [request |-> requests, piece |-> from + i - 1]]
<1> USE AnswerLength
<1>1. Len(Collected(n)) = n
  BY CollectedLength
<1>2. CASE n >= HeaderPieces
  <2> DEFINE from == HeaderPieces + 1
             body == [i \in 1 .. n - from + 1 |-> [request |-> requests, piece |-> from + i - 1]]
  <2>1. Body(Collected(n)) = SubSeq(Collected(n), HeaderPieces + 1, n)
    BY <1>1, <1>2 DEF Body
  <2>2. n - from + 1 = n - HeaderPieces
    OBVIOUS
  <2>3. \A i \in 1 .. n - HeaderPieces :
          /\ HeaderPieces + i \in 1 .. n
          /\ HeaderPieces + i = from + i - 1
    BY <1>2
  <2>4. \A i \in 1 .. n - HeaderPieces : Collected(n)[HeaderPieces + i] = body[i]
    BY <2>2, <2>3 DEF Collected
  <2>5. SubSeq(Collected(n), HeaderPieces + 1, n) =
          [i \in 1 .. n - HeaderPieces |-> Collected(n)[HeaderPieces + i]]
    BY <1>1, <1>2, CollectedLength
  <2>6. SubSeq(Collected(n), HeaderPieces + 1, n) = body
    BY <2>2, <2>4, <2>5
  <2> QED
    BY <1>2, <2>1, <2>6
<1>3. CASE n < HeaderPieces
  BY <1>1, <1>3 DEF Body, Collected
<1> QED
  BY <1>2, <1>3

-----------------------------------------------------------------------------
(* The invariant is inductive.                                             *)

\* Before the first request there is nothing to report.
LEMMA InitInv == Init => ClientInv
<1> SUFFICES ASSUME Init PROVE ClientInv
  OBVIOUS
<1>1. StateOK
  BY AnswerLength DEF Init, StateOK, Places
<1>2. FlagsOK
  BY DEF Init, FlagsOK
<1>3. TableInv /\ DataInv /\ EndInv
  BY DEF Init, TableInv, Opened, DataInv, EndInv
<1>4. FreshAnswer /\ WholeAnswer
  BY DEF Init, FreshAnswer, Answered, WholeAnswer
<1> QED
  BY <1>1, <1>2, <1>3, <1>4 DEF ClientInv

\* http_request begins.
LEMMA RequestInv == ClientInv /\ HttpRequest => ClientInv'
<1> SUFFICES ASSUME ClientInv, HttpRequest PROVE ClientInv'
  OBVIOUS
<1> USE DEF ClientInv, HttpRequest
<1>1. StateOK'
  BY AnswerLength DEF StateOK, Places
<1>2. FlagsOK'
  BY Zenon DEF FlagsOK
<1>3. TableInv'
  BY DEF TableInv, Opened
<1>4. DataInv' /\ EndInv'
  BY DEF DataInv, EndInv
<1>5. (FreshAnswer /\ WholeAnswer)'
  BY DEF FreshAnswer, Answered, WholeAnswer
<1> QED
  BY <1>1, <1>2, <1>3, <1>4, <1>5

\* The socket of connect_host is none of the handles that were open.
LEMMA ConnectInv == ClientInv /\ (ConnectHost \/ ConnectFails) => ClientInv'
<1> SUFFICES ASSUME ClientInv, ConnectHost \/ ConnectFails PROVE ClientInv'
  OBVIOUS
<1>1. CASE ConnectHost
  <2> USE <1>1 DEF ClientInv, ConnectHost, hostVars
  <2>1. table = others /\ others \in OtherTables
    BY DEF TableInv, Opened, StateOK
  <2>2. /\ DOMAIN others \subseteq Nat /\ IsFiniteSet(DOMAIN others)
        /\ others \in [DOMAIN others -> [device : STRING, index : Nat]]
    BY <2>1, TablesAssumption
  <2>3. fd' \in Nat \ DOMAIN others
    BY <2>1, <2>2, LowestIsFree
  <2>4. NewSocket.device = "soc" /\ NewSocket.index \in Nat
    <3> DEFINE sockets == { h \in DOMAIN table : table[h].device = "soc" }
               index == [h \in sockets |-> table[h].index]
    <3>1. IsFiniteSet(sockets)
      BY <2>1, <2>2, FS_Subset
    <3>2. SocketIndices = { index[h] : h \in sockets } /\ SocketIndices \subseteq Nat
      BY <2>1, <2>2 DEF SocketIndices
    <3>3. index \in Surjection(sockets, SocketIndices)
      BY <3>2 DEF Surjection
    <3>4. IsFiniteSet(SocketIndices)
      BY <3>1, <3>3, FS_Surjection
    <3>5. Lowest(SocketIndices) \in Nat
      BY <3>2, <3>4, LowestIsFree
    <3> QED
      BY <3>5 DEF NewSocket
  <2>5. TableInv'
    BY <2>1, <2>2, <2>3, <2>4 DEF TableInv, Opened
  <2>6. StateOK' /\ DataInv' /\ EndInv'
    BY DEF StateOK, Places, DataInv, EndInv
  <2>7. FlagsOK'
    BY Zenon DEF FlagsOK
  <2>8. (FreshAnswer /\ WholeAnswer)'
    BY DEF FreshAnswer, Answered, WholeAnswer
  <2> QED
    BY <2>5, <2>6, <2>7, <2>8
<1>2. CASE ConnectFails
  <2> USE <1>2 DEF ClientInv, ConnectFails, hostVars
  <2>1. StateOK' /\ TableInv' /\ DataInv' /\ EndInv'
    BY DEF StateOK, Places, TableInv, Opened, DataInv, EndInv
  <2>2. FlagsOK'
    BY Zenon DEF FlagsOK
  <2>3. (FreshAnswer /\ WholeAnswer)'
    BY DEF FreshAnswer, Answered, WholeAnswer
  <2> QED
    BY <2>1, <2>2, <2>3
<1> QED
  BY <1>1, <1>2

\* At the end the socket goes, and the data is what http_request reports.
LEMMA ReturnInv == ClientInv /\ (Close \/ Fail) => ClientInv'
<1> SUFFICES ASSUME ClientInv, Close \/ Fail PROVE ClientInv'
  OBVIOUS
<1> USE DEF ClientInv
<1>1. pc \in {"close", "fail"} /\ pc' = "idle" /\ UNCHANGED <<secure, hostVars, got, others, broken>>
  BY DEF Close, Fail, Return
<1>2. table' = others
  <2>1. table' = [h \in DOMAIN table \ {fd} |-> table[h]]
    BY DEF Close, Fail, Return
  <2>2. others = [h \in DOMAIN others |-> others[h]]
    BY TablesAssumption DEF StateOK
  <2>3. DOMAIN table \ {fd} = DOMAIN others /\ \A h \in DOMAIN others : table[h] = others[h]
    BY <1>1 DEF TableInv, Opened
  <2> QED
    BY <2>1, <2>2, <2>3
<1>3. StateOK'
  BY <1>1 DEF StateOK, Places, Close, Fail, Return, hostVars
<1>4. FlagsOK'
  BY <1>1, Zenon DEF FlagsOK, hostVars
<1>5. TableInv' /\ DataInv' /\ EndInv'
  BY <1>1, <1>2 DEF TableInv, Opened, DataInv, EndInv, hostVars
<1>6. (FreshAnswer /\ WholeAnswer)'
  <2>1. CASE Close
    <3> DEFINE from == IF got >= HeaderPieces THEN HeaderPieces + 1 ELSE 1
    <3>1. got \in Nat /\ got <= AnswerPieces
      BY AnswerLength DEF StateOK
    <3>2. data' = [i \in 1 .. got - from + 1 |-> [request |-> requests, piece |-> from + i - 1]]
      <4>1. data = Collected(got)
        BY <2>1 DEF Close, DataInv
      <4> QED
        BY <2>1, <3>1, <4>1, BodyOfCollected DEF Close
    <3>3. from \in 1 .. AnswerPieces + 1
      BY <3>1, AnswerLength DEF AnswerPieces
    <3>4. FreshAnswer'
      <4> HIDE DEF from
      <4> QED
        BY <1>1, <3>2, <3>3 DEF FreshAnswer, hostVars, AnswerPieces
    <3>5. ASSUME ~ broken PROVE result' = 0 /\ Len(data') = BodyPieces
      <4>1. got = AnswerPieces
        BY <2>1, <3>5 DEF EndInv, Close
      <4>2. from = HeaderPieces + 1 /\ got - from + 1 = BodyPieces
        BY <4>1, AnswerLength DEF AnswerPieces
      <4>3. Len(data') = BodyPieces
        <5> HIDE DEF from
        <5> QED
          BY <3>2, <4>2, AnswerLength
      <4> QED
        BY <2>1, <4>3, AnswerLength DEF Close, Return
    <3> QED
      BY <1>1, <3>4, <3>5 DEF WholeAnswer
  <2>2. CASE Fail
    BY <2>2 DEF Fail, Return, FreshAnswer, Answered, WholeAnswer, EndInv
  <2> QED
    BY <2>1, <2>2
<1> QED
  BY <1>1, <1>2, <1>3, <1>4, <1>5, <1>6

\* A step with the socket open that is not the last changes neither the table nor
\* what was reported.
LEMMA OpenStepInv ==
  ASSUME ClientInv, Opened, Opened', UNCHANGED <<fd, table, others, secure, result, requests>>,
         StateOK', FlagsOK', DataInv', EndInv'
  PROVE  ClientInv'
<1>1. TableInv'
  BY DEF ClientInv, TableInv
<1>2. (FreshAnswer /\ WholeAnswer)'
  BY DEF Opened, FreshAnswer, Answered, WholeAnswer
<1> QED
  BY <1>1, <1>2 DEF ClientInv

\* send_request, and the reset of HTTP_DATA after it.
LEMMA SendInv == ClientInv /\ (SendRequest \/ TlsSend) => ClientInv'
<1> SUFFICES ASSUME ClientInv, SendRequest \/ TlsSend PROVE ClientInv'
  OBVIOUS
<1> USE DEF ClientInv
<1>1. /\ pc \in {"send", "tlsSend"} /\ pc' \in {"select", "tlsRead", "fail"}
      /\ UNCHANGED <<fd, table, others, secure, result, hostVars, got>>
      /\ pc' = "fail" => broken'
      /\ pc' # "fail" => data' = <<>> /\ broken' = broken
  BY DEF SendRequest, TlsSend, Fails, ResetData, hostVars
<1>2. Opened /\ Opened' /\ StateOK'
  BY <1>1 DEF Opened, StateOK, Places, hostVars
<1>3. FlagsOK'
  <2>1. broken' \in BOOLEAN
    BY Zenon DEF SendRequest, TlsSend, Fails, FlagsOK
  <2> QED
    BY <1>1, <2>1, Zenon DEF FlagsOK, hostVars
<1>4. DataInv'
  <2>1. got' = 0
    BY <1>1 DEF DataInv
  <2>2. CASE pc' = "fail"
    BY <2>2 DEF DataInv
  <2>3. CASE pc' # "fail"
    <3>1. data' = <<>>
      BY <1>1, <2>3
    <3>2. Collected(got)' = <<>>
      BY <2>1 DEF Collected
    <3> QED
      BY <1>1, <3>1, <3>2 DEF DataInv
  <2> QED
    BY <2>2, <2>3
<1>5. EndInv'
  BY <1>1 DEF EndInv, hostVars
<1> QED
  BY <1>1, <1>2, <1>3, <1>4, <1>5, OpenStepInv DEF hostVars

\* select: a timeout is the fault of the host, as it never overlooks the socket.
LEMMA SelectInv == ClientInv /\ (SelectReady \/ SelectTimeout \/ SelectError) => ClientInv'
<1> SUFFICES ASSUME ClientInv, SelectReady \/ SelectTimeout \/ SelectError PROVE ClientInv'
  OBVIOUS
<1> USE DEF ClientInv
<1>1. /\ pc = "select" /\ pc' \in {"recv", "close"}
      /\ UNCHANGED <<fd, data, table, others, secure, result, hostVars, got>>
  BY DEF SelectReady, SelectTimeout, SelectError, Fails
<1>2. Opened /\ Opened' /\ StateOK'
  BY <1>1 DEF Opened, StateOK, Places, hostVars
<1>3. FlagsOK'
  <2>1. broken' \in BOOLEAN
    <3>1. CASE SelectReady \/ SelectError
      BY <3>1, Zenon DEF SelectReady, SelectError, Fails, FlagsOK
    <3>2. CASE SelectTimeout
      BY <3>2, Zenon DEF SelectTimeout
    <3> QED
      BY <3>1, <3>2
  <2> QED
    BY <1>1, <2>1, Zenon DEF FlagsOK, hostVars
<1>4. DataInv'
  BY <1>1 DEF DataInv, Collected, hostVars
<1>5. EndInv'
  <2>1. CASE SelectReady
    BY <2>1 DEF SelectReady, EndInv, hostVars
  <2>2. CASE SelectTimeout
    <3>1. ~ Readable
      <4>1. SUFFICES ASSUME Readable PROVE FALSE
        OBVIOUS
      <4>2. fd \in Nat /\ fd \in DOMAIN table /\ table[fd].device = "soc"
        BY <1>2 DEF TableInv
      <4>3. others \in OtherTables
        BY DEF StateOK
      <4>4. \A h \in DOMAIN table : table[h].index \in Nat
        BY <1>2, <4>3, TablesAssumption DEF TableInv
      <4>5. Ready(TRUE) # {}
        BY <4>2, <4>4, SocketIsWatched
      <4>6. Ready(Readable) = Ready(TRUE)
        BY <4>1 DEF Ready
      <4> QED
        BY <2>2, <4>5, <4>6 DEF SelectTimeout
    <3>2. broken' /\ pc' = "close"
      BY <2>2, <3>1 DEF SelectTimeout
    <3> QED
      BY <3>2 DEF EndInv
  <2>3. CASE SelectError
    BY <2>3 DEF SelectError, Fails, EndInv
  <2> QED
    BY <2>1, <2>2, <2>3
<1> QED
  BY <1>1, <1>2, <1>3, <1>4, <1>5, OpenStepInv DEF hostVars

\* recv and mbedtls_ssl_read, which bring some pieces.
LEMMA ReadInv == ClientInv /\ (Recv \/ TlsRead) => ClientInv'
<1> SUFFICES ASSUME ClientInv, Recv \/ TlsRead PROVE ClientInv'
  OBVIOUS
<1> USE DEF ClientInv
<1>1. /\ pc \in {"recv", "tlsRead"} /\ pc' \in {"select", "tlsRead", "close"}
      /\ UNCHANGED <<fd, table, others, secure, result, hostVars, broken>>
      /\ pc' = "close" => ResponseComplete(data')
  BY DEF Recv, TlsRead
<1>2. got \in Nat /\ sent \in Nat /\ got <= sent /\ sent <= AnswerPieces
  BY DEF StateOK
<1>3. PICK n \in 1 .. sent - got : Received(n)
  BY DEF Recv, TlsRead
<1>4. data' = Collected(got)' /\ got' = got + n
  <2>1. data = Collected(got) /\ n \in Nat /\ UNCHANGED requests
    BY <1>1, <1>2 DEF DataInv, hostVars
  <2> QED
    BY <1>2, <1>3, <2>1, ReceivedContinues
<1>5. Opened /\ Opened' /\ StateOK'
  BY <1>1, <1>2, <1>4 DEF Opened, StateOK, Places, hostVars
<1>6. FlagsOK'
  BY <1>1, Zenon DEF FlagsOK, hostVars
<1>7. DataInv'
  BY <1>1, <1>4 DEF DataInv
<1>8. EndInv'
  <2>1. CASE pc' = "close"
    <3>1. Len(data') = got'
      BY <1>2, <1>4 DEF Collected
    <3>2. got' >= AnswerPieces
      BY <1>1, <1>2, <1>4, <2>1, <3>1, AnswerLength DEF ResponseComplete, AnswerPieces
    <3>3. got' = AnswerPieces
      BY <1>2, <1>4, <3>2, AnswerLength
    <3> QED
      BY <1>1, <2>1, <3>3 DEF EndInv, hostVars
  <2>2. CASE pc' # "close"
    BY <1>1, <2>2 DEF EndInv, hostVars
  <2> QED
    BY <2>1, <2>2
<1> QED
  BY <1>1, <1>5, <1>6, <1>7, <1>8, OpenStepInv DEF hostVars

\* An end of the answer that is not a failure comes after everything was read.
LEMMA EofInv == ClientInv /\ (RecvEof \/ TlsReadEof) => ClientInv'
<1> SUFFICES ASSUME ClientInv, RecvEof \/ TlsReadEof PROVE ClientInv'
  OBVIOUS
<1> USE DEF ClientInv
<1>1. /\ pc \in {"recv", "tlsRead"} /\ pc' = "close" /\ got = sent /\ closed
      /\ UNCHANGED <<fd, data, table, others, secure, result, hostVars, got, broken>>
  BY DEF RecvEof, TlsReadEof
<1>2. Opened /\ Opened' /\ StateOK'
  BY <1>1 DEF Opened, StateOK, Places, hostVars
<1>3. FlagsOK'
  BY <1>1, Zenon DEF FlagsOK, hostVars
<1>4. DataInv' /\ EndInv'
  BY <1>1 DEF DataInv, EndInv, Collected, hostVars
<1> QED
  BY <1>1, <1>2, <1>3, <1>4, OpenStepInv DEF hostVars

\* A failure, or a handshake.
LEMMA FailsInv ==
  ClientInv /\ (RecvFails \/ TlsHandshake \/ TlsHandshakeFails \/ TlsReadFails) => ClientInv'
<1> SUFFICES ASSUME ClientInv, RecvFails \/ TlsHandshake \/ TlsHandshakeFails \/ TlsReadFails
             PROVE  ClientInv'
  OBVIOUS
<1> USE DEF ClientInv
<1>1. /\ UNCHANGED <<fd, data, table, others, secure, result, hostVars, got>>
      /\ \/ pc \in {"recv", "tlsRead"} /\ pc' \in {"close", "fail"} /\ broken' = TRUE
         \/ pc = "handshake" /\ pc' = "fail" /\ broken' = TRUE
         \/ pc = "handshake" /\ pc' = "tlsSend" /\ broken' = broken
  BY DEF RecvFails, TlsHandshake, TlsHandshakeFails, TlsReadFails, Fails
<1>2. Opened /\ Opened' /\ StateOK'
  BY <1>1 DEF Opened, StateOK, Places, hostVars
<1>3. FlagsOK'
  BY <1>1, Zenon DEF FlagsOK, hostVars
<1>4. DataInv' /\ EndInv'
  BY <1>1 DEF DataInv, EndInv, Collected, hostVars
<1> QED
  BY <1>1, <1>2, <1>3, <1>4, OpenStepInv DEF hostVars

\* The host sends, or closes: before it is done only by failing the request.
LEMMA HostInv == ClientInv /\ (HostSends \/ HostCloses) => ClientInv'
<1> SUFFICES ASSUME ClientInv, HostSends \/ HostCloses PROVE ClientInv'
  OBVIOUS
<1> USE DEF ClientInv
<1>1. /\ pc \in {"select", "recv", "tlsRead", "handshake"} /\ ~ closed
      /\ UNCHANGED <<pc, fd, data, table, others, secure, result, requests, hasLength, got>>
  BY DEF HostSends, HostCloses, Asking, consoleVars
<1>2. \/ closed' = closed /\ broken' = broken /\ sent' = sent + 1 /\ sent < AnswerPieces
      \/ closed' = TRUE /\ broken' = (broken \/ sent < AnswerPieces) /\ sent' = sent
  BY Zenon DEF HostSends, HostCloses
<1>3. StateOK'
  BY <1>1, <1>2, AnswerLength DEF StateOK, Places
<1>4. FlagsOK'
  <2>1. closed' \in BOOLEAN
    BY <1>2, Zenon DEF FlagsOK
  <2>2. broken' \in BOOLEAN
    BY <1>2, Zenon DEF FlagsOK
  <2> QED
    BY <1>1, <2>1, <2>2, Zenon DEF FlagsOK
<1>5. DataInv'
  BY <1>1 DEF DataInv, Collected
<1>6. EndInv'
  <2>1. ASSUME closed', ~ broken' PROVE sent' = AnswerPieces
    <3>1. sent' = sent /\ ~ (sent < AnswerPieces)
      BY <1>1, <1>2, <2>1
    <3> QED
      BY <3>1, AnswerLength DEF StateOK
  <2> QED
    BY <1>1, <2>1 DEF EndInv
<1> QED
  BY <1>1, <1>3, <1>4, <1>5, <1>6, OpenStepInv DEF Opened

\* The invariant of the client, for any answers, tables and number of requests.
THEOREM ClientInvariance == Spec => []ClientInv
<1>1. ClientInv /\ UNCHANGED vars => ClientInv'
  BY DEF ClientInv, StateOK, FlagsOK, TableInv, Opened, DataInv, Collected, EndInv, FreshAnswer,
         Answered, WholeAnswer, vars, consoleVars, hostVars
<1>2. ClientInv /\ [Next]_vars => ClientInv'
  BY <1>1, RequestInv, ConnectInv, ReturnInv, SendInv, SelectInv, ReadInv, EofInv, FailsInv, HostInv
     DEF Next, ConsoleStep
<1> QED
  BY <1>2, InitInv, PTL DEF Spec

\* A reported answer is what the host sent for this request, in order and without
\* a gap, with its headers stripped when they are complete.
THEOREM AnswersAreFresh == Spec => []FreshAnswer
<1>1. ClientInv => FreshAnswer
  BY DEF ClientInv
<1> QED
  BY <1>1, ClientInvariance, PTL

\* Unless something failed or the host stopped, a request returns the whole body.
THEOREM AnswersAreWhole == Spec => []WholeAnswer
<1>1. ClientInv => WholeAnswer
  BY DEF ClientInv
<1> QED
  BY <1>1, ClientInvariance, PTL

\* No outcome leaves a socket open, or closes another handle.
THEOREM SocketsReturn == Spec => []NoSocketLeft
<1>1. ClientInv => NoSocketLeft
  BY DEF ClientInv, TableInv, Opened, NoSocketLeft
<1> QED
  BY <1>1, ClientInvariance, PTL
=============================================================================
