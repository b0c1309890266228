----------------------------- MODULE HttpClient -----------------------------
(***************************************************************************)
(* One request after another as libgamestream/http.c performs them: a      *)
(* connection, the request, the answer read into an HTTP_DATA that the     *)
(* pairing uses for all its requests, over plain sockets with a timeout or *)
(* over TLS without one.  The host answers piece by piece, slowly, or      *)
(* never, and may close the connection before it is done.                  *)
(*                                                                         *)
(* An answer is a sequence of pieces: the first HeaderPieces make up its   *)
(* headers, the others its body.                                           *)
(***************************************************************************)
EXTENDS NetCompat, SequencesExt

CONSTANTS
  HeaderPieces, BodyPieces,
  MaxRequests,  \* bound: requests
  OtherTables   \* tables of the handles that are open all along

ASSUME HttpAssumption ==
  /\ HeaderPieces \in Nat \ {0} /\ BodyPieces \in Nat \ {0}
  /\ MaxRequests \in Nat

\* A table has finitely many handles, which are natural numbers like the indices.
ASSUME TablesAssumption ==
  \A t \in OtherTables :
    /\ DOMAIN t \subseteq Nat /\ IsFiniteSet(DOMAIN t)
    /\ t \in [DOMAIN t -> [device : STRING, index : Nat]]

VARIABLES
  pc,      \* "idle", "connect", "send", "select", "recv", "handshake", "tlsSend",
           \* "tlsRead", "close", "fail"
  secure,  \* the request goes over TLS
  fd,      \* its socket
  data,    \* the HTTP_DATA: pieces, each with the number of its request
  result,  \* what http_request returned last: 0 or -1
  table,   \* the open handles, see NetCompat
  \* the host
  requests,  \* requests so far
  hasLength, \* its answer has a Content-Length
  sent,      \* pieces it has sent
  closed,    \* it has closed the connection
  \* auxiliary
  got,       \* pieces the console has received of this answer
  others,    \* the handles that were open at the start
  broken     \* the network, the host or the memory failed this request

consoleVars == <<pc, secure, fd, data, result, table>>
hostVars == <<requests, hasLength, sent, closed>>
vars == <<consoleVars, hostVars, got, others, broken>>

AnswerPieces == HeaderPieces + BodyPieces
Pieces == [request : Nat, piece : 1 .. AnswerPieces]

Init ==
  /\ pc = "idle" /\ secure = FALSE /\ fd = NotOpen /\ data = <<>> /\ result = -1
  /\ table \in OtherTables /\ others = table
  /\ requests = 0 /\ hasLength = FALSE /\ sent = 0 /\ closed = FALSE
  /\ got = 0 /\ broken = FALSE

\* http_request, with the HTTP_DATA of the last one or a new one.
HttpRequest ==
  /\ pc = "idle"
  /\ requests < MaxRequests /\ requests' = requests + 1
  /\ pc' = "connect"
  /\ secure' \in BOOLEAN
  /\ data' \in {data, <<>>}
  /\ hasLength' \in BOOLEAN /\ sent' = 0 /\ closed' = FALSE
  /\ got' = 0 /\ broken' = FALSE
  /\ UNCHANGED <<fd, result, table, others>>

Return(r) ==
  /\ pc' = "idle" /\ result' = r /\ fd' = NotOpen
  /\ table' = [h \in DOMAIN table \ {fd} |-> table[h]]

-----------------------------------------------------------------------------
(* connect_host.                                                           *)

\* The C library and the network take the lowest free numbers.
Lowest(used) == Min(0 .. Cardinality(used) \ used)
SocketIndices == { table[h].index : h \in { k \in DOMAIN table : table[k].device = "soc" } }
NewSocket == [device |-> "soc", index |-> Lowest(SocketIndices)]

ConnectHost ==
  /\ pc = "connect"
  /\ fd' = Lowest(DOMAIN table)
  /\ table' = [h \in DOMAIN table \cup {fd'} |-> IF h = fd' THEN NewSocket ELSE table[h]]
  /\ pc' = IF secure THEN "handshake" ELSE "send"
  /\ UNCHANGED <<secure, data, result, hostVars, got, others, broken>>

\* Mutant: the socket stays open when the connection fails.
ConnectFails_KeepsSocket ==
  /\ pc = "connect"
  /\ pc' = "idle" /\ result' = -1
  /\ table' = [h \in DOMAIN table \cup {Lowest(DOMAIN table)} |->
                 IF h \in DOMAIN table THEN table[h] ELSE NewSocket]
  /\ broken' = TRUE
  /\ UNCHANGED <<secure, fd, data, hostVars, got, others>>

\* There is no socket, the name is unknown, or the host does not answer.
ConnectFails ==
  /\ pc = "connect"
  /\ pc' = "idle" /\ result' = -1
  /\ broken' = TRUE
  /\ UNCHANGED <<secure, fd, data, table, hostVars, got, others>>

-----------------------------------------------------------------------------
(* send_request and read_response.                                         *)

\* Mutant: the answer is appended to the one before.
ResetData_Never == UNCHANGED data

ResetData == data' = <<>>

Received(n) ==
  /\ data' = data \o [i \in 1 .. n |-> [request |-> requests, piece |-> got + i]]
  /\ got' = got + n

\* A step that ends the request because something failed.
Fails(next) ==
  /\ pc' = next /\ broken' = TRUE
  /\ UNCHANGED <<secure, fd, result, table, hostVars, got, others>>

SendRequest ==
  /\ pc = "send"
  /\ \/ /\ pc' = "select" /\ ResetData
        /\ UNCHANGED <<secure, fd, result, table, hostVars, got, others, broken>>
     \/ Fails("fail") /\ UNCHANGED data

\* There is something to read on the socket: data, or the end of them.
Readable == got < sent \/ closed

\* The ready indices among those that select has net_select watch.  The other
\* sockets may be ready or not.
Ready(mine) ==
  LET index == table[fd].index
  IN  Watched(table, fd + 1, {fd}) \cap (IF mine THEN {index} ELSE {})

SelectReady ==
  /\ pc = "select"
  /\ fd \in Selected(table, fd + 1, Ready(Readable))
  /\ pc' = "recv"
  /\ UNCHANGED <<secure, fd, data, result, table, hostVars, got, others, broken>>

\* Mutant: after a timeout it waits again.
SelectTimeout_WaitsAgain == pc = "select" /\ Ready(Readable) = {} /\ UNCHANGED vars

\* The time is over and net_select has found nothing.
SelectTimeout ==
  /\ pc = "select"
  /\ Ready(Readable) = {}
  /\ pc' = "close"
  /\ broken' = (broken \/ ~ Readable)
  /\ UNCHANGED <<secure, fd, data, result, table, hostVars, got, others>>

\* An error of net_select is presented as a timeout.
SelectError == pc = "select" /\ Fails("close") /\ UNCHANGED data

\* Mutant: the headers count as well.
ResponseComplete_AllBytes(d) ==
  /\ Len(d) >= HeaderPieces /\ hasLength
  /\ Len(d) >= BodyPieces

\* Without a Content-Length an answer is never known to be complete.
ResponseComplete(d) ==
  /\ Len(d) >= HeaderPieces /\ hasLength
  /\ Len(d) - HeaderPieces >= BodyPieces

Recv ==
  /\ pc = "recv"
  /\ \E n \in 1 .. sent - got :
       /\ Received(n)
       /\ pc' = IF ResponseComplete(data') THEN "close" ELSE "select"
  /\ UNCHANGED <<secure, fd, result, table, hostVars, others, broken>>

RecvEof ==
  /\ pc = "recv"
  /\ got = sent /\ closed
  /\ pc' = "close"
  /\ UNCHANGED <<secure, fd, data, result, table, hostVars, got, others, broken>>

\* An error of recv, or no memory for what it returned: an answer ends here too.
RecvFails == pc = "recv" /\ Fails("close") /\ UNCHANGED data

-----------------------------------------------------------------------------
(* tls_request.                                                            *)

\* The host takes part.
TlsHandshake ==
  /\ pc = "handshake"
  /\ ~ closed
  /\ pc' = "tlsSend"
  /\ UNCHANGED <<secure, fd, data, result, table, hostVars, got, others, broken>>

\* The key or the certificate is not readable, the host refuses or closes.
TlsHandshakeFails == pc = "handshake" /\ Fails("fail") /\ UNCHANGED data

TlsSend ==
  /\ pc = "tlsSend"
  /\ \/ /\ pc' = "tlsRead" /\ ResetData
        /\ UNCHANGED <<secure, fd, result, table, hostVars, got, others, broken>>
     \/ Fails("fail") /\ UNCHANGED data

TlsRead ==
  /\ pc = "tlsRead"
  /\ \E n \in 1 .. sent - got : Received(n)
  /\ UNCHANGED <<pc, secure, fd, result, table, hostVars, others, broken>>

\* Mutant: the end of the connection is not an error, and it is read again.
TlsReadEof_ReadsAgain == pc = "tlsRead" /\ got = sent /\ closed /\ UNCHANGED vars

\* fd_recv makes the end of the connection an error: mbedtls_ssl_read returns.
TlsReadEof ==
  /\ pc = "tlsRead"
  /\ got = sent /\ closed
  /\ pc' = "close"
  /\ UNCHANGED <<secure, fd, data, result, table, hostVars, got, others, broken>>

\* An error of mbedtls_ssl_read ends an answer like its end; want of memory does not.
TlsReadFails == pc = "tlsRead" /\ (Fails("close") \/ Fails("fail")) /\ UNCHANGED data

-----------------------------------------------------------------------------
(* The end of http_request.                                                *)

\* strip_headers.
Body(d) == IF Len(d) >= HeaderPieces THEN SubSeq(d, HeaderPieces + 1, Len(d)) ELSE d

Close ==
  /\ pc = "close"
  /\ data' = Body(data)
  /\ Return(IF secure \/ data' # <<>> THEN 0 ELSE -1)
  /\ UNCHANGED <<secure, hostVars, got, others, broken>>

Fail ==
  /\ pc = "fail"
  /\ Return(-1)
  /\ UNCHANGED <<secure, data, hostVars, got, others, broken>>

-----------------------------------------------------------------------------
(* The host.                                                               *)

Asking == pc \in {"select", "recv", "tlsRead"}

HostSends ==
  /\ Asking
  /\ ~ closed /\ sent < AnswerPieces
  /\ sent' = sent + 1
  /\ UNCHANGED <<consoleVars, requests, hasLength, closed, got, others, broken>>

\* When it is done ("Connection: close"), or before.
HostCloses ==
  /\ Asking \/ pc = "handshake"
  /\ ~ closed
  /\ closed' = TRUE
  /\ broken' = (broken \/ sent < AnswerPieces)
  /\ UNCHANGED <<consoleVars, requests, hasLength, sent, got, others>>

-----------------------------------------------------------------------------
ConsoleStep ==
  \/ ConnectHost \/ ConnectFails
  \/ SendRequest \/ SelectReady \/ SelectTimeout \/ Recv \/ RecvEof
  \/ TlsSend \/ TlsRead \/ TlsReadEof
  \/ Close \/ Fail

Next ==
  \/ HttpRequest \/ ConsoleStep
  \/ SelectError \/ RecvFails
  \/ TlsHandshake \/ TlsHandshakeFails \/ TlsReadFails
  \/ HostSends \/ HostCloses

Spec == Init /\ [][Next]_vars

\* The main thread runs and its waits end when they can: connect and select have
\* timeouts.  Of the host nothing is assumed, but the handshake notices its end.
FairSpec ==
  /\ Spec
  /\ WF_vars(ConsoleStep)
  /\ WF_vars(closed /\ TlsHandshakeFails)

-----------------------------------------------------------------------------
TypeOK ==
  /\ pc \in {"idle", "connect", "send", "select", "recv", "handshake", "tlsSend", "tlsRead",
             "close", "fail"}
  /\ secure \in BOOLEAN /\ result \in {-1, 0}
  /\ data \in Seq(Pieces)
  /\ requests \in 0 .. MaxRequests /\ hasLength \in BOOLEAN
  /\ got \in 0 .. sent /\ sent \in 0 .. AnswerPieces
  /\ closed \in BOOLEAN /\ broken \in BOOLEAN

Answered == pc = "idle" /\ result = 0

\* An answer that http_request reports consists of what the host sent for this
\* request, in order and without a gap, although the HTTP_DATA may hold that of
\* the request before and a request can fail at any point.
FreshAnswer ==
  Answered => \E from \in 1 .. AnswerPieces + 1 :
    data = [i \in 1 .. got - from + 1 |-> [request |-> requests, piece |-> from + i - 1]]

\* A request succeeds with the whole body, with or without a Content-Length and
\* however the answer was cut into reads, unless the host stopped, stayed silent
\* or something failed: the reader never stops early, and select never overlooks
\* the socket among the others.
WholeAnswer ==
  (pc = "idle" /\ requests > 0 /\ ~ broken) => result = 0 /\ Len(data) = BodyPieces

\* No outcome leaves a socket open, or closes another one.
NoSocketLeft == pc = "idle" => table = others

\* A plain request comes back whatever the host does.
PlainReturns == (pc = "connect" /\ ~ secure) ~> pc = "idle"

\* A request over TLS has no timeout: it comes back when the host has closed.
TlsReturnsWhenClosed == (closed /\ secure) ~> pc = "idle"
=============================================================================
