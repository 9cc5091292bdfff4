--------------------------- MODULE HttpConnection ---------------------------
(***************************************************************************)
(* HTTP/1.1 connections: the read-handle-write loop of a connection        *)
(* (src/src/server/listener.rs), plain or TLS, the handler as the loop     *)
(* sees it (src/src/server/handler.rs), and the counters that all          *)
(* connections share (module Stats).                                       *)
(*                                                                         *)
(* What a client sends is a stream of pieces: each request is a request    *)
(* line, its headers and the pieces of its body.  TCP does not keep the    *)
(* borders: a read returns any number of the pieces that have arrived, and *)
(* what it returns is parsed from its first byte, wherever in a request    *)
(* that byte stands.                                                       *)
(***************************************************************************)
EXTENDS Stats, SequencesExt

CONSTANTS
  Conns,         \* the connections
  Bodies,        \* Bodies[c][i]: pieces of the body of the i-th request sent
                 \* on c; its client sends at most Len(Bodies[c]) requests
  MaxKeepalive,  \* MAX_KEEPALIVE_REQUESTS
  HeaderBuffer   \* MAX_HEADER_BUFFER, in pieces

ASSUME HttpConnectionAssumption ==
  /\ IsFiniteSet(Conns)
  /\ Buckets \in Nat \ {0}
  /\ Bodies \in [Conns -> Seq(Nat)]
  /\ {MaxKeepalive, HeaderBuffer} \subseteq Nat \ {0}
  /\ Latencies \subseteq Nat

VARIABLES
  pc,        \* pc[c]: where the task of connection c is
  sent,      \* sent[c]: requests the client has sent
  hung_up,   \* hung_up[c]: whether the client has closed its side
  wire,      \* wire[c]: pieces that have arrived and are not read yet
  requests,  \* requests[c]: the loop's counter
  buf,       \* buf[c]: what the last read returned
  result,    \* result[c]: HandlerResult of the request in hand
  answers,   \* answers[c]: for each response written, which request the
             \* bytes it answers belong to (0: they were no request), whether
             \* they are its line and headers, how much of its body was
             \* handled
  told,      \* told[c]: the Connection header of the last response
  exact      \* exact[c]: every read so far returned one whole request (history)

client == <<sent, hung_up>>
vars == <<stats, pc, client, wire, requests, buf, result, answers, told, exact>>

Piece == [request : Nat, part : {"line", "headers", "body"}]

Message(c, i) ==
  <<[request |-> i, part |-> "line"], [request |-> i, part |-> "headers"]>>
    \o [j \in 1..Bodies[c][i] |-> [request |-> i, part |-> "body"]]

(* A HandlerResult: keep_alive, the Connection header in its bytes         *)
(* ("tunnel": the bytes are the upstream's and the connection is spliced   *)
(* with it), and whether a request was handled.                            *)
Result(keep_alive, header) ==
  [keep_alive |-> keep_alive, header |-> header, handled |-> TRUE]

(* Mutant of BadRequest: the connection lives on.                          *)
BadRequest_Kept == [Result(TRUE, "keep-alive") EXCEPT !.handled = FALSE]

(* No request to handle, or nobody looked: the address is blocked.         *)
BadRequest == [Result(FALSE, "close") EXCEPT !.handled = FALSE]

NoAnswer == [request |-> 0, own |-> FALSE, body |-> 0]

Init ==
  /\ StatsInit
  /\ pc = [c \in Conns |-> "loop"]
  /\ sent = [c \in Conns |-> 0]
  /\ hung_up = [c \in Conns |-> FALSE]
  /\ wire = [c \in Conns |-> <<>>]
  /\ requests = [c \in Conns |-> 0]
  /\ buf = [c \in Conns |-> <<>>]
  /\ result = [c \in Conns |-> BadRequest]
  /\ answers = [c \in Conns |-> <<>>]
  /\ told = [c \in Conns |-> "keep-alive"]
  /\ exact = [c \in Conns |-> TRUE]

Goto(c, from, to) ==
  /\ pc[c] = from
  /\ pc' = [pc EXCEPT ![c] = to]

-----------------------------------------------------------------------------
(* The client                                                              *)

(* What it does matters while the loop runs.                               *)
Served(c) == pc[c] \notin {"tunnel", "closed"}

(* The next request arrives, also while another one is being answered.     *)
Send(c) ==
  /\ Served(c) /\ ~hung_up[c]
  /\ sent[c] < Len(Bodies[c])
  /\ sent' = [sent EXCEPT ![c] = @ + 1]
  /\ wire' = [wire EXCEPT ![c] = @ \o Message(c, sent[c] + 1)]
  /\ UNCHANGED <<stats, pc, hung_up, requests, buf, result, answers, told, exact>>

HangUp(c) ==
  /\ Served(c) /\ ~hung_up[c]
  /\ hung_up' = [hung_up EXCEPT ![c] = TRUE]
  /\ UNCHANGED <<stats, pc, sent, wire, requests, buf, result, answers, told, exact>>

-----------------------------------------------------------------------------
(* The head of the loop                                                    *)

(* The server gives up on the connection and says so.                      *)
Refuse(c) ==
  /\ Goto(c, "loop", "closed")
  /\ told' = [told EXCEPT ![c] = "close"]
  /\ answers' = [answers EXCEPT ![c] = Append(@, NoAnswer)]
  /\ UNCHANGED <<stats, client, wire, requests, buf, result, exact>>

TooManyRequests(c) == requests[c] >= MaxKeepalive /\ Refuse(c)

(* Mutant of ReadTimeout: only the end of the stream ends the read.        *)
ReadTimeout_Never(c) ==
  requests[c] < MaxKeepalive /\ hung_up[c] /\ Refuse(c)

(* Nothing arrived for DEFAULT_CLIENT_HEADER_TIMEOUT_S.                    *)
ReadTimeout(c) ==
  /\ requests[c] < MaxKeepalive
  /\ wire[c] = <<>>
  /\ ~hung_up[c]
  /\ Refuse(c)

(* The client is gone: the read returns 0, or an error that loses what had *)
(* arrived.                                                                *)
ReadEnd(c) ==
  /\ requests[c] < MaxKeepalive
  /\ hung_up[c]
  /\ Goto(c, "loop", "closed")
  /\ UNCHANGED <<stats, client, wire, requests, buf, result, answers, told, exact>>

(* One read, of whatever has arrived, and the call of handle.              *)
Read(c) ==
  /\ requests[c] < MaxKeepalive
  /\ Goto(c, "loop", "handle")
  /\ \E n \in 1..Len(wire[c]) :
       /\ buf' = [buf EXCEPT ![c] = SubSeq(wire[c], 1, n)]
       /\ wire' = [wire EXCEPT ![c] = SubSeq(@, n + 1, Len(@))]
  /\ requests' = [requests EXCEPT ![c] = @ + 1]
  /\ exact' = [exact EXCEPT ![c] =
       @ /\ \E i \in DOMAIN Bodies[c] : buf'[c] = Message(c, i)]
  /\ RequestBegins
  /\ UNCHANGED <<client, result, answers, told>>

-----------------------------------------------------------------------------
(* handle                                                                  *)

(* Mutant of Parses: the request line counts too.                          *)
Parses_WithLine(c) ==
  Len(buf[c]) >= 2 /\ buf[c][1].part = "line" /\ Len(buf[c]) <= HeaderBuffer

(* The buffer starts with a request line and all its headers, and no more  *)
(* than MAX_HEADER_BUFFER follow the line, the body included.              *)
Parses(c) ==
  /\ Len(buf[c]) >= 2
  /\ buf[c][1].part = "line"
  /\ Len(buf[c]) - 1 <= HeaderBuffer

(* Bytes from the middle of a request - the rest of a body, or headers -   *)
(* may read as a request line and headers, alone or with what follows      *)
(* them: whether they do is up to the client.                              *)
MayParse(c) ==
  /\ buf[c][1].part # "line"
  /\ Len(buf[c]) - 1 <= HeaderBuffer

Request(c) == Head(buf[c]).request

(* The pieces of the body the handler gets: those in the same buffer, as   *)
(* many as Content-Length says.                                            *)
Body(c) == Min({Len(buf[c]) - 2, Bodies[c][Request(c)]})

(* The answer to what is in the buffer.  (When its headers are bytes from  *)
(* the middle of a request its Content-Length is anything, and its body is *)
(* not looked at.)                                                         *)
Answer(c) ==
  IF ~result[c].handled THEN NoAnswer
  ELSE [request |-> Request(c), own |-> Parses(c),
        body |-> IF Parses(c) THEN Body(c) ELSE 0]

Header(keep_alive) == IF keep_alive THEN "keep-alive" ELSE "close"

(* The results of dispatch, in the order of its stages; ka: HTTP/1.1 and no *)
(* "Connection: close".  (No response is ever in the cache, which main     *)
(* disables, and no ACME challenge is ever stored.)                        *)

(* The address is blocked by the scan detector.                            *)
BlockedResult == Result(FALSE, "close")

(* /api/users: always closed, whatever its header says.                    *)
UserApiResult == Result(FALSE, "keep-alive")

(* The pages and /metrics say keep-alive, the other API responses close.   *)
ApiResults == {Result(FALSE, "keep-alive"), Result(FALSE, "close")}

(* To https, or to where a rewrite rule of server or location leads.       *)
RedirectResult(ka) == Result(ka, Header(ka))

(* No or wrong credentials.                                                *)
UnauthorizedResult(ka) == Result(ka, "keep-alive")

(* Over the limit_req of the location.                                     *)
LimitedResult == Result(FALSE, "close")

(* Content-Length over client_max_body_size: the header is the client's    *)
(* wish, the connection is closed.                                         *)
BodyTooLargeResult(ka) == Result(FALSE, Header(ka))

(* A return directive.                                                     *)
ReturnResult(ka) == Result(ka, Header(ka))

(* An upgrade, to be spliced with the upstream or failed.                  *)
WebSocketResults == {Result(FALSE, "tunnel"), Result(FALSE, "close")}

(* Mutant of LocationResult: the connection is always kept.                *)
LocationResult_Kept(ka) == Result(TRUE, Header(ka))

(* Files, proxy, upstream group or FastCGI, compressed or not.             *)
LocationResult(ka) == Result(ka, Header(ka))

Results ==
  (UNION {{BlockedResult, UserApiResult, RedirectResult(ka),
           UnauthorizedResult(ka), LimitedResult, BodyTooLargeResult(ka),
           ReturnResult(ka), LocationResult(ka)} : ka \in BOOLEAN})
    \cup ApiResults \cup WebSocketResults

(* What dispatch may return for what is in the buffer.                     *)
Outcomes(c) ==
  IF Parses(c) THEN Results
  ELSE {BadRequest} \cup (IF MayParse(c) THEN Results ELSE {})

(* Mutant of Handle: a request that is no HTTP leaves `active' as it is.   *)
Handle_Early(c) ==
  /\ Goto(c, "handle", "write")
  /\ \E r \in Outcomes(c) :
       /\ result' = [result EXCEPT ![c] = r]
       /\ IF r.handled THEN RequestEnds
          ELSE /\ requests_total' = requests_total + 1
               /\ UNCHANGED <<active, latency, reader, seen>>
  /\ UNCHANGED <<client, wire, requests, buf, answers, told, exact>>

(* dispatch returns its result, and the request is half recorded.          *)
Handle(c) ==
  /\ Goto(c, "handle", "write")
  /\ \E r \in Outcomes(c) : result' = [result EXCEPT ![c] = r]
  /\ RequestEnds
  /\ UNCHANGED <<client, wire, requests, buf, answers, told, exact>>

-----------------------------------------------------------------------------
(* The end of the loop                                                     *)

(* The time is recorded and the response written; the connection becomes a *)
(* tunnel, lives on or is closed.                                          *)
Write(c) ==
  /\ pc[c] = "write"
  /\ pc' = [pc EXCEPT ![c] = IF result[c].header = "tunnel" THEN "tunnel"
                             ELSE IF result[c].keep_alive THEN "loop"
                             ELSE "closed"]
  /\ told' = [told EXCEPT ![c] = result[c].header]
  /\ answers' = [answers EXCEPT ![c] = Append(@, Answer(c))]
  /\ buf' = [buf EXCEPT ![c] = <<>>]
  /\ result' = [result EXCEPT ![c] = BadRequest]
  /\ \E us \in Latencies : CountLatency(us)
  /\ UNCHANGED <<client, wire, requests, exact>>

(* The client is gone before the response is out.                          *)
WriteFails(c) ==
  /\ hung_up[c]
  /\ Goto(c, "write", "closed")
  /\ buf' = [buf EXCEPT ![c] = <<>>]
  /\ result' = [result EXCEPT ![c] = BadRequest]
  /\ \E us \in Latencies : CountLatency(us)
  /\ UNCHANGED <<client, wire, requests, answers, told, exact>>

(* Either side of the tunnel closes.                                       *)
TunnelEnds(c) ==
  /\ Goto(c, "tunnel", "closed")
  /\ UNCHANGED <<stats, client, wire, requests, buf, result, answers, told, exact>>

-----------------------------------------------------------------------------

(* One task per connection; the read has a deadline.                       *)
ServerStep(c) ==
  \/ TooManyRequests(c) \/ ReadTimeout(c) \/ ReadEnd(c) \/ Read(c)
  \/ Handle(c) \/ Write(c) \/ WriteFails(c)

Connections == <<pc, client, wire, requests, buf, result, answers, told, exact>>

Reader ==
  (ReadTotal \/ ReadBucket \/ Report) /\ UNCHANGED Connections

Next ==
  \/ \E c \in Conns : ServerStep(c) \/ Send(c) \/ HangUp(c) \/ TunnelEnds(c)
  \/ Reader

Spec == Init /\ [][Next]_vars

(* The tasks run; a client that does not read its response goes away (the  *)
(* write has no deadline).  Nothing ends a tunnel.                         *)
FairSpec == Spec /\ \A c \in Conns : WF_vars(ServerStep(c))

-----------------------------------------------------------------------------
(* Properties                                                              *)

Stages == {"loop", "handle", "write", "tunnel", "closed"}

TypeOK ==
  /\ StatsTypeOK
  /\ pc \in [Conns -> Stages]
  /\ hung_up \in [Conns -> BOOLEAN]
  /\ requests \in [Conns -> 0..MaxKeepalive]
  /\ \A c \in Conns : sent[c] \in 0..Len(Bodies[c])
  /\ \A c \in Conns : {wire[c], buf[c]} \subseteq Seq(Piece)
  /\ \A c \in Conns : result[c] \in Results \cup {BadRequest}
  /\ \A c \in Conns :
       answers[c] \in Seq([request : 0..sent[c], own : BOOLEAN, body : Nat])
  /\ told \in [Conns -> {"keep-alive", "close", "tunnel"}]
  /\ exact \in [Conns -> BOOLEAN]

At(stage) == Cardinality({c \in Conns : pc[c] = stage})

(* Stats: however the requests of the connections interleave, and whatever *)
(* ends them, none is counted twice and none is missed: the gauge `active' *)
(* always comes back down and is at any moment the number of requests in   *)
(* the handler (which is not what it is shown as: see ActiveIsOpen), the   *)
(* total is what the connections have read and passed on, the histogram    *)
(* lags by the requests between the two counters.                          *)
EveryRequestCounted ==
  /\ active = At("handle")
  /\ requests_total + At("handle") = SumFunction(requests)
  /\ SumFunction(latency) + At("write") = requests_total

(* stats/mod.rs: "active: current open connections", on the dashboard      *)
(* "Active Connections".  An open connection that has sent a request       *)
(* counts.                                                                 *)
ActiveIsOpen ==
  Cardinality({c \in Conns : pc[c] # "closed" /\ requests[c] > 0}) <= active

(* However the stream is cut into reads, and whatever its bytes say: each  *)
(* request is handled at most once as what it is, after all requests sent  *)
(* before it and with no bytes of another one as its body; an answer to    *)
(* bytes from the middle of a request, taken for a request, is given only  *)
(* when a read was not exactly one request; after bytes that are no        *)
(* request nothing is handled on that connection.                          *)
AnswersInOrder ==
  \A c \in Conns : \A k \in DOMAIN answers[c] :
    LET answer == answers[c][k]
    IN  \/ answer = NoAnswer /\ k = Len(answers[c])
        \/ /\ answer.request > 0
           /\ \A j \in 1..k - 1 : answers[c][j].request <= answer.request
           /\ ~answer.own => ~exact[c]
           /\ answer.own =>
                /\ answer.body <= Bodies[c][answer.request]
                /\ \A j \in 1..k - 1 : answers[c][j].request < answer.request

(* As long as each read returns one whole request, each is handled with    *)
(* its whole body, up to MAX_HEADER_BUFFER of headers and body together.   *)
WholeRequestsHandled ==
  \A c \in Conns : exact[c] =>
    \A k \in DOMAIN answers[c] \cap 1..requests[c] :
      1 + Bodies[c][k] <= HeaderBuffer =>
        answers[c][k] = [request |-> k, own |-> TRUE, body |-> Bodies[c][k]]

(* After a response that says "Connection: close" the server reads nothing *)
(* more from that connection.                                              *)
CloseIsKept ==
  [][\A c \in Conns : told[c] = "close" => requests'[c] = requests[c]]_vars

(* Every connection ends, or is handed to an upstream: also with a client  *)
(* that sends nothing, or sends requests without an end.                   *)
ConnectionEnds ==
  \A c \in Conns : pc[c] = "loop" ~> pc[c] \in {"closed", "tunnel"}

(* MAX_HEADER_BUFFER: "Max bytes to buffer before the request headers are  *)
(* fully parsed.  If we haven't seen \r\n\r\n within this window, the      *)
(* connection is dropped."  A request whose headers have not all arrived   *)
(* is refused only when it is over the window.                             *)
HeadersAreBuffered ==
  \A c \in Conns :
    pc[c] = "write" /\ ~result[c].handled /\ Head(buf[c]).part = "line" =>
      Len(buf[c]) > HeaderBuffer
=============================================================================
