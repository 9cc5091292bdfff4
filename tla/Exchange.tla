------------------------------ MODULE Exchange ------------------------------
(***************************************************************************)
(* One exchange with a backend: the request is sent, and the answer read   *)
(* piece by piece until it is complete, the backend closes, or nothing     *)
(* comes for too long (src/src/proxy/mod.rs, src/src/fastcgi/mod.rs,       *)
(* src/src/websocket/mod.rs).  Each exchange has a connection of its own:  *)
(* none is ever put into the pool, as the header return_to_pool is called  *)
(* for has been stripped by then (proxy/mod.rs:295).                       *)
(***************************************************************************)
EXTENDS Integers, FiniteSets, Sequences, SequencesExt

CONSTANTS
  Messages,    \* Messages[k]: what backends of kind k answer
  Cap,         \* the proxy stops reading after this many pieces (64 MiB)
  MaxHead,     \* longest head of a WebSocket handshake
  Chunk,       \* bytes of a request body in one FastCGI record (65000)
  RecordWidth, \* the length of a record wraps here (2^16)
  Buffer       \* bytes of a body a connection takes although nobody reads them

VARIABLE exchange   \* the exchange of the request at hand

BackendKinds == {"proxy", "fastcgi", "websocket"}

(* The wire of an HTTP answer is a sequence of pieces: "h" a part of the   *)
(* head, "H" its end, CR LF CR LF ("N": LF LF), "d" some of the body; in a *)
(* chunked body "size" is the size of a chunk, "zero" ends in the          *)
(* characters 0 CR LF, and "crlf" begins with CR LF.  That of a FastCGI    *)
(* answer is a sequence of records, whose contents are such pieces.        *)
(* length: its Content-Length, or None; odd: its head is refused by        *)
(* httparse; endless: its last piece comes again and again.                *)
Piece == {"h", "H", "N", "d", "size", "zero", "crlf"}
Record == [type : {"stdout", "stderr", "other", "end"}, content : Seq(Piece)]
None == -1
IsMessage(m, wires) ==
  /\ m.wire \in wires /\ m.length \in Nat \cup {None}
  /\ {m.chunked, m.endless, m.odd} \subseteq BOOLEAN

(* The contents of the STDOUT records.                                     *)
Stdout(records) ==
  FlattenSeq([k \in DOMAIN records |->
                IF records[k].type = "stdout" THEN records[k].content ELSE <<>>])

(* Data is what comes behind the head.                                     *)
DataBehind(pieces, ends) ==
  \A i \in DOMAIN pieces : pieces[i] = "d" => \E j \in 1..i - 1 : pieces[j] \in ends

(* END_REQUEST is the last record of a request.                            *)
ASSUME ExchangeAssumption ==
  /\ DOMAIN Messages = BackendKinds
  /\ {Cap, MaxHead, Buffer} \subseteq Nat
  /\ RecordWidth \in Nat /\ Chunk \in 1..RecordWidth - 1
  /\ \A m \in Messages["proxy"] \cup Messages["websocket"] :
       IsMessage(m, Seq(Piece)) /\ DataBehind(m.wire, {"H"})
  /\ \A m \in Messages["fastcgi"] :
       /\ IsMessage(m, Seq(Record)) /\ DataBehind(Stdout(m.wire), {"H", "N"})
       /\ \A k \in DOMAIN m.wire : m.wire[k].type = "end" => k = Len(m.wire)

NoMessage == [status |-> "", length |-> None, chunked |-> FALSE, odd |-> FALSE,
              endless |-> FALSE, wire |-> <<>>]
NoResult == [ok |-> FALSE, body |-> <<>>]

(* at: how far the exchange is; body: bytes of the request body, the       *)
(* CONTENT_LENGTH of a FastCGI request; stdin: those in its STDIN records, *)
(* to the empty one; got: pieces read; come: pieces that arrived and are   *)
(* not read yet; end: what the backend does: "open", "closed", or          *)
(* "stalled", which is to read nothing and to send nothing until the time  *)
(* for a read is over.                                                     *)
NoExchange ==
  [at |-> "none", kind |-> "proxy", msg |-> NoMessage, body |-> 0, stdin |-> 0,
   got |-> 0, come |-> 0, end |-> "open", result |-> NoResult]

Begun(kind, body) == [NoExchange EXCEPT !.at = "send", !.kind = kind, !.body = body]
Ended(result) == exchange' = [exchange EXCEPT !.at = "ended", !.result = result]

(* Mutant of Records: the body is cut where the length of a record wraps.   *)
Records_Width(n) ==
  Append([k \in 1..(n + RecordWidth - 1) \div RecordWidth |->
            (IF k * RecordWidth <= n THEN RecordWidth ELSE n % RecordWidth) % RecordWidth], 0)

(* The lengths of the STDIN records for n bytes: body.chunks, make_record. *)
Records(n) ==
  Append([k \in 1..(n + Chunk - 1) \div Chunk |->
            (IF k * Chunk <= n THEN Chunk ELSE n % Chunk) % RecordWidth], 0)

(* An empty record ends the body for the application.                      *)
Stdin(records) ==
  LET end == SelectInSeq(records, LAMBDA n : n = 0)
  IN FoldLeft(LAMBDA a, b : a + b, 0, SubSeq(records, 1, end - 1))

Sent(stdin) ==
  \E m \in Messages[exchange.kind] :
    exchange' = [exchange EXCEPT !.at = "read", !.msg = m, !.stdin = stdin]

(* Connecting is under a time-out, and so is the writing of the head of a  *)
(* request, which is all the proxy and the handshake send: proxy_pass      *)
(* sends no body, whatever the client sent (server/handler.rs:417).        *)
Send ==
  /\ exchange.at = "send"
  /\ \/ Ended(NoResult)
     \/ exchange.kind # "fastcgi" /\ Sent(0)
     \/ exchange.kind = "fastcgi" /\ exchange' = [exchange EXCEPT !.at = "write"]

(* Nobody reads what is still to be written: the application is busy, hangs,*)
(* or waits itself for its answer to be read, which is not begun before.   *)
Held == exchange.at = "write" /\ exchange.end = "stalled" /\ exchange.body > Buffer

(* The writes of a FastCGI request have no time-out (fastcgi/mod.rs:88-103).*)
Write ==
  /\ exchange.at = "write" /\ ~Held
  /\ Ended(NoResult) \/ Sent(Stdin(Records(exchange.body)))

-----------------------------------------------------------------------------
(* The backend                                                             *)

Silent == exchange.at = "read" /\ exchange.come = 0 /\ exchange.end = "open"

BackendSends ==
  /\ Silent
  /\ LET rest == Len(exchange.msg.wire) - exchange.got
         most == IF exchange.kind = "fastcgi" \/ exchange.msg.endless THEN 1 ELSE rest IN
     /\ rest > 0 \/ exchange.msg.endless
     /\ \E n \in 1..most : exchange' = [exchange EXCEPT !.come = n]

(* It closes the connection: when it has sent all it has, or before.       *)
BackendCloses == Silent /\ exchange' = [exchange EXCEPT !.end = "closed"]
BackendStalls ==
  /\ Silent \/ (exchange.at = "write" /\ exchange.end = "open")
  /\ exchange' = [exchange EXCEPT !.end = "stalled"]
BackendStep == BackendSends \/ BackendCloses \/ BackendStalls

-----------------------------------------------------------------------------
(* What the answer read so far amounts to                                  *)

Where(pieces, p) == SelectInSeq(pieces, LAMBDA q : q = p)
BodyOf(pieces) == SubSeq(pieces, Where(pieces, "H") + 1, Len(pieces))

(* Mutant of IsComplete: the length is counted from the end of the headers,*)
(* without the blank line.                                                 *)
IsComplete_NoBlankLine(m, pieces) ==
  /\ Where(pieces, "H") # 0
  /\ IF m.length # None THEN Len(pieces) >= Where(pieces, "H") - 1 + m.length
     ELSE m.chunked /\ \E i \in 1..Len(pieces) - 1 : pieces[i] = "zero" /\ pieces[i + 1] = "crlf"

(* is_response_complete.  The end of a chunked answer is searched anywhere.*)
IsComplete(m, pieces) ==
  /\ Where(pieces, "H") # 0
  /\ IF m.length # None THEN Len(pieces) >= Where(pieces, "H") + m.length
     ELSE m.chunked /\ \E i \in 1..Len(pieces) - 1 : pieces[i] = "zero" /\ pieces[i + 1] = "crlf"

(* parse_proxy_response: whatever has come is the answer, once it has a    *)
(* head; the headers about the framing are dropped but for Content-Length. *)
ProxyResult(m, pieces) ==
  IF Where(pieces, "H") = 0 THEN NoResult
  ELSE [ok |-> TRUE, body |-> BodyOf(pieces)]

(* upgrade_to_websocket: only 101 is passed on, with what came after it.   *)
WebSocketResult(m, pieces) ==
  IF m.status = "101" THEN [ok |-> TRUE, body |-> BodyOf(pieces)] ELSE NoResult

(* parse_cgi_response, on the contents of the STDOUT records: CR LF CR LF  *)
(* ends the head, LF LF only where there is none.                          *)
CgiResult(m, pieces) ==
  IF Where(pieces, "H") # 0 THEN [ok |-> TRUE, body |-> BodyOf(pieces)]
  ELSE IF Where(pieces, "N") # 0
  THEN [ok |-> TRUE, body |-> SubSeq(pieces, Where(pieces, "N") + 1, Len(pieces))]
  ELSE NoResult

-----------------------------------------------------------------------------
(* The loops that read                                                     *)

Least(a, b) == IF a < b THEN a ELSE b
Got == SubSeq(exchange.msg.wire, 1, exchange.got)
GotNow == SubSeq(exchange.msg.wire, 1, Least(exchange.got + exchange.come, Len(exchange.msg.wire)))
MoreToRead == exchange' = [exchange EXCEPT !.got = Len(GotNow), !.come = 0]
EndsWith(result) ==
  exchange' = [exchange EXCEPT !.got = Len(GotNow), !.come = 0, !.at = "ended", !.result = result]

(* Mutant of ReadProxy: without the limit on the length of an answer.       *)
ReadProxy_NoCap ==
  /\ exchange.kind = "proxy" /\ exchange.come > 0
  /\ IF IsComplete(exchange.msg, GotNow)
     THEN EndsWith(ProxyResult(exchange.msg, GotNow)) ELSE MoreToRead

ReadProxy ==
  /\ exchange.kind = "proxy" /\ exchange.come > 0
  /\ IF IsComplete(exchange.msg, GotNow) \/ Len(GotNow) > Cap
     THEN EndsWith(ProxyResult(exchange.msg, GotNow)) ELSE MoreToRead

ReadWebSocket ==
  /\ exchange.kind = "websocket" /\ exchange.come > 0
  /\ IF Where(GotNow, "H") # 0 THEN EndsWith(WebSocketResult(exchange.msg, GotNow))
     ELSE IF Len(GotNow) > MaxHead THEN EndsWith(NoResult) ELSE MoreToRead

(* One record.  Only END_REQUEST ends the loop; what else there is besides *)
(* STDOUT, and padding, is passed over.                                    *)
ReadRecord ==
  /\ exchange.kind = "fastcgi" /\ exchange.come > 0
  /\ IF Last(GotNow).type = "end" THEN EndsWith(CgiResult(exchange.msg, Stdout(GotNow)))
     ELSE MoreToRead

(* The end of the connection ends an answer of the proxy, and is an error  *)
(* for the others.                                                         *)
ReadEnd ==
  /\ exchange.end = "closed"
  /\ Ended(IF exchange.kind = "proxy" THEN ProxyResult(exchange.msg, Got) ELSE NoResult)

ReadTimeout == exchange.end = "stalled" /\ Ended(NoResult)

ExchangeStep ==
  \/ Send
  \/ Write
  \/ exchange.at = "read" /\ (ReadProxy \/ ReadWebSocket \/ ReadRecord \/ ReadEnd \/ ReadTimeout)

-----------------------------------------------------------------------------
(* Properties                                                              *)

(* An answer that says, by the rules of its protocol, where it ends: its   *)
(* head does, and its body is as long as it says or is chunked, not both.  *)
SelfDelimited ==
  LET w == exchange.msg.wire IN
  /\ w # <<>>
  /\ CASE exchange.kind = "proxy" ->
            /\ Where(w, "H") # 0
            /\ IF exchange.msg.length # None THEN exchange.msg.length = Len(BodyOf(w))
               ELSE exchange.msg.chunked /\ \E i \in 1..Len(w) - 1 :
                      i + 1 = Len(w) /\ w[i] = "zero" /\ w[i + 1] = "crlf"
       [] exchange.kind = "fastcgi" -> Last(w).type = "end"
       [] OTHER -> Last(w) = "H"

(* Data that reads like the last chunk before there is one.                *)
LooksLikeEnd ==
  LET w == exchange.msg.wire IN
  exchange.msg.chunked /\ \E i \in 1..Len(w) - 2 : w[i] = "zero" /\ w[i + 1] = "crlf"

CutShort == exchange.end = "closed" /\ exchange.got < Len(exchange.msg.wire)

(* How many pieces of data a backend sends as the body of its answer.      *)
DataIn(pieces) == Cardinality({i \in DOMAIN pieces : pieces[i] = "d"})
DataSent ==
  LET w == exchange.msg.wire IN
  IF exchange.kind # "fastcgi" THEN DataIn(w)
  ELSE Cardinality(UNION {{<<k, i>> : i \in {j \in DOMAIN w[k].content : w[k].content[j] = "d"}} :
                            k \in {n \in DOMAIN w : w[n].type = "stdout"}})

(* Output with two ends of a head: the later one is taken when it is the   *)
(* one of CR LF, although the code compares their places (fastcgi/         *)
(* mod.rs:266).                                                            *)
TwoEnds == LET out == Stdout(exchange.msg.wire) IN 0 \notin {Where(out, "N"), Where(out, "H")}

(* proxy/mod.rs, fastcgi/mod.rs: an answer that is taken has the whole     *)
(* body the backend sent, in whichever pieces it came: with FastCGI always,*)
(* between records of other types, and also when the connection breaks;    *)
(* with the proxy unless the backend closed too early, the answer is       *)
(* longer than the limit or than it says, or a chunk reads like the last   *)
(* one.  And when an answer says where it ends, nobody waits for more.     *)
AnswerIsWhole ==
  LET w == exchange.msg.wire IN
  /\ exchange.at = "ended" /\ exchange.result.ok /\ ~exchange.msg.endless =>
       CASE exchange.kind = "fastcgi" ->
              exchange.got = Len(w) /\ (~TwoEnds => DataIn(exchange.result.body) = DataSent)
         [] exchange.kind = "proxy" /\ ~CutShort /\ Len(w) <= Cap /\ ~LooksLikeEnd ->
              exchange.msg.length = None \/ exchange.msg.length >= Len(BodyOf(w)) =>
                DataIn(exchange.result.body) = DataSent
         [] OTHER -> TRUE
  /\ exchange.at = "read" /\ SelfDelimited => exchange.got < Len(w)
=============================================================================
