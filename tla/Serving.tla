------------------------------ MODULE Serving ------------------------------
(***************************************************************************)
(* From the configuration text to the answer: the configuration is read,   *)
(* then one request is routed (dispatch in src/src/server/handler.rs) and, *)
(* where a file answers it, looked up and read step by step                *)
(* (src/src/server/static_files.rs) while others change the files, or      *)
(* asked of a backend (module Exchange).                                   *)
(***************************************************************************)
EXTENDS Routing, Exchange

CONSTANTS
  Requests,    \* the requests to consider
  Served,      \* bound: the texts for which a request comes
  Zone,        \* Zone[w]: the zone a word of limit_req or limit_req_zone names
  Rates,       \* words of limit_req_zone that parse_rate accepts
  Bytes,       \* Bytes[w]: the number of bytes a size w stands for
  Decoded,     \* Decoded[w]: the path w percent-decoded, <<>> when it cannot be
  Disk,        \* the files at first: a function from paths to entries
  Outside,     \* paths that resolve to a place outside their root
  Internal,    \* words of proxy_pass whose host is loopback, private or the like
  TextTypes,   \* last pieces of the paths that gzip_types covers
  ErrorPage,   \* bytes in the body of an error answer
  U64,         \* numbers of bytes wrap here
  MaxSize,     \* bound: the size a file may change to
  MaxChanges   \* bound: how often a file changes

(* What else an answer can be of than a file of this name.                  *)
Marks == {"redirect", "error", "head", "not modified", "return", "backend", "tunnel"}

(* The numbers of a request and of a file have been read into unsigned     *)
(* integers; -1 stands for one that is left out.                           *)
ASSUME ServingAssumption ==
  /\ {ErrorPage, MaxSize, MaxChanges} \subseteq Nat /\ U64 \in Nat \ {0}
  /\ \A r \in Requests : {r.length, r.behind} \subseteq Nat /\ {r.range.from, r.range.to} \subseteq Nat \cup {-1}
  /\ \A p \in DOMAIN Disk : /\ Disk[p] \in [kind : {"file", "dir"}, size : Nat, mtime : Nat]
                           /\ Last(p) \notin Marks

VARIABLES
  files,   \* the file system: changed by others
  changes, \* how many changes there were
  job      \* the request at hand, and how far it is

vars == <<configVars, files, changes, job, exchange>>

Gone == [kind |-> "none", size |-> 0, mtime |-> 0]
Entry(p) == IF p \in DOMAIN files THEN files[p] ELSE Gone

(* at: the next step; came: how many bytes came with the head of the       *)
(* request, behind it; path, server, location: where the request is        *)
(* routed; file: the path looked at; n: the try_files or index entry to    *)
(* try next; meta: the metadata read; part: the range to send; page: the   *)
(* answer an error page is looked up for; raced: the file changed after    *)
(* its metadata was read (history).                                        *)
Idle == [at |-> "idle", req |-> "none", came |-> 0, path |-> "", server |-> 0, location |-> 0, file |-> <<>>,
         n |-> 1, meta |-> Gone, part |-> <<>>, page |-> <<>>, raced |-> FALSE, answer |-> <<>>]

Init == ConfigInit /\ files = Disk /\ changes = 0 /\ job = Idle /\ exchange = NoExchange

Http == Config.inner[1]
Server == Servers[job.server]
Location == IF job.location = 0 THEN Block(<<>>, <<"/">>) ELSE Server.inner[job.location]

(* A directive of the location, or else of the server.                     *)
Inherited(d, default) == Setting(Location, d, Setting(Server, d, default))

(* An answer: status, Content-Length, bytes in the body, what it is of.    *)
(* The Content-Length is None when it has no such header.                  *)
Answer(status, length, body, of) == [status |-> status, length |-> length, body |-> body, of |-> of]
ErrorAnswer(status) == Answer(status, ErrorPage, ErrorPage, "error")
Job(j) == job' = j /\ UNCHANGED <<configVars, files, changes, exchange>>

(* parse_h1_response: over HTTP/2 an answer whose head cannot be parsed is *)
(* itself the body of a 200.  Odd heads come from backends.                *)
Bridged(a) ==
  IF job.req.h2 /\ a.of = "backend" /\ exchange.msg.odd
  THEN [a EXCEPT !.status = "200", !.length = None, !.body = @ + 1] ELSE a
Finish(a) == Job([job EXCEPT !.at = "done", !.answer = Bridged(a)])

(* One read brings the head of a request, and whatever is there by then of *)
(* its body and of what the client sent behind it; HTTP/2 reads the body   *)
(* to its end first.                                                       *)
Arrive ==
  /\ parsed = "ok" /\ text \in Served /\ Servers # <<>> /\ job.at = "idle"
  /\ \E r \in Requests : \E n \in IF r.h2 THEN {r.length} ELSE 0..r.length + r.behind :
       Job([Idle EXCEPT !.at = "route", !.req = r, !.path = r.path, !.came = n])

(* select_server, the redirect to HTTPS, the rewrites of the server,       *)
(* select_location, the rewrites of the location.  A rewrite of the        *)
(* location leaves the location as it is, whatever its flag.               *)
Route ==
  LET s == SelectServer(Servers, job.req.host)
      srv == Servers[s]
      first == Rewrite(srv, job.path)
      l == SelectLocation(srv.inner, first.path)
      second == IF l = 0 THEN [status |-> "", path |-> first.path]
                ELSE Rewrite(srv.inner[l], first.path)
  IN /\ job.at = "route"
     /\ CASE Setting(srv, "ssl_redirect", <<"off">>) # <<"off">> /\ ~job.req.tls ->
               Finish(Answer("301", 0, 0, "redirect"))
          [] Setting(srv, "ssl_redirect", <<"off">>) = <<"off">> \/ job.req.tls ->
               IF first.status # "" THEN Finish(Answer(first.status, 0, 0, "redirect"))
               ELSE IF second.status # "" THEN Finish(Answer(second.status, 0, 0, "redirect"))
               ELSE Job([job EXCEPT !.at = "authorize", !.server = s, !.location = l,
                                    !.path = second.path])

(* The user file of the location, or else of the server.                   *)
Authorize ==
  LET file == IF Location.realm # "" THEN Location ELSE Server IN
  /\ job.at = "authorize"
  /\ IF file.realm = "" \/ CheckBasicAuth(file.user_file, job.req.credentials)
     THEN Job([job EXCEPT !.at = "limit"])
     ELSE Finish(Answer("401", 16, 16, "error"))

(* The zone of a limit_req that names one; limit_req/mod.rs decides.       *)
ZonesOf(lists) == {Zone[w] : w \in ToSet(FlattenSeq(lists)) \cap DOMAIN Zone}
Zones == SelectSeq(AllOf(Http, "limit_req_zone"), LAMBDA l : ToSet(l) \cap Rates # {})
Limited == LET own == ZonesOf(<<Setting(Location, "limit_req", <<>>)>>)
               zones == IF own # {} THEN own ELSE ZonesOf(<<Setting(Server, "limit_req", <<>>)>>)
           IN zones # {} /\ zones \subseteq ZonesOf(Zones)
Limit ==
  /\ job.at = "limit"
  /\ \/ Job([job EXCEPT !.at = "dispatch"])
     \/ Limited /\ Finish(Answer("429", 19, 21, "error"))

(* client_max_body_size, return, and the handler of the location.          *)
MaxBody == Bytes[Inherited("client_max_body_size", Setting(Http, "client_max_body_size", <<"1m">>))[1]]

(* The backend of the location.  A proxy_pass to an internal address needs *)
(* proxy_allow_internal, except for a WebSocket.                           *)
Allowed ==
  \/ Location.handler.words[1] \notin Internal
  \/ \E e \in ToSet(Location.handler.own) : e = <<"proxy_allow_internal", <<"on">>>>
Begin(kind, body) ==
  /\ exchange' = Begun(kind, body)
  /\ job' = [job EXCEPT !.at = "exchange"]
  /\ UNCHANGED <<configVars, files, changes>>
(* body_raw: what one read brought, cut at the Content-Length.             *)
BodyRaw == Least(job.came, job.req.length)
Ask ==
  \/ Location.handler.kind = "proxy_pass" /\ job.req.websocket /\ Begin("websocket", 0)
  \/ /\ Location.handler.kind = "proxy_pass" /\ ~job.req.websocket
     /\ IF Allowed THEN Begin("proxy", 0)
        ELSE Job([job EXCEPT !.at = "compress", !.answer = ErrorAnswer("502")])
  \/ Location.handler.kind = "fastcgi_pass" /\ Begin("fastcgi", BodyRaw)

Dispatch ==
  LET return == Inherited("return", <<>>)
      text_body == IF Len(return) = 2 /\ return[1] \in {"200", "404"} THEN ErrorPage ELSE 0 IN
  /\ job.at = "dispatch"
  /\ CASE job.req.length > MaxBody -> Finish(Answer("413", 22, 21, "error"))
       [] job.req.length <= MaxBody /\ return # <<>> ->
            Finish(Answer(return[1], text_body, text_body, "return"))
       [] job.req.length <= MaxBody /\ return = <<>> /\ Location.handler.kind = "static" ->
            Job([job EXCEPT !.at = "resolve"])
       [] OTHER -> Ask

-----------------------------------------------------------------------------
(* static_files.rs.  The error page of an answer is looked up in the same  *)
(* way, in the server's root, without the location and the headers.        *)

Page == job.page # <<>>
Block1 == IF Page THEN Server ELSE Location
FromBoth(d, default) == Setting(Block1, d, Setting(Server, d, default))
RootDir == FromBoth("root", <<>>)
IndexFiles == FromBoth("index", <<"index.html", "index.htm">>)
TryFiles == Setting(Location, "try_files", <<>>)
HasTryFiles == ~Page /\ AllOf(Location, "try_files") # <<>>
Method == IF Page THEN "GET" ELSE job.req.method

(* A static answer: an error is replaced by the server's page for it, when *)
(* that is found.                                                          *)
PagesFor(status) == SelectSeq(AllOf(Server, "error_page"), LAMBDA p : status \in ToSet(p[1]))
Serve(a) ==
  CASE Page -> Job([job EXCEPT !.at = "compress",
         !.answer = IF a.status = "200" THEN [a EXCEPT !.status = job.page[1].status] ELSE job.page[1]])
    [] ~Page /\ a.of = "error" /\ PagesFor(a.status) # <<>> ->
         Job([job EXCEPT !.at = "resolve", !.path = PagesFor(a.status)[1][2], !.page = <<a>>, !.n = 1])
    [] OTHER -> Job([job EXCEPT !.at = "compress", !.answer = a])
Fail(status) == Serve(ErrorAnswer(status))

(* jail_path: the path under the root; repeated and closing slashes do not *)
(* count.                                                                  *)
Jail(path) == RootDir \o SelectSeq(path, LAMBDA piece : piece # "/")
LookAt(file) == Job([job EXCEPT !.at = "directory", !.file = file, !.n = 1])

Resolve ==
  LET decoded == Decoded[job.path] IN
  /\ job.at = "resolve"
  /\ CASE RootDir = <<>> -> Fail("500")
       [] RootDir # <<>> /\ decoded = <<>> -> Fail("400")
       [] RootDir # <<>> /\ decoded # <<>> /\ HasTryFiles -> Job([job EXCEPT !.at = "try"])
       [] OTHER -> LookAt(Jail(decoded))

(* try_files: the first entry that exists, or that is a status (of an      *)
(* error) or a name.                                                       *)
Try ==
  LET entry == TryFiles[job.n]
      file == Jail(IF entry \in {"$uri", "$uri/"} THEN Decoded[job.path] ELSE Spell[entry])
  IN /\ job.at = "try"
     /\ IF job.n > Len(TryFiles) THEN Fail("404")
        ELSE IF Spell[entry][1] = "=" THEN Fail(Spell[entry][2])
        ELSE IF Spell[entry][1] = "@" THEN Fail("404")
        ELSE IF Entry(file).kind # "none" THEN LookAt(file)
        ELSE Job([job EXCEPT !.n = @ + 1])

(* serve_path: a directory is answered by its first index file.            *)
Directory ==
  /\ job.at = "directory"
  /\ Job([job EXCEPT !.at = IF Entry(job.file).kind = "dir" THEN "index" ELSE "exists"])

Index ==
  /\ job.at = "index"
  /\ IF job.n > Len(IndexFiles) THEN Fail("403")
     ELSE LET file == Append(job.file, IndexFiles[job.n]) IN
          IF Entry(file).kind = "file" THEN Job([job EXCEPT !.at = "exists", !.file = file])
          ELSE Job([job EXCEPT !.n = @ + 1])

Exists ==
  /\ job.at = "exists"
  /\ IF Entry(job.file).kind = "file" THEN Job([job EXCEPT !.at = "within"]) ELSE Fail("404")

(* assert_within_root; it also fails when the file is gone by now.         *)
Within ==
  /\ job.at = "within"
  /\ IF Entry(job.file).kind = "none" \/ job.file \in Outside THEN Fail("403")
     ELSE Job([job EXCEPT !.at = "metadata"])

(* parse_range, with -1 for a number left out, both without the header:     *)
(* <<first, last>>, or <<>>.  Without a last byte the size of an empty     *)
(* file wraps below zero.                                                  *)
ParseRange(range, size) ==
  LET last == IF range.to = -1 THEN (size - 1) % U64 ELSE range.to IN
  IF range.from = -1
  THEN IF range.to <= 0 \/ range.to > size THEN <<>> ELSE <<size - range.to, size - 1>>
  ELSE IF range.from > last \/ last >= size THEN <<>> ELSE <<range.from, last>>

ETag(e) == <<e.size, e.mtime>>
Metadata ==
  LET e == Entry(job.file)
      part == IF Page THEN <<>> ELSE ParseRange(job.req.range, e.size)
  IN /\ job.at = "metadata"
     /\ CASE e.kind = "none" -> Fail("404")
          [] e.kind # "none" /\ ~Page /\ job.req.if_none_match = ETag(e) ->
               Serve(Answer("304", 0, 0, "not modified"))
          [] e.kind # "none" /\ (Page \/ job.req.if_none_match # ETag(e)) ->
               IF part = <<>> /\ Method = "HEAD" THEN Serve(Answer("200", e.size, 0, "head"))
               ELSE Job([job EXCEPT !.at = "read", !.meta = e, !.part = part])

(* Mutant of Read: the length of a range without its last byte.             *)
Read_Exclusive ==
  LET e == Entry(job.file)
      count == job.part[2] - job.part[1] + 1
  IN /\ job.at = "read"
     /\ CASE e.kind # "file" -> Fail("500")
          [] e.kind = "file" /\ job.part = <<>> ->
               Serve(Answer("200", job.meta.size, e.size, Last(job.file)))
          [] e.kind = "file" /\ job.part # <<>> ->
               IF e.size <= job.part[2] THEN Fail("500")
               ELSE Serve(Answer("206", count - 1, count, Last(job.file)))

(* The whole file, with the length its metadata said; or, in serve_range,  *)
(* exactly the bytes asked for, else an error.                             *)
Read ==
  LET e == Entry(job.file)
      count == job.part[2] - job.part[1] + 1
  IN /\ job.at = "read"
     /\ CASE e.kind # "file" -> Fail("500")
          [] e.kind = "file" /\ job.part = <<>> ->
               Serve(Answer("200", job.meta.size, e.size, Last(job.file)))
          [] e.kind = "file" /\ job.part # <<>> ->
               IF e.size <= job.part[2] THEN Fail("500")
               ELSE Serve(Answer("206", count, count, Last(job.file)))

(* The answer of the backend.  A FastCGI answer without a Content-Length   *)
(* gets one; that of a WebSocket is sent as it came, and a tunnel follows. *)
FromBackend ==
  LET r == exchange.result
      length == IF exchange.msg.length = None /\ exchange.kind = "fastcgi" THEN Len(r.body)
                ELSE exchange.msg.length
  IN /\ job.at = "exchange" /\ exchange.at = "ended"
     /\ CASE exchange.kind = "websocket" ->
               Finish(IF r.ok THEN Answer("101", None, Len(r.body), "tunnel")
                      ELSE Answer("502", 0, 0, "error"))
          [] exchange.kind # "websocket" /\ r.ok ->
               Job([job EXCEPT !.at = "compress",
                      !.answer = Answer(exchange.msg.status, length, Len(r.body), "backend")])
          [] OTHER -> Job([job EXCEPT !.at = "compress", !.answer = ErrorAnswer("502")])

(* maybe_compress: what is compressed is sent with its new length, when    *)
(* that is smaller.                                                        *)
MayCompress ==
  /\ Setting(Location, "gzip", Setting(Http, "gzip", <<"off">>)) = <<"on">>
  /\ job.req.gzip /\ job.answer.of \in TextTypes
  /\ job.answer.body >= Bytes[Setting(Http, "gzip_min_length", <<"1k">>)[1]]
Compress ==
  /\ job.at = "compress"
  /\ \/ Finish(job.answer)
     \/ /\ MayCompress
        /\ \E n \in 1..job.answer.body - 1 :
             Finish([job.answer EXCEPT !.length = IF @ = None THEN None ELSE n, !.body = n])

Handle == \/ Arrive \/ Route \/ Authorize \/ Limit \/ Dispatch \/ Resolve \/ Try \/ Directory
          \/ Index \/ Exists \/ Within \/ Metadata \/ Read \/ FromBackend \/ Compress

(* Someone replaces, cuts or deletes a file while it is looked up.         *)
Change ==
  /\ job.at \notin {"idle", "route", "authorize", "limit", "dispatch", "exchange",
                 "compress", "done"}
  /\ changes < MaxChanges
  /\ \E p \in DOMAIN files, size \in 0..MaxSize, gone \in BOOLEAN :
       /\ files[p].kind = "file"
       /\ files' = [files EXCEPT ![p] =
            IF gone THEN Gone ELSE [kind |-> "file", size |-> size, mtime |-> files[p].mtime + 1]]
       /\ job' = [job EXCEPT !.raced = @ \/ (job.at = "read" /\ p = job.file)]
  /\ changes' = changes + 1
  /\ UNCHANGED <<configVars, exchange>>

Load == Parse /\ UNCHANGED <<files, changes, job, exchange>>
Exchanging == ExchangeStep /\ UNCHANGED <<configVars, files, changes, job>>
Backend == BackendStep /\ UNCHANGED <<configVars, files, changes, job>>
AtRest == \/ parsed = "error"
          \/ parsed = "ok" /\ (text \notin Served \/ Servers = <<>> \/ job.at = "done" \/ Held)
Done == AtRest /\ UNCHANGED vars
Next == Load \/ Handle \/ Exchanging \/ Backend \/ Change \/ Done
Spec == Init /\ [][Next]_vars

(* The task of a connection goes on while it can; a backend sends, closes  *)
(* or falls silent.  Nothing is assumed of a FastCGI application that has  *)
(* stopped reading: a write waits for it as long as it takes.              *)
FairSpec == Spec /\ WF_vars(Load) /\ WF_vars(Exchanging) /\ WF_vars(Backend)

-----------------------------------------------------------------------------
Ats == {"idle", "route", "authorize", "limit", "dispatch", "resolve", "try", "directory", "index",
        "exists", "within", "metadata", "read", "exchange", "compress", "done"}
TypeOK ==
  /\ ConfigTypeOK
  /\ changes \in 0..MaxChanges
  /\ job.at \in Ats
  /\ job.at # "idle" => parsed = "ok"
  /\ job.at \notin {"idle", "route", "done"} => job.server \in DOMAIN Servers

(* ServersAreTheText of ConfigParser, when a configuration has been read:  *)
(* requests do not change it.                                              *)
LoadedAsWritten == job.at = "idle" => ServersAreTheText

(* router/mod.rs: the location that answers is the one its priorities      *)
(* name, in whichever order the locations stand and were read.             *)
RoutedByPriority ==
  job.at = "authorize" =>
    LET srv == Server IN
    job.location = Preferred(srv.inner, Rewrite(srv, job.req.path).path)

(* The Content-Length of a file answer is the length of its body: of the   *)
(* whole file, a range, an error page, or what gzip made of it, although   *)
(* the length and the body come from two looks at the file.  A whole file  *)
(* that changes between the two is the exception.                          *)
LengthIsBody ==
  job.at = "done" /\ job.file # <<>> =>
    \/ job.answer.length = job.answer.body
    \/ job.answer.of = "head"
    \/ job.raced /\ job.part = <<>>

(* fastcgi/mod.rs, handler.rs: an application reads as many bytes as its   *)
(* CONTENT_LENGTH says, however many records they take; they are the       *)
(* request's own, none of a next one that came with it, and its whole body *)
(* over HTTP/2 or when one read brought all of it.                         *)
RequestArrives ==
  exchange.kind = "fastcgi" /\ exchange.at = "read" =>
    /\ exchange.stdin = exchange.body
    /\ exchange.stdin <= job.req.length
    /\ job.req.h2 \/ job.came >= job.req.length => exchange.stdin = job.req.length

(* fastcgi/mod.rs:97 says of the STDIN records: "(request body)".  A body  *)
(* of which some came in a later read is not sent: the application is told *)
(* a shorter one.                                                          *)
RequestBodyIsSent ==
  exchange.kind = "fastcgi" /\ exchange.at = "read" => exchange.stdin = job.req.length

(* Loading ends, whatever is written and although included files include  *)
(* each other: every turn of every loop of the parsers gets nearer the end.*)
LoadEnds == <>(parsed # "parsing")

(* Every exchange ends, whatever the backend sends, and although it may    *)
(* stop sending, close, or send without an end: all but two with a FastCGI *)
(* application, which nothing limits: one that sends records for ever, and *)
(* one that reads no more of a body longer than the connection holds.      *)
ExchangeEnds ==
  exchange.at # "none" ~>
    (exchange.at = "ended" \/ (exchange.kind = "fastcgi" /\ exchange.msg.endless) \/ Held)
=============================================================================
