---------------------------- MODULE ConfigParser ----------------------------
(***************************************************************************)
(* Reading the configuration (src/src/config/parser.rs): the parser of     *)
(* each kind of block, as a machine over the tokens of the files.  One     *)
(* step is one turn of the loop of the innermost parser; the stack holds   *)
(* the parsers that wait for it.  A text is a sequence of words and of the *)
(* tokens ; { }.  What a value means is left to those who use it: a block  *)
(* keeps its directives with their words.                                  *)
(***************************************************************************)
EXTENDS Integers, FiniteSets, Sequences, SequencesExt

CONSTANTS
  Texts,       \* texts of the main configuration file
  Included,    \* Included[f]: the text of another file f
  Glob,        \* Glob[p]: the files the pattern p of an include names, in order
  BadWords,    \* words that are no number, address, path, URL or regex
  MaxDepth,    \* MAX_INCLUDE_DEPTH
  MaxServers,  \* MAX_SERVER_BLOCKS
  MaxLocations \* MAX_LOCATION_BLOCKS

ASSUME ConfigAssumption ==
  /\ {MaxDepth, MaxServers, MaxLocations} \subseteq Nat
  /\ Texts \subseteq Seq(STRING)
  /\ \A f \in DOMAIN Included : Included[f] \in Seq(STRING)
  /\ \A w \in DOMAIN Glob : Glob[w] \in Seq(STRING)

VARIABLES
  text,   \* the text of the main file: never changes
  stack,  \* the parsers at work, the innermost last
  parsed  \* "parsing", "ok" or "error"

configVars == <<text, stack, parsed>>

Punctuation == {";", "{", "}"}
Text(f) == IF f = "main" THEN text ELSE Included[f]
Token(f, i) == IF i <= Len(Text(f)) THEN Text(f)[i] ELSE "end"
IsWord(f, i) == Token(f, i) \notin Punctuation \cup {"end"}

(* collect_args: where the words from i on end.                            *)
AfterWords(f, i) == CHOOSE j \in i..Len(Text(f)) + 1 :
  ~IsWord(f, j) /\ \A k \in i..j - 1 : IsWord(f, k)

HowMany(f, c, i, j) == Cardinality({k \in i..j : Token(f, k) = c})

(* Mutant of AfterBlock: its closing brace is left to be read.              *)
AfterBlock_AtBrace(f, i) ==
  LET ends == {j \in i..Len(Text(f)) : HowMany(f, "}", i, j) > HowMany(f, "{", i, j)}
  IN IF ends = {} THEN Len(Text(f)) ELSE Min(ends)

(* skip_block: where the block ends whose first token is at i.             *)
AfterBlock(f, i) ==
  LET ends == {j \in i..Len(Text(f)) : HowMany(f, "}", i, j) > HowMany(f, "{", i, j)}
  IN 1 + IF ends = {} THEN Len(Text(f)) ELSE Min(ends)

(* An unknown directive is skipped, with its block where blocks are known. *)
AfterUnknown(f, i, blocks) ==
  LET j == AfterWords(f, i + 1) IN
  CASE Token(f, j) = ";" -> j + 1
    [] Token(f, j) = "{" /\ blocks -> AfterBlock(f, j + 1)
    [] OTHER -> j

(* The directives each parser knows that end with a semicolon.             *)
RootDirectives ==
  {"firewall_manage", "firewall_backend", "firewall_tag", "worker_processes",
   "worker_connections", "numa_pin", "icmp_protection", "scan_detection", "scan_window",
   "scan_threshold", "scan_error_rate", "scan_block", "abuseipdb_key", "abuseipdb_report"}
HttpDirectives ==
  {"gzip", "gzip_types", "gzip_min_length", "access_log", "client_max_body_size",
   "keepalive_timeout", "send_timeout", "api_key", "webui_admin_user", "webui_admin_password",
   "brotli", "brotli_types", "brotli_min_length", "limit_req_zone"}
UpstreamDirectives ==
  {"server", "least_conn", "ip_hash", "random", "keepalive", "fail_timeout", "max_fails",
   "health_check"}
ServerDirectives ==
  {"listen", "server_name", "root", "index", "access_log", "client_max_body_size", "add_header",
   "limit_req", "rewrite", "auth_basic", "auth_basic_user_file", "error_page", "return",
   "ssl_certificate", "ssl_certificate_key", "ssl_protocols", "ssl_redirect", "hsts",
   "hsts_max_age", "hsts_include_subdomains"}
ProxyDirectives == {"proxy_set_header", "proxy_read_timeout", "proxy_buffering", "proxy_allow_internal"}
FastCgiDirectives == {"fastcgi_param", "fastcgi_index", "fastcgi_read_timeout"}
LocationDirectives ==
  {"root", "index", "try_files", "proxy_pass", "fastcgi_pass", "add_header",
   "client_max_body_size", "return", "gzip", "limit_req", "rewrite", "auth_basic",
   "auth_basic_user_file"} \cup ProxyDirectives \cup FastCgiDirectives

(* Other spellings of directives.                                          *)
Spellings ==
  "firewall" :> "firewall_manage" @@ "numa-pin" :> "numa_pin" @@
  "icmp-protection" :> "icmp_protection" @@ "scan-detection" :> "scan_detection" @@
  "scan_detection_window" :> "scan_window" @@ "scan_detection_threshold" :> "scan_threshold" @@
  "scan_detection_error_rate" :> "scan_error_rate" @@ "scan_detection_block" :> "scan_block" @@
  "scan_detection_abuseipdb_key" :> "abuseipdb_key" @@
  "scan_detection_abuseipdb_report" :> "abuseipdb_report" @@ "ssl-redirect" :> "ssl_redirect" @@
  "hsts-max-age" :> "hsts_max_age" @@ "hsts-include-subdomains" :> "hsts_include_subdomains"
Plain(d) == IF d \in DOMAIN Spellings THEN Spellings[d] ELSE d

Known == [root |-> RootDirectives, http |-> HttpDirectives, upstream |-> UpstreamDirectives,
          server |-> ServerDirectives, location |-> LocationDirectives]

(* How many words a directive takes: expect_word and collect_args.         *)
Lists == {"gzip_types", "brotli_types", "limit_req_zone", "health_check", "listen", "server_name",
          "index", "limit_req", "error_page", "ssl_protocols", "try_files"}
Takes(ctx, d, args) ==
  CASE d \in Lists -> TRUE
    [] ctx = "upstream" /\ d = "server" -> args # <<>>
    [] d \in {"least_conn", "ip_hash", "random"} -> args = <<>>
    [] d \in {"access_log", "keepalive_timeout", "return"} -> Len(args) \in 1..2
    [] d = "add_header" -> Len(args) = 2 \/ (Len(args) = 3 /\ args[3] = "always")
    [] d = "rewrite" -> Len(args) \in 2..3
    [] d \in {"proxy_set_header", "fastcgi_param"} -> Len(args) = 2
    [] OTHER -> Len(args) = 1

(* parse_listen: the last word that is no option is the address.           *)
ListenOptions == {"ssl", "http2", "default_server", "reuseport", "backlog", "rcvbuf", "sndbuf",
                  "ipv6only=on", "ipv6only=off"}
Address(args) == SelectSeq(args, LAMBDA w : w \notin ListenOptions)

(* The values that make the load fail; elsewhere a bad value is replaced   *)
(* by the default.                                                         *)
Strict == {"worker_processes", "worker_connections", "gzip_min_length", "client_max_body_size",
           "keepalive_timeout", "send_timeout", "brotli_min_length", "root", "return",
           "proxy_pass", "fastcgi_pass"}
Refused(d, args) ==
  \/ d \in Strict /\ args[1] \in BadWords
  \/ d = "listen" /\ (Address(args) = <<>> \/ Last(Address(args)) \in BadWords)

(* parse_location_pattern                                                  *)
IsPattern(args) ==
  \/ Len(args) = 1
  \/ Len(args) = 2 /\ args[1] \in {"=", "^~"}
  \/ Len(args) = 2 /\ args[1] \in {"~", "~*"} /\ args[2] \notin BadWords

(* A block: where it starts, the words of its head, its directives, the    *)
(* blocks in it, the handler of a location, and its auth_basic.            *)
Static == [kind |-> "static", words |-> <<>>, own |-> <<>>]
Block(at, head) == [at |-> at, head |-> head, set |-> <<>>, inner |-> <<>>, handler |-> Static,
                    realm |-> "", user_file |-> ""]

(* Directives that add to what was there; the others replace it.           *)
Adds == {"limit_req_zone", "listen", "server_name", "add_header", "rewrite", "error_page",
         "proxy_set_header", "fastcgi_param"}
Put(set, d, args) ==
  Append(IF d \in Adds THEN set ELSE SelectSeq(set, LAMBDA e : e[1] # d), <<d, args>>)

(* error_page keeps the codes that are numbers, if any.                    *)
Codes(args) == SelectSeq(Front(args), LAMBDA w : w \notin BadWords)

(* What a directive does to the block it stands in.                        *)
Apply(ctx, b, d, args) ==
  CASE d = "auth_basic" ->
         IF args[1] = "off" THEN b
         ELSE [b EXCEPT !.realm = args[1], !.user_file = IF ctx = "server" THEN "" ELSE @]
    [] d = "auth_basic_user_file" ->
         [b EXCEPT !.user_file = args[1],
                   !.realm = IF ctx = "server" /\ @ = "" THEN "Restricted" ELSE @]
    [] d \in {"proxy_pass", "fastcgi_pass"} ->
         [b EXCEPT !.handler = [Static EXCEPT !.kind = d, !.words = args]]
    [] d \in ProxyDirectives \cup FastCgiDirectives ->
         LET pass == IF d \in ProxyDirectives THEN "proxy_pass" ELSE "fastcgi_pass"
         IN IF b.handler.kind = pass THEN [b EXCEPT !.handler.own = Put(@, d, args)] ELSE b
    [] ctx = "location" /\ d = "return" ->
         [b EXCEPT !.set = Put(@, d, args),
                   !.handler = [Static EXCEPT !.kind = d, !.words = args]]
    [] d = "error_page" ->
         IF Len(args) < 2 \/ Codes(args) = <<>> THEN b
         ELSE [b EXCEPT !.set = Put(@, d, <<Codes(args), Last(args)>>)]
    [] OTHER -> [b EXCEPT !.set = Put(@, d, args)]

(* A parser at work: the kind of block, the file and the position it is    *)
(* at, how deep its file is included, the files it still has to include.   *)
Parser(ctx, f, i, depth, block) ==
  [ctx |-> ctx, file |-> f, pos |-> i, depth |-> depth, queue |-> <<>>, block |-> block]

(* parse_root starts from an http block with the default values.           *)
Root(f, depth) ==
  Parser("root", f, 1, depth, [Block(<<f, 0>>, <<>>) EXCEPT !.inner = <<Block(<<f, 0>>, <<>>)>>])

Top == Last(stack)
Caller == stack[Len(stack) - 1]

ConfigInit ==
  /\ text \in Texts
  /\ stack = <<Root("main", 0)>>
  /\ parsed = "parsing"

Bail == parsed' = "error" /\ UNCHANGED <<text, stack>>
Continue(p) == stack' = Append(Front(stack), p) /\ UNCHANGED <<text, parsed>>
MoveTo(i) == Continue([Top EXCEPT !.pos = i])
Call(p, i) == /\ stack' = Append(Append(Front(stack), [Top EXCEPT !.pos = i]), p)
              /\ UNCHANGED <<text, parsed>>

(* location: auth_basic needs a realm and a file.                          *)
Finished(ctx, b) ==
  IF ctx = "location" /\ (b.realm = "" \/ b.user_file = "")
  THEN [b EXCEPT !.realm = "", !.user_file = ""] ELSE b

(* What the caller does with the block: an http block replaces the one     *)
(* there was, a file included at the root only gives its servers.          *)
Merge(outer, ctx, b) ==
  CASE ctx = "root" -> [outer EXCEPT !.inner[1].inner = @ \o b.inner[1].inner]
    [] ctx = "http" -> [outer EXCEPT !.inner = <<b>>]
    [] ctx = "events" -> [outer EXCEPT !.set = b.set]
    [] ctx = "included" -> [outer EXCEPT !.inner = b.inner]
    [] ctx = "upstream" -> [outer EXCEPT !.set = Append(@, <<"upstream", b>>)]
    [] OTHER -> [outer EXCEPT !.inner = Append(@, b)]

(* The innermost parser returns, having read its file up to i.             *)
Return(i) ==
  /\ stack' = Append(SubSeq(stack, 1, Len(stack) - 2),
       [Caller EXCEPT !.pos = IF Caller.file = Top.file /\ Top.ctx \notin {"root", "included"}
                              THEN i ELSE @,
                      !.block = Merge(@, Top.ctx, Finished(Top.ctx, Top.block))])
  /\ UNCHANGED <<text, parsed>>

(* The next token, when the innermost parser has no file to include.       *)
Peek == IF Top.queue = <<>> THEN Token(Top.file, Top.pos) ELSE "include next"
AtWord == Top.queue = <<>> /\ IsWord(Top.file, Top.pos)
Stop == AfterWords(Top.file, Top.pos + 1)
Args == SubSeq(Text(Top.file), Top.pos + 1, Stop - 1)
After == Token(Top.file, Stop)

Directive ==
  /\ Top.ctx \in DOMAIN Known /\ AtWord /\ Plain(Peek) \in Known[Top.ctx]
  /\ IF Takes(Top.ctx, Peek, Args) /\ After = ";" /\ ~Refused(Peek, Args)
     THEN Continue([Top EXCEPT !.pos = Stop + 1, !.block = Apply(Top.ctx, @, Plain(Peek), Args)])
     ELSE Bail

(* The heads of blocks; the number of words before the brace is fixed,     *)
(* except before that of a location.                                       *)
Opens == [root |-> {"events", "http"}, http |-> {"upstream", "server"}, server |-> {"location"}]
Full(ctx) == CASE ctx = "http" -> Len(Top.block.inner) >= MaxServers
               [] ctx = "server" -> Len(Top.block.inner) >= MaxLocations
               [] OTHER -> FALSE
WellHeaded(d) == CASE d = "upstream" -> Len(Args) = 1
                   [] d = "location" -> IsPattern(Args)
                   [] OTHER -> Args = <<>>
Fresh(d) == IF d = "events" THEN [Block(<<>>, <<>>) EXCEPT !.set = Top.block.set]
            ELSE Block(<<Top.file, Top.pos>>, Args)
Open ==
  /\ Top.ctx \in DOMAIN Opens /\ AtWord /\ Peek \in Opens[Top.ctx]
  /\ IF After = "{" /\ WellHeaded(Peek) /\ ~(Peek # "upstream" /\ Full(Top.ctx))
     THEN Call(Parser(Peek, Top.file, Stop + 1, Top.depth, Fresh(Peek)), Top.pos)
     ELSE Bail

(* None or a closing brace ends the block.                                 *)
Close == /\ Top.ctx \in {"http", "upstream", "server", "location"} /\ Peek \in {"}", "end"}
         /\ Return(Top.pos + 1)

Stray == /\ Top.ctx \in {"http", "server", "location"} /\ Peek \in {";", "{"}
         /\ Bail

Unknown ==
  /\ Top.ctx \in DOMAIN Known /\ AtWord
  /\ Plain(Peek) \notin Known[Top.ctx]
  /\ Top.ctx \in DOMAIN Opens => Peek \notin Opens[Top.ctx]
  /\ Top.ctx \in {"root", "http"} => Peek # "include"
  /\ MoveTo(AfterUnknown(Top.file, Top.pos, Top.ctx # "upstream"))

(* Mutant of UpstreamSkips: what is no word is looked at again.             *)
UpstreamSkips_Stays == /\ Top.ctx = "upstream" /\ Peek \in {";", "{"}
                       /\ MoveTo(Top.pos)
(* In an upstream block anything that is no word is passed over.           *)
UpstreamSkips == /\ Top.ctx = "upstream" /\ Peek \in {";", "{"}
                 /\ MoveTo(Top.pos + 1)

(* events: one turn reads a directive and the closing brace after it.      *)
AfterEvent == IF After = ";" THEN Stop + 1 ELSE Stop
Event ==
  /\ Top.ctx = "events" /\ AtWord
  /\ IF Peek = "worker_connections" /\ (Len(Args) # 1 \/ After # ";" \/ Refused(Peek, Args))
     THEN Bail
     ELSE LET b == IF Peek = "worker_connections"
                   THEN Apply("events", Top.block, Peek, Args) ELSE Top.block
          IN Continue([Top EXCEPT !.pos = AfterEvent, !.block = b,
                         !.ctx = IF Token(Top.file, AfterEvent) = "}" THEN "events end" ELSE @])
EventsEnd ==
  /\ \/ Top.ctx = "events end"
     \/ Top.ctx = "events" /\ ~AtWord
  /\ stack' = Append(SubSeq(stack, 1, Len(stack) - 2),
       [Caller EXCEPT !.pos = IF Top.ctx = "events" THEN Top.pos ELSE Top.pos + 1,
                      !.block = Merge(@, "events", Top.block)])
  /\ UNCHANGED <<text, parsed>>

(* A pattern that matches no file is no error.                             *)
Matches(w) == IF w \in DOMAIN Glob THEN Glob[w] ELSE <<>>

(* include: at the root the depth is limited, in http it is not.           *)
Include ==
  /\ Top.ctx \in {"root", "http"} /\ Peek = "include"
  /\ IF Len(Args) = 1 /\ After = ";" /\ (Top.ctx = "root" => Top.depth < MaxDepth)
     THEN Continue([Top EXCEPT !.pos = Stop + 1, !.queue = Matches(Args[1])])
     ELSE Bail

(* The next file an include names: a root of its own, or, in http, a text  *)
(* that is searched for servers.  A file that cannot be read is an error.  *)
NextFile ==
  /\ Top.queue # <<>>
  /\ LET f == Head(Top.queue)
         p == IF Top.ctx = "root" THEN Root(f, Top.depth + 1)
              ELSE Parser("included", f, 1, Top.depth + 1,
                          [Block(<<f, 0>>, <<>>) EXCEPT !.inner = Top.block.inner])
     IN IF f \in DOMAIN Included
        THEN /\ stack' = Append(Append(Front(stack), [Top EXCEPT !.queue = Tail(@)]), p)
             /\ UNCHANGED <<text, parsed>>
        ELSE Bail

(* A server past the limit is not an error here: its tokens are searched.  *)
Search ==
  /\ Top.ctx = "included" /\ Peek # "end"
  /\ IF Peek = "server" /\ Token(Top.file, Top.pos + 1) = "{"
     THEN IF Len(Top.block.inner) < MaxServers
          THEN Call(Parser("server", Top.file, Top.pos + 2, Top.depth,
                           Block(<<Top.file, Top.pos>>, <<>>)), Top.pos)
          ELSE MoveTo(Top.pos + 2)
     ELSE MoveTo(Top.pos + 1)

(* The root parser ends at the end, and at any token that is no word.      *)
EndOfFile ==
  \/ Top.ctx = "included" /\ Peek = "end" /\ Return(Top.pos)
  \/ /\ Top.ctx = "root" /\ Peek \in Punctuation \cup {"end"}
     /\ IF Len(stack) = 1 THEN parsed' = "ok" /\ UNCHANGED <<text, stack>> ELSE Return(Top.pos)

Parse ==
  /\ parsed = "parsing"
  /\ \/ Directive \/ Open \/ Close \/ Stray \/ Unknown \/ UpstreamSkips
     \/ Event \/ EventsEnd \/ Include \/ NextFile \/ Search \/ EndOfFile

Config == stack[1].block
Servers == Config.inner[1].inner

-----------------------------------------------------------------------------
(* What is written: the blocks of a text, read off its braces.             *)

Begins(f, i) == i = 1 \/ Token(f, i - 1) \in Punctuation
HeadOf(f, brace) == Token(f, Max({i \in 1..brace : Begins(f, i)}))
Level(f, i) == HowMany(f, "{", 1, i - 1) - HowMany(f, "}", 1, i - 1)
Path(f, i) ==
  [n \in 1..Level(f, i) |->
     HeadOf(f, Max({b \in 1..i - 1 : Token(f, b) = "{" /\ Level(f, b) = n - 1}))]

(* The blocks called name at the given path, between two tokens.           *)
Blocks(f, name, path, first, last) ==
  SetToSortSeq({i \in first..last : /\ Token(f, i) = name /\ Begins(f, i) /\ Path(f, i) = path
                                   /\ Token(f, AfterWords(f, i)) = "{"}, <)

(* A server with its locations, by where they start.                       *)
ServerAt(f, i, path) ==
  LET locations == Blocks(f, "location", Append(path, "server"), i, AfterBlock(f, i + 2) - 1)
  IN [at |-> <<f, i>>, locations |-> [n \in DOMAIN locations |-> <<f, locations[n]>>]]
ServersAt(f, path, first, last) ==
  LET at == Blocks(f, "server", path, first, last)
  IN [n \in DOMAIN at |-> ServerAt(f, at[n], path)]

(* The servers of a root file with those of the files it includes, nested  *)
(* at most n deep.                                                         *)
Written[n \in Nat] ==
  [f \in DOMAIN Included \cup {"main"} |->
     LET From(i) ==
           LET files == Matches(Token(f, i + 1)) IN
           IF Token(f, i) = "include" /\ Begins(f, i) /\ Path(f, i) = <<>> /\ n > 0
           THEN FlattenSeq([k \in DOMAIN files |-> Written[n - 1][files[k]]])
           ELSE IF Token(f, i) = "include" /\ Begins(f, i) /\ Path(f, i) = <<"http">>
           THEN FlattenSeq([k \in DOMAIN files |->
                  ServersAt(files[k], <<>>, 1, Len(Text(files[k])))])
           ELSE ServersAt(f, <<"http">>, i, i)
     IN FlattenSeq([i \in 1..Len(Text(f)) |-> From(i)])]

(* A well-formed text: its braces match, every brace that opens and every  *)
(* semicolon ends a directive, and the http block comes before what else   *)
(* brings servers.                                                         *)
WellFormed(f) ==
  LET t == Text(f)  n == Len(t) IN
  /\ HowMany(f, "{", 1, n) = HowMany(f, "}", 1, n)
  /\ \A i \in 1..n : /\ HowMany(f, "{", 1, i) >= HowMany(f, "}", 1, i)
                     /\ t[i] \in {"{", ";"} => i > 1 /\ IsWord(f, i - 1)
  /\ \A j \in 1..n : t[j] = "http" /\ Begins(f, j) /\ Path(f, j) = <<>> =>
       \A i \in 1..j - 1 : t[i] \in {"http", "include"} /\ Begins(f, i) => Path(f, i) # <<>>
(* An events block has directives and no blocks.                           *)
EventsPlain(f) == \A i \in 1..Len(Text(f)) :
  /\ Token(f, i) = "events" /\ Begins(f, i) => ~(Token(f, i + 1) = "{" /\ Token(f, i + 2) = "}")
  /\ Token(f, i) = "{" => Path(f, i) # <<"events">>

(* The files n includes away from the main one, or fewer.                   *)
Reached[n \in Nat] ==
  IF n = 0 THEN {"main"}
  ELSE Reached[n - 1] \cup
       {f \in DOMAIN Included : \E g \in Reached[n - 1] : \E i \in 1..Len(Text(g)) - 1 :
          Token(g, i) = "include" /\ Begins(g, i) /\ f \in ToSet(Matches(Token(g, i + 1)))}
FilesRead == Reached[MaxDepth + 1]

(* Blocks stand where a block is known or can be skipped: none within      *)
(* upstream, and in an included file, whose tokens may be searched for     *)
(* servers, no server within another block.                                *)
Skippable(f) == \A i \in 1..Len(Text(f)) : Token(f, i) = "{" =>
  /\ Path(f, i) # <<"http", "upstream">>
  /\ f # "main" /\ Token(f, i - 1) = "server" => Path(f, i - 1) \in {<<>>, <<"http">>}

ReadServers ==
  [n \in DOMAIN Servers |->
     [at |-> Servers[n].at, locations |-> [k \in DOMAIN Servers[n].inner |-> Servers[n].inner[k].at]]]

Loaded == /\ parsed = "ok" /\ Len(Servers) < MaxServers
          /\ \A f \in FilesRead : WellFormed(f) /\ EventsPlain(f)

(* A well-formed text that loads gives exactly the servers and locations   *)
(* written in it and in the files it includes, in their order: whatever    *)
(* unknown directives stand between them, and whatever unknown blocks at   *)
(* the root, in http, in a server or in a location (skip_block), and       *)
(* whichever parser returned last.  But see EventsAbsorbed and             *)
(* UnknownIsSkipped; and at the limit on servers those of a file included  *)
(* in http are left out.                                                   *)
ServersAreTheText ==
  Loaded /\ (\A f \in FilesRead : Skippable(f)) => ReadServers = Written[MaxDepth]["main"]

(* parser.rs:3: "Only whitelisted directives are accepted; unknown ->      *)
(* WARN + skip".  So a block nobody knows changes nothing of what is read, *)
(* wherever it stands: also in upstream, whose loop goes on behind the     *)
(* opening brace and takes the closing one for its own.                    *)
UnknownIsSkipped == Loaded => ReadServers = Written[MaxDepth]["main"]

(* parser.rs:195 says of events { }: "absorb the block".  So what follows  *)
(* an events block is read, whatever is in the block.                      *)
EventsAbsorbed ==
  parsed = "ok" /\ Len(Servers) < MaxServers
    /\ (\A f \in FilesRead : WellFormed(f) /\ Skippable(f)) =>
      ReadServers = Written[MaxDepth]["main"]

(* The parsers at work are nested as the blocks are, no deeper than the    *)
(* limit on includes allows; no block is longer than its limit.  A block   *)
(* that the end of the file closes leaves its caller one further behind    *)
(* the end: three blocks may be open there, and a directive before.        *)
ConfigTypeOK ==
  /\ text \in Texts /\ parsed \in {"parsing", "ok", "error"}
  /\ Len(stack) \in 1..MaxDepth + 5
  /\ \A n \in DOMAIN stack :
       LET p == stack[n] IN
       /\ p.depth <= MaxDepth + 1 /\ p.pos \in 1..Len(Text(p.file)) + 4
       /\ p.ctx \in {"http", "included"} => Len(p.block.inner) <= MaxServers
       /\ p.ctx = "server" => Len(p.block.inner) <= MaxLocations
=============================================================================
