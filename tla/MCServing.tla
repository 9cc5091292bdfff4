----------------------------- MODULE MCServing -----------------------------
(* Values of the constants of Serving for TLC.                             *)
EXTENDS Serving

Block2(head, body) == head \o <<"{">> \o body \o <<"}">>
Location2(head) == Block2(<<"location">> \o head, <<"gzip", "off", ";">>)

(* Configurations about reading: each is a start, two pieces in an http    *)
(* block and an end, whole or with one token missing.                      *)
Starts == {<<>>, <<"worker_processes", "auto", ";", "numa-pin", "off", ";">>,
           <<"events", "{", "worker_connections", "bad", ";", "}">>,
           <<"events", "{", "use", "epoll", ";", "worker_connections", "64", ";", "}">>,
           Block2(<<"map", "x">>, Block2(<<"a">>, <<"b", ";">>)), <<"events", "{", "}">>}
Pieces == {Block2(<<"server">>, <<"listen", "80", "ssl", ";">> \o Location2(<<"/">>)),
           Block2(<<"server">>, Location2(<<"/">>) \o <<"hsts", "on", ";">> \o Location2(<<"~", "re">>)),
           Block2(<<"upstream", "g">>, <<"server", "b1", "weight=2", ";", "least_conn", ";", "zone", ";">>),
           <<"include", "sites", ";">>, <<"gzip", "on", ";">>, Block2(<<"map", "x">>, <<"a", ";">>)}
Ends == {<<>>, <<"include", "extra", ";">>, <<"include", "deep", ";">>, <<"include", "lost", ";">>}
Whole == {s \o Block2(<<"http">>, a \o b) \o e : s \in Starts, a, b \in Pieces, e \in Ends}
Short == {s \o Block2(<<"http">>, a \o b) : s \in {<<>>} \cup {<<"events", "{", "}">>}, a, b \in Pieces}
Cut == UNION {{RemoveAt(t, i) : i \in DOMAIN t} : t \in Short} \cup
       {SubSeq(t, 1, Len(t) - n) : t \in Short, n \in 2..3}

(* A block within upstream or events, or with a server in it.              *)
Nested == {Block2(<<"http">>, Block2(<<"upstream", "g">>, a) \o p) : a \in Pieces, p \in Pieces} \cup
          {Block2(<<"events">>, <<"debug", "on", ";">> \o a) \o Block2(<<"http">>, p) : a, p \in Pieces} \cup
          {Block2(<<"http">>, a \o <<"include", "stream", ";">>) : a \in Pieces}

MCIncluded ==
  [sites1 |-> Block2(<<"server">>, Location2(<<"=", "/x">>)),
   sites2 |-> <<"gzip", "on", ";">> \o Block2(<<"server">>, Location2(<<"/">>)) \o <<"server", "x", ";">>,
   extra |-> Block2(<<"http">>, Block2(<<"server">>, Location2(<<"@back">>))) \o <<"include", "sites", ";">>,
   deep |-> <<"include", "deep", ";">>,
   stream1 |-> Block2(<<"stream">>, Block2(<<"server">>, Location2(<<"/">>)))]
MCGlob == [sites |-> <<"sites1", "sites2">>, extra |-> <<"extra">>, deep |-> <<"deep">>, lost |-> <<"missing">>,
           stream |-> <<"stream1">>]
MCBad == {"bad"}

(* A configuration about serving: locations of every kind, in any order.   *)
Site(root, locations) ==
  Block2(<<"http">>,
    <<"gzip", "on", ";", "gzip_min_length", "1", ";", "limit_req_zone", "zone=z", "rate=1r/s", ";">> \o
    Block2(<<"server">>, <<"server_name", "*.org", ";", "ssl-redirect", "on", ";", "return", "200", ";">>) \o
    Block2(<<"server">>,
      root \o <<"server_name", "a.org", ";", "error_page", "404", "bad", "/x", ";",
        "rewrite", "old", "/d", "last", ";", "rewrite", "bad", "/", ";", "rewrite", "gone", "/x", "redirect", ";">> \o locations))
Places == <<Block2(<<"location", "/">>, <<"try_files", "$uri", "/x", ";", "rewrite", "out", "/x", "permanent", ";">>),
            Block2(<<"location", "/d">>, <<"index", "i", ";", "auth_basic", "R", ";", "auth_basic_user_file", "users", ";">>),
            Block2(<<"location", "^~", "/d">>, <<"limit_req", "zone=z", ";", "index", "h", "i", ";">>),
            Block2(<<"location", "~", "re">>, <<"client_max_body_size", "1", ";", "proxy_pass", "http://b", ";", "proxy_buffering", "on", ";">>),
            Block2(<<"location", "=", "/x">>, <<"gzip", "off", ";">>),
            Block2(<<"location", "/">>, <<"try_files", "$uri", "/%", ";">>),
            Block2(<<"location", "/d">>, <<"try_files", "/old", "=404", ";">>),
            Block2(<<"location", "^~", "/d">>, <<"fastcgi_pass", "php", ";">>),
            Block2(<<"location", "=", "/">>, <<"proxy_pass", "http://in", ";">>),
            Block2(<<"location", "=", "/">>, <<"proxy_pass", "http://in", ";", "proxy_allow_internal", "on", ";">>)>>
Orders == {<<1, 2, 3, 4>>, <<5, 4, 3, 2>>, <<4, 1, 5, 3>>, <<2, 3, 1, 5>>, <<3, 4, 2, 1>>, <<4, 2, 5, 1>>,
           <<1, 5, 2, 4>>, <<2, 1, 4, 3>>, <<3, 2, 5, 4>>, <<5, 1, 2, 3>>, <<1, 2, 5, 4>>, <<2, 4, 1, 5>>,
           <<6, 7, 3, 4>>, <<2, 7, 5, 4>>, <<8, 4, 9, 5>>, <<8, 4, 10, 5>>}
Rooted == <<"root", "www", ";">>
ServingTexts == {Site(Rooted, FlattenSeq([i \in 1..4 |-> Places[o[i]]])) : o \in Orders} \cup
                {Site(<<>>, Places[2] \o Places[5])}

MCTexts == Whole \cup Cut \cup Nested \cup ServingTexts

MCNames == "*.org" :> [kind |-> "wildcard", hosts |-> {"a.org", "b.org"}] @@
           "a.org" :> [kind |-> "exact", hosts |-> {"a.org"}]
MCSpell == "/" :> <<"/">> @@ "/x" :> <<"/", "x">> @@ "/d" :> <<"/", "d">> @@ "/d/y" :> <<"/", "d", "/", "y">> @@
           "/%" :> <<"/", "%">> @@ "/old" :> <<"/", "old">> @@ "/gone" :> <<"/", "gone">> @@ "/link" :> <<"/", "link">> @@ "/out" :> <<"/", "out">> @@ "$uri" :> <<"$">> @@ "=404" :> <<"=", "404">> @@ "@back" :> <<"@", "back">>
MCDecoded == [w \in DOMAIN MCSpell |-> IF w = "/%" THEN <<>> ELSE MCSpell[w]]
MCRegexes == [re |-> {"/d/y", "/x"}, old |-> {"/old"}, gone |-> {"/gone"}, out |-> {"/out"}]
MCZone == "zone=z" :> "z"
MCBytes == "1m" :> 5 @@ "1" :> 1 @@ "1k" :> 3
MCUserFiles == [users |-> <<[user |-> "u", hash |-> "bcrypt", password |-> "p"]>>]
File(n) == [kind |-> "file", size |-> n, mtime |-> 1]
MCDisk == <<"www">> :> [kind |-> "dir", size |-> 1, mtime |-> 1] @@ <<"www", "x">> :> File(2) @@
          <<"www", "d">> :> [kind |-> "dir", size |-> 1, mtime |-> 1] @@
          <<"www", "d", "i">> :> File(3) @@ <<"www", "d", "y">> :> File(0) @@ <<"www", "link">> :> File(1)
MCOutside == {<<"www", "link">>}

Nobody == [user |-> "", password |-> ""]
Get == [host |-> "a.org", path |-> "/x", method |-> "GET", tls |-> TRUE, length |-> 0, behind |-> 0, gzip |-> FALSE,
        h2 |-> FALSE, websocket |-> FALSE, if_none_match |-> <<0, 0>>, range |-> [from |-> -1, to |-> -1],
        credentials |-> Nobody]
MCRequests ==
  {[Get EXCEPT !.host = "b.org"], [Get EXCEPT !.host = "b.org", !.tls = FALSE]} \cup
  {[Get EXCEPT !.path = p, !.credentials = c] : p \in DOMAIN MCSpell \cap {"/", "/x", "/d", "/d/y", "/%"},
     c \in {Nobody, [user |-> "u", password |-> "p"]}} \cup
  {[Get EXCEPT !.path = p] : p \in {"/old", "/out", "/gone", "/link"}} \cup
  {[Get EXCEPT !.range = [from |-> a, to |-> b]] : a, b \in -1..2} \cup
  {[Get EXCEPT !.method = "HEAD"], [Get EXCEPT !.gzip = TRUE], [Get EXCEPT !.if_none_match = <<2, 1>>],
   [Get EXCEPT !.path = "/d/y", !.range = [from |-> 0, to |-> -1]], [Get EXCEPT !.path = "/d", !.gzip = TRUE],
   [Get EXCEPT !.path = "/", !.gzip = TRUE, !.range = [from |-> 0, to |-> 1]],
   [Get EXCEPT !.path = "/d", !.length = 5, !.behind = 1], [Get EXCEPT !.path = "/d", !.length = 4, !.h2 = TRUE],
   [Get EXCEPT !.path = "/", !.h2 = TRUE, !.gzip = TRUE], [Get EXCEPT !.path = "/", !.websocket = TRUE],
   [Get EXCEPT !.length = 6], [Get EXCEPT !.path = "/d/y", !.length = 2]}

(* Answers: of every framing, with no body for a HEAD, from a backend that *)
(* sends for ever, with data that reads like an end, and of FastCGI with   *)
(* records of every type and heads of both kinds.                          *)
Reply(status, length, wire) == [NoMessage EXCEPT !.status = status, !.length = length, !.wire = wire]
Chunked(pieces) == [Reply("200", None, <<"h", "H">> \o pieces) EXCEPT !.chunked = TRUE]
Rec(type, content) == [type |-> type, content |-> content]
End == Rec("end", <<>>)
Cgi(records) == Reply("200", None, records)
MCMessages ==
  [proxy |->
     {Reply("200", 2, <<"h", "H", "d", "d">>), Reply("204", 0, <<"h", "H">>), Reply("200", 2, <<"h", "H">>),
      Reply("200", None, <<"h", "H", "d", "H">>), Reply("200", 1, <<"H", "d", "H">>), Reply("500", None, <<"h">>),
      Chunked(<<"size", "d", "crlf", "zero", "crlf">>), Chunked(<<"size", "zero", "crlf", "d", "zero", "crlf">>),
      [Reply("200", 1, <<"h", "H", "d">>) EXCEPT !.odd = TRUE],
      [Reply("200", None, <<"h", "H", "d", "d", "d", "d", "d", "d", "d">>) EXCEPT !.endless = TRUE]},
   websocket |->
     {Reply("101", None, <<"h", "H", "d">>), Reply("302", None, <<"h", "H">>), Reply("101", None, <<"h", "h", "h", "h">>)},
   fastcgi |->
     {Cgi(<<Rec("stdout", <<"h">>), Rec("stderr", <<"d">>), Rec("stdout", <<"H", "d">>),
            Rec("other", <<>>), Rec("stdout", <<"d">>), End>>),
      Cgi(<<Rec("stdout", <<"h", "N", "d">>), End>>), Cgi(<<Rec("stdout", <<"h", "N", "d", "H">>), End>>),
      Cgi(<<Rec("stdout", <<"h">>), End>>), Reply("302", 0, <<Rec("stdout", <<"H">>), End>>),
      [Cgi(<<Rec("stdout", <<"h", "H">>), Rec("stderr", <<>>)>>) EXCEPT !.endless = TRUE]}]
=============================================================================
