# RunNginx in TLA+

RunNginx is an nginx-compatible HTTP server written in Rust on tokio. This
directory holds TLA+ models of the parts of it that keep shared state or whose
ordering matters, TLC configurations that check them on small instances, and
proofs of the most important invariants for every value of the constants.

Source paths below are relative to the repository; the crate is in `src/src/`
of this tree.

## 1. The system

One process. `main` loads the configuration, creates the shared objects below,
spawns one task per `listen` directive, a health-check task per upstream group,
a SIGHUP task and a Ctrl-C task, and waits for the listeners. A listener spawns
one task per connection; a connection task reads a request, runs
`handler::handle` to the end, writes the response and loops while keep-alive
lasts. HTTP/2 adds one task per stream. Tasks run on several threads: all shared
objects are reached concurrently, through `DashMap`s (one lock per shard),
atomics (`Relaxed`) or a `Mutex`.

| Component (source) | State | Operations | Hard behaviour | What makes it correct |
|---|---|---|---|---|
| Upstream group (`upstream/mod.rs`) | per peer `active_conns`, `fails`, `down_until`; `rr_counter` | `connect`, `release`, `mark_fail`, health checks | lock-free counters written by every request and the health task; time read before an await and used after | counters equal connections in flight; no mark lost; bounded exclusion; every request answered |
| Request limiter (`limit_req/mod.rs`) | token bucket per client and zone | `allow`, `evict_idle` (never called) | time read before the bucket is locked | never more grants than burst + rate x time |
| API rate limiter, statistics (`stats/mod.rs`) | window per client; counters | `allow`, `record_request`, percentiles | second read before the entry is locked; counters read while written | at most `rps_limit` per second; percentiles are percentiles |
| Response cache (`cache/mod.rs`) | map of entries with times | `get`, `put`, `invalidate_all` | check-then-act on the map; key of store differs from key of lookup | bounded size; never a stale entry; a stored answer is found |
| Scan detector (`scan_detector/mod.rs`) | record per client | `is_blocked`, `record`, `gc` | garbage collection against the report interval and active blocks | a block lasts; one report per day |
| User registry (`multiuser/mod.rs`) | three maps, `users.toml` | `create_user`, `delete_user`, `persist`, `reload` | maps updated one after the other, file written from a snapshot, no lock, crashes | maps agree; file agrees with memory at rest; acknowledged users survive |
| API: sessions, backup and restore (`api/mod.rs`) | session map, backup directory, config files | login, logout, backup, restore, delete | several files, second-resolution names, reload channel without receiver | a restore restores; a session expires |
| Sites (`api/sites.rs`) | site directories, generated configs, metadata | create, list, delete | several file-system steps, any of which fails | a site that exists is complete |
| Request pipeline (`server/handler.rs`) | none of its own | `handle`: the order of checks and handlers | early returns skip later bookkeeping | every answered request is accounted; checks run before handlers |
| Connection loop (`server/listener.rs`) | per connection counter | read, handle, write, tunnel | time-outs, keep-alive limit, one read per request | one answer per request, bounded requests, termination |
| HTTP/2 bridge (`http2/mod.rs`) | none: a task per stream | body read to its end, handler, answer translated | an answer that is no HTTP/1.1 | the stream gets the handler's answer |
| Access log (`server/access_log.rs`) | channel, ring of 500 entries, file | `log`, `ring_push`, `write_loop` | unbounded queue, writer failure that shows late | ring bounded and recent; lines in order |
| Proxy client and pool (`proxy/mod.rs`) | pieces read so far; a pool that is never filled | connect, send, read until complete | the answer comes in any pieces, stops, or never ends | the whole body is passed on; every exchange ends |
| FastCGI client (`fastcgi/mod.rs`) | records read so far | records out, records in, head of the answer | bodies longer than a record; records in between; no end | body arrives whole; answer put together whole |
| ICMP guard (`icmp_guard/mod.rs`) | pid file, firewall rules | setup, teardown | several processes, crashes, partial failure | one owner; rules gone after the owner |
| Firewall (`firewall/backend.rs`) | opened ports, rules | open, close | partial failure, signals | every opened port is closed |
| Start-up, reload, shutdown (`main.rs`) | none | order of steps, signals | signal before or during start-up | resources released |
| ACME (`acme/mod.rs`) | challenge tokens, certificate files | run, renew | remote failures, crash between two files | tokens removed; certificate and key match |
| Router, rewrite, auth, static files (`router/`, `rewrite/`, `auth/`, `server/static_files.rs`) | none | choice of server and location; look up, read, answer | files change between two looks; numeric edges in ranges | priorities hold; Content-Length is the length of the body |
| Configuration (`config/`) | parsers at work | tokenise, parse, include | include depth, skipped blocks, malformed input | reading ends; the servers are those of the text |
| SIMD parsing (`simd/mod.rs`) | none | request line, headers, scanning | three implementations | all agree |
| io_uring pool (`ioring/mod.rs`) | queue, workers | submit, work | full queue, dying workers | every request answered |
| WebSocket (`websocket/mod.rs`) | pieces read so far | handshake, then a tunnel | backend that stalls or refuses | the handshake ends |
| TLS, gzip, brotli, NUMA, XDP | none | I/O and encodings | | |

Interactions: the pipeline calls the scan detector, cache, ACME store, user and
management APIs, router, rewrites, auth, request limiter and exactly one handler
(static files, proxy, upstream group, FastCGI), then records statistics, the
access log and the scan detector. The API reads statistics, the log ring and the
configuration, and writes users, sites and backups.

## 2. Plan

The order follows what can go wrong under load: first the shared counters and
budgets that every request touches, then the state that survives a restart, then
the connection, then the parts around it.

| Step | Module | Models | Status |
|---|---|---|---|
| 1 | `PeerSelection`, `Upstream` | upstream groups | done, proved (`UpstreamProofs`) |
| 2 | `ConnGauge` | what connection tracking promises; `Upstream` refines it | done, proved (`UpstreamProofs`) |
| 3 | `LimitReq` | request limiter | done, proved (`LimitReqProofs`) |
| 4 | `ScanDetector` | scan detector with its gate, record and collector | done, proved (`ScanDetectorProofs`) |
| 5 | `UserRegistry` | hosting accounts and `users.toml` | done, proved (`UserRegistryProofs`) |
| 6 | `AccessLog` | log channel, ring, writer task | done, proved (in `HttpConnectionProofs`) |
| 7 | `HttpConnection` over `Stats` | connection loop, exits of the handler, counters and their reader | done, proved (`HttpConnectionProofs`) |
| 8 | `Lifecycle` | `main`, ICMP guard, firewall: several processes, signals, crashes | done, proved (`LifecycleProofs`) |
| 9 | `Sites`, `Backups`, composed in `Management` | the API requests that write files, and the API rate limiter | done, proved (`ManagementProofs`) |
| 10 | `ConfigParser` | the configuration parsers | done, limits and descent proved (`ServingProofs`) |
| 11 | `Routing` | server and location, rewrites, basic auth | done, proved (`ServingProofs`) |
| 12 | `Exchange` | one exchange of the proxy, of FastCGI, of a WebSocket handshake | done, proved (`ServingProofs`) |
| 13 | `Serving` over `ConfigParser`, `Routing`, `Exchange` | from the text to the answer: dispatch, static files, compression, translation for HTTP/2 | done, proved (`ServingProofs`) |
| 14 | `IoRing` | the optional io_uring pool | left |
| 15 | `ApiSessions`, `ResponseCache` | sessions and cache, should they ever come to life (section 7) | left |

Compositions: `HttpConnection` extends `Stats`, because the connections are what
moves the counters; `Upstream` instantiates `ConnGauge` through a refinement
mapping; `Management` runs the requests of `Sites` and `Backups` side by side;
`Serving` extends `Routing`, which extends `ConfigParser`, and `Exchange`, so
that what is routed is what was parsed, and what is sent is what a backend or a
file gave. The scan detector, the request limiter, the upstream group and the
access log meet a request at one point each, through one call, and share no
state with each other; each is modelled with the tasks that call it rather than
with the whole pipeline.

Abstract specifications worth stating: connection tracking (done); "a sequence
of answers" for the connection; an atomic registry (a set of users) that
`UserRegistry` implements for requests that come one by one; an owner of the
firewall rules.

`PROJECT.json` lists the hazards, each at its line with the properties that
would catch it. Those of parts that are left out (section 7) are not repeated
there: an unchecked pooled connection (`proxy/mod.rs:45`) under a map reference
held across an await (`:41`); the order of the ICMP rules
(`icmp_guard/mod.rs:117`); certificate and key written apart (`acme/mod.rs:164`);
the cache's check-then-act (`cache/mod.rs:43`, `:51`) and the path its answers
are stored under (`server/handler.rs:555`); a short read taken for the whole
file (`ioring/mod.rs:137`).

Theorems worth proving next: that what is read is what is written
(`LoadedAsWritten`), for the texts it is about (section 6 says what stands in
the way). Every other safety property the runs check is proved.

## 3. Modules and code

In every module an action is one access to shared data, or a run of accesses
that no other task can tell apart. Histories (variables no action's guard
reads) are marked *(history)* where they are declared.

### Upstream, PeerSelection, ConnGauge - `upstream/mod.rs`

`active_conns`, `fails`, `down_until` are the atomics of `PeerState`;
`rr_counter` is the low 32 bits of the group's counter. A request goes through
`Enter` (reads the time, once), `FilterPeer` per peer, `Choose` (policy in
`PeerSelection`) or `AllPeersDown`, `StartConnect` (counts itself), then
`ConnectOk`, `NodelayError` (the `?` after a successful connect, which leaves
the counter as it is) or `ConnectFail`, and after a failure `CountFail` and
`MarkDown` (the halves of `mark_fail`); `Release` is the caller's `release` by
address. The health-check task is `HealthWake`, `HealthProbe`, `HealthCheck`,
`HealthRecover`, `HealthReset`, `HealthCount`, `HealthMark`.

Abstractions: `now_secs` never goes back; the scan of `least_conn` is one step
(its result is a choice only); the number that `random` derives from the second
is the constant `Mix`; relaxed atomics are sequentially consistent.

### LimitReq - `limit_req/mod.rs`, called at `server/handler.rs`

`ReadNow` is `Instant::now()`, `Take` everything under the lock of the bucket.
The floating-point numbers are counted in fractions of which `One` make a token.
`evict_idle` is never called and has no action.

### ScanDetector - `scan_detector/mod.rs`, called at `server/handler.rs`

`Gate` is `is_blocked` at the start of a request, `ReturnEarly` every exit of
the handler that is not recorded, `ReadNow` and `Record` the two halves of
`record` (before and under the lock), `Gc` a round of the collector. What a
request may add (an error, probe paths it matches) is a member of `Outcomes`;
the thresholds are rationals.

### UserRegistry - `multiuser/mod.rs`

`by_id`, `by_key`, `by_domain` are the maps, `file` is `users.toml`. `InsertId`,
`InsertKey`, `Domain` are `create_user`; `RemoveId`, `RemoveKey`, `Domain` are
`delete_user`; `Snapshot`, `Truncate`, `Write`, `PersistFails` are `persist`
(iteration over the map, opening the file, writing it, its errors); `Crash` and
`Restart` end and start the process, the latter with `reload`. A write into a
file that another request has written meanwhile leaves what `Overwrite` says.
`std::fs::write` empties the file before it writes, and the write itself is not
one step: `WritePart` is a write that the process does not live to finish and
leaves what `CutShort` says, a first part of the text that may end at a user or
within one. A request that a kill meets between the opening of the file and the
end of the write has ended `"torn"`.

Abstractions: ids and keys are fresh (`FreshIdsAssumption`). When `/dev/urandom`
cannot be opened they are all zeros (`multiuser/mod.rs:196-214`), the same for
every user, and the users replace each other in `by_id` and `by_key`: nothing
here is said of that case.

### AccessLog - `server/access_log.rs`

`Log` is `Logger::log`, `Open` the start of the writer task, `Receive` the
`recv` with `ring_push`, `WriteLine` a write through the `BufWriter`. The file
is tokio's: it takes a full buffer, says Ok and writes it behind the task's back,
so a failure (`LineLost`, which may have written a part) shows when the next full
buffer is handed over (`LineFails`). `LastFlush` is the end of the loop, after
which the receiver is dropped. `lost` holds the lines of the failed write; one
that was cut counts as lost. (`LogInit`, `LogNext`, `LogSpec` are the specification, so that the
module can stand beside others.)

### HttpConnection, Stats - `server/listener.rs`, `server/handler.rs`, `stats/mod.rs`

The client's `Send` and `HangUp` put the pieces of a request (line, headers,
parts of the body) on the wire; `Read` takes any number of those that arrived.
`TooManyRequests`, `ReadTimeout`, `ReadEnd` are the other ways out of the head
of the loop; `Handle` is `handle` with the outcomes of `dispatch` (one operator
per kind of exit, in the order of its stages); `Write`, `WriteFails`,
`TunnelEnds` the end of the loop. What is in the buffer is parsed from its first byte, also
when that byte stands in the middle of a request: bytes of a body that are read
alone may read as a request line (`MayParse`), and then they are handled as a
request. `Stats` has the accesses of a request
(`RequestBegins`, `RequestEnds`, `CountLatency`) and of the reader
(`ReadTotal`, `ReadBucket` per bucket, `Report`). A request takes a time out of
`Latencies`; `LatencyBucket` is the bucket it is counted in, `Shown` the bucket a
percentile is found in, `Microseconds` what is shown for it.

Abstractions: the end of the handler and the first access of `record_request`
are one step, the last access and the write of the response another (no other
task reads both sides); bytes and status classes are counted like the histogram
and left out; the Connection header is the one the server writes, so a second
one from a FastCGI application or `add_header` is not seen; the cache (built disabled by `main`) and the ACME store (never filled) give no
response. A time-out needs an empty wire: the model has no reader so slow that
data waits for a minute.

### Lifecycle - `main.rs`, `icmp_guard/mod.rs`, `firewall/`, `server/listener.rs` (bind)

`run[r]` is one process: `Start`, `CheckLock`, `Apply` (one command at a time),
`WriteLock` are `IcmpGuard::setup`; `Spawn` and `Bind` the listeners; `OpenPort`,
`Serve` the firewall; `Arm`, `CtrlC`, `ClosePort`, `Exit` the task for Ctrl-C,
which exits without running destructors; `Dies`, `HandlesEnd`, `RemoveByText` or
`ListRules` and `RemoveByHandle`, `Unlock`, `End` the return of `async_main` and
the teardown. `Kill` ends a run anywhere; `Stranger` lets another program take a
pid. `chain` and `rules` are the rules on the host, in order, with what `ufw`,
`nft` and `iptables` do to a rule that is there twice. `past` *(history)*
records what excuses a property: two setups at once, a pid file that could not
be written, a shared port, a run that ended otherwise.

### Sites, Backups, Management - `api/sites.rs`, `api/mod.rs`, `stats/mod.rs` (API limiter)

`Sites` is one site as files: creation goes through `MetaDir`, `Webroot`,
`Index` or the WordPress steps (`WgetStarts`, `WgetEnds`, `Untar`, `CopyFiles`,
`Database`), `OpenConf` and `WriteConf`, the certificate (`LetsEncrypt` or
`CustomCert`), `ReadConf` and `RewriteConf` (the TLS block put in), `WriteMeta`;
deletion through `RemoveConf`, `RemoveMeta`, `RemoveWebroot`. Any of them may
fail, and the code either answers 500 (`Fails`) or goes on (`Ignored`). A write
of `meta.json` that fails may leave one that does not parse (`"torn"`), and the
site is listed as unknown.

`Backups` has the limiter (`ReadSecond`, `Allow`: the second is read before the
window is locked), a backup (`MakeDir`, `CopyConf`, `ConfCopied`, `CopyUsers`,
`UsersCopied`, `Answer`), a restore (`Find`, `ConfBack`, `UsersBack`, `Reload`,
which nobody listens to), a deletion (`RemoveFiles`, `RemoveDir`), and those who
change the files (`ChangeUsers`, `Persist`, `Edit`). A copy truncates its target
before it fills it. The contents of a file are the number of the change that
made them. Histories remember what was saved, granted and overlapped.

### ConfigParser - `config/parser.rs`, `config/types.rs`

A text is a sequence of words and of the tokens `;` `{` `}`. `stack` holds the
parsers at work, innermost last, as the recursive calls do: each knows its file,
its position, its include depth, the block it fills and the files an include has
still to read. One action is one turn of a loop: `Directive`, `Open`, `Close`,
`Stray`, `Unknown`, `UpstreamSkips`, `Event`, `EventsEnd`, `Include`, `NextFile`,
`Search` (what an include in `http` does instead of parsing), `EndOfFile`. A
pattern that matches no file queues none (`Matches`). The loops of `upstream` and
`events` do not skip a block they do not know: they pass over its opening brace
and take its closing one for their own (`Skippable` and `EventsPlain` name the
texts without such blocks; the run has texts with them). A
block keeps its directives with their words; `Refused` names the words that are
an error. The constants are texts (sequences of words) and limits, no more: the
text may be anything. A parser can be behind the end of its file, by one for each
block in it that the end has closed, as the code's indices are: at most four.

### Routing - `router/mod.rs`, `rewrite/mod.rs`, `auth/mod.rs`

Operators on parsed blocks: `SelectServer`, `SelectLocation` (a fold over the
locations with four candidates, as the loop), `Rewrite`, `CheckBasicAuth`.
`Preferred` is the reference: the location that none beats by rank, length and
place. Regular expressions, wildcards and password hashes are constants; `Spell`
gives the pieces of a word, where a prefix is compared.

### Exchange - `proxy/mod.rs`, `fastcgi/mod.rs`, `websocket/mod.rs`

`exchange` is one exchange with a backend. The wire of an answer is a sequence
of pieces (a part of the head, its end, data, the parts of a last chunk) or of
FastCGI records. `BackendSends` lets any number of pieces arrive,
`BackendCloses` and `BackendStalls` end the connection or let the read's timer
fire; `Send`, `Write` (the head and the body of a FastCGI request, which unlike
connecting and reading have no time-out), `ReadProxy`, `ReadWebSocket`, `ReadRecord`, `ReadEnd`,
`ReadTimeout` are what the code does then. `IsComplete` is
`is_response_complete`, `Records` what a body is cut into, `CgiResult`
`parse_cgi_response`. `Held` is a FastCGI request whose application has stopped
reading while more of the body is to be written than the connection takes
(`Buffer`). Each exchange has its own connection: nothing is ever put
into the pool. `UpstreamGroup` handlers are left to `Upstream`. The constants say
what a wire is: pieces or records, data only behind the end of the head (before
it everything is head), nothing behind the record that ends a FastCGI request,
and a chunk of the body shorter than what the two bytes of a record's length can
tell (the code cuts at 65535). `SelfDelimited` says which answers tell where they
end.

### Serving - `server/handler.rs` (dispatch), `server/static_files.rs`, `http/gzip.rs`, `http2/mod.rs`

`Load` reads the configuration; then `job` is one request: `Arrive`, `Route`,
`Authorize`, `Limit`, `Dispatch`; `Resolve`, `Try`, `Directory`, `Index`,
`Exists`, `Within`, `Metadata`, `Read` are the looks of `serve_static` at the
file system, one action each, between which `Change` may replace, cut or delete a
file; `Exchanging`, `Backend` and `FromBackend` the exchange; `Compress` and
`Finish` (with `Bridged`, the translation for HTTP/2) the answer. `job.came` is
what the read that brought the head of the request brought of its body and of
what the client sent behind it (`behind`); over HTTP/2 the body is read to its
end first. `BodyRaw` is the part that goes to a FastCGI application. An error page
goes through the same looks again. Answers are a status, the Content-Length that
is declared, and the length of the body that is sent.

Abstractions: a path is a sequence of pieces, its decoding a constant; the
request has been read (`HttpConnection`); a request is under way alone, as
requests share none of this state.

## 4. Runs

TLC finishes each passing run in under three minutes with two workers.

| Run | Shows | Instance, and why it is enough |
|---|---|---|
| `upstream_accounting` | counters equal the requests that hold a connection; the group implements `ConnGauge`; types | 2 peers, 3 requests under `least_conn` with symmetry, one failure marks a peer, `set_nodelay` may fail: three requests are enough for two to meet on a peer while a third chooses. 32-bit counters have 5 values, so a counter that wraps below 0 is seen at once. Clock to 3 |
| `upstream_health` | no mark lost, bounded outage; every request answered, every health round ends | 2 peers, weights 2 and 1, 2 requests, 2 failures for a mark, time-out and interval of 1 s, clock to 2: a round of probes can meet each half of each request's `mark_fail` |
| `limit_req_bound` | what the limiter does guarantee | 2 connections of one client with bursts 1 and 2, one of another; half a token per unit of time, clock to 3: partial refills, both caps, times out of order |
| `scan_blocks` | blocks last, reports keep their distance | 2 requests of one client at a time, a whitelisted one; window 1, block 3, day 5, collector every 2, clock to 6: blocks begin and end, windows and records expire, a day passes |
| `registry_concurrent` | a user can authenticate; without overlap the file agrees and nothing dangles | 3 creations (two share a domain) and the deletion of the first user, any write may fail, a kill at any point, in the middle of a write too, and restarts (1.9 million states) |
| `log_writer` | ring recent; file, one lost write and buffer in order; everything logged gets there | 5 entries, ring of 3, buffer of 2: both overflow, and a failed write is met by the next one; the disk may fail at any write, after any part of it |
| `http_connection` | counters balance, answers in order, whole requests handled, close kept, percentiles right at some moment of their reading, every connection ends | 2 connections, requests with and without a body, every cut of the stream into reads, pieces that may read as requests, at most 2 requests each, a window of 2 pieces, histogram of 2 buckets with a time for each (840 thousand states). With so few requests only the target of p99.9 is ever above 0; the theorem is about all of them |
| `http_split_headers` | *violated*: headers are buffered up to `MAX_HEADER_BUFFER` | one request, cut after its line |
| `lifecycle` | one owner of the ICMP rules; an owner's host is protected; ports follow the runs | 3 runs, 2 up at once, so that a third meets what two have left; one kill, one failing command; 2 pids, so that one comes back; six hosts: every tool of the guard and of the firewall, off and dry-run (416 thousand states) |
| `management` | what an answer about a site says holds; a TLS block has its files; a restore brings back what was saved; the API limit holds | nine sets of two or three requests that meet on one site or one backup, one fault anywhere, 2 requests a second, 2 seconds (384 thousand states) |
| `serving` | the servers are those of the text, reading ends; the location is the preferred one; Content-Length fits; answers are whole; FastCGI is sent what one read brought of a body; exchanges end | some 2,700 texts: every pair of six pieces in an `http` block with six starts and four ends (files that include each other, too deep, missing), blocks nobody knows in every block the parser knows, shorter ones with each token missing, and those cut short by up to three, so that the end closes several blocks; 17 of them then serve some forty requests: sixteen orders of ten locations of every kind; a file changes once, sizes to 3; 19 answers of backends in any pieces, cap of 8 pieces, records of 2 bytes that wrap at 4; bodies of which any part came with the head, with bytes of a next request behind them, up to one longer than the 3 bytes a connection takes (194 thousand states) |
| `events_absorbed` | *violated*: "events { worker_connections N; } - absorb the block" | the same texts, among them `events {}` |

`CHECK_DEADLOCK FALSE` is set where every task may be finished and every bound
reached; in `LimitReq` something can always happen,
in `Serving` only `Done` may repeat, and deadlock is checked in both.

Bounds are constants (`MaxClock`, `MaxRequests`) or lie in the instance (the
number of requests, entries or users), and no property holds because of one of
them: each property is violated, in the same instance, by a mutant of the code
given next to the definition it changes.

`TypeOK` is in the runs of the modules where it says more than types: that an
index is in range, a counter in its width, a directory there before its files.
Elsewhere (`AccessLog`, `Lifecycle`, `ScanDetector`, `Serving`, `UserRegistry`)
it documents the state; that of `ScanDetector` and `Serving` is proved.

### What the violations say

- `http_split_headers`: each read is parsed on its own, so a request whose
  headers come in two reads is answered 400.
- `events_absorbed`: an `events` block without directives leaves its closing
  brace to `parse_root`, which takes it for the end of the file
  (`config/parser.rs:210`): what follows is lost, and the load succeeds. (So does
  an `events` block with another block in it.)

More statements of the documents that the code does not keep have a property and
a configuration each, to be run by hand (`tlc -config <name>.cfg <module>`):

| Configuration | Property | Why |
|---|---|---|
| `MCHttpConnectionActive` | `ActiveIsOpen` | "current open connections" (`stats/mod.rs:15`, `docs/web-ui.md:39`): `active` is raised and lowered by the handler, so a connection that waits for its next request, writes or tunnels is not in it. `EveryRequestCounted` is about what it is: requests in the handler |
| `MCHttpConnectionP99` | `ShownIs99th` | "99th percentile response time" (`docs/web-ui.md:41`): the percentiles are computed per mille but asked for 50, 90 and 99 (`stats/mod.rs:71-73`), so they are the 5th, 9th and 9.9th |
| `MCHttpConnectionBucket` | `ShownInItsBucket` | "Bucket i covers [2^(i-1), 2^i) us; return midpoint" (`stats/mod.rs:92`): bucket i holds 2^i to 2^(i+1)-1 (`:80-84`) and is shown as 2^(i-1), below every time in it. `ShownInTime` is about the bucket, not about that number |
| `MCUserRegistryReorder` | `CreatedIsPersisted` | `persist` writes a snapshot without a lock; of two requests at once the older snapshot can come last, and a user whose creation was acknowledged is not in the file |
| `MCUserRegistryTorn` | `CreatedIsKept` | requests one by one, and a kill between the opening of `users.toml` and the end of the write (`multiuser/mod.rs:154`): the users acknowledged before are gone. `FileAgrees` is about kills at other moments |
| `MCServingBody` | `RequestBodyIsSent` | "3. STDIN records (request body)" (`fastcgi/mod.rs:97`): what came of a body in a later read than its head is not waited for (`server/handler.rs:128-134`), and CONTENT_LENGTH is the length of the rest. `RequestArrives` is about what one read brought |
| `MCServingUnknown` | `UnknownIsSkipped` | "unknown -> WARN + skip" (`config/parser.rs:3`): `http { upstream g { map x { a; } } server { } }` loads without the server, because the loop of `upstream` (`:500-508`) takes the brace that closes `map` for its own. `LoadedAsWritten` leaves such texts out |
| `MCUpstreamStaleMark` | `MarkLasts` | the time read on entering `connect` is used after an attempt of up to 10 s: a mark is shorter than `fail_timeout` by that time |
| `MCLimitReqTokenBucket` | `TokenBucket` | `last_check` can move back, and an interval is credited twice; `GrantBound` says how much that can yield |
| `MCAccessLogRecovers` | `WriterRecovers` | "Re-open and retry on next entry": after a failed write that was reported nothing is logged any more, to the file or to the ring |
| `MCManagementLive` | `RestoreIsLive` | "triggers a live reload": nobody receives on the reload channel, and the accounts in memory stay |

What properties leave out on purpose, because the code does not keep it: setups
of two runs that overlap, and what a run that ended by SIGTERM, a kill or
`exit(0)` leaves on the host (`OneOwner`, `FirewallFollowsRuns`); the users of a
backup whose copy failed without a word, and backups that other requests
overlapped (`RoundTrip`); the API limit once a request was held up between the
clock and the lock (`RateKept`); the file of users after requests that overlapped
(`FileAgrees`, `NoDanglingEntry`); a mark that is too short (`DownBounded` is the
upper bound). The hazards they belong to say so in `PROJECT.json`.

Other places where documents and code part, or where the code has a limit worth
knowing, seen while reading and not given a run:

- Configuration. `include` at the root before `http` loses that file's servers;
  in `http` an include drops servers past `MAX_SERVER_BLOCKS` in silence; a stray
  `;`, `{` or `}` at the root ends reading with success; a bare `server {}` there
  is skipped. `default_server` is read and not used (`router/mod.rs:15`).
  `LocationHandler::UpstreamGroup` is never constructed, so a `proxy_pass` to the
  name of a group (`docs/configuration.md:128`) is a host name. `rewrite ... last`
  does not select the location again (`types.rs:302`).
- Reload. SIGHUP and `POST /api/reload` load a configuration and drop it
  (`main.rs:246`); a restore does not reload the accounts (`api/mod.rs:471`).
- Proxy. The pool is never filled, because the header looked for has been
  stripped (`proxy/mod.rs:161`, `:295`). The body of a request is not forwarded
  (`server/handler.rs:417`), and the client's Content-Length goes out next to the
  one of the empty body. A chunked answer is passed on with its chunk framing but
  without the header that announces it, and, like one that ends with the
  connection, without a Content-Length. A backend that keeps the connection open
  after an answer to HEAD, or a 204 or 304, without a Content-Length is waited
  for until the read time-out, and then a 502 is sent. An answer the backend cuts
  short is passed on with its full Content-Length. Data that reads like the last
  chunk ends the answer (`:254`). The `url` crate gives every upstream the path
  `/`, so the location's prefix is always stripped (`:175`).
- FastCGI. Nothing limits the time a write may take (`fastcgi/mod.rs:88-103`), so
  an application that stops reading holds the request. Where output has both ends of a head, CR LF CR LF wins even in the
  body (`fastcgi/mod.rs:266`, whose first arm says nothing the second does not). Nothing
  limits the records of one answer (`:108`).
- HTTP/2. `hdrs.insert` keeps the last of repeated headers, such as Set-Cookie;
  an answer `httparse` refuses becomes the body of a 200 (`http2/mod.rs:149`).
- Answers. gzip is applied to 206 and to bodies that come compressed from a
  backend; 413 and 429 declare lengths of 22 and 19 for bodies of 21 bytes;
  `bytes=0-` of an empty file computes a last byte below zero
  (`static_files.rs:235`), a panic with overflow checks, and no range without them;
  a file deleted between two looks is a 403.
- Upstream groups. With all peers down a group refuses, though a comment announces
  fail-open (`upstream/mod.rs:98`); with two servers of one address `release`
  uncounts the first (`:153`).
- Log. The flush announced at `server/access_log.rs:127` does not exist: a line
  stays in the buffer until others fill it. A write that fails is noticed one
  buffer later.
- Accounts. A domain given to two users belongs to the last, and is lost when
  either is deleted (`multiuser/mod.rs:139`). Without `/dev/urandom` every user has
  the same id and key of zeros (`:196-214`).
- ICMP guard. `-I` puts the DROP rule in front of the ACCEPT inserted before it
  (`icmp_guard/mod.rs:117`).

## 5. Fairness

Safety needs none. `Upstream!Fairness` and `HttpConnection!FairSpec` assume weak
fairness of each task's steps: tokio polls every ready task, and every wait in
them ends. Connects and probes are under a time-out; the exchange with a peer
and the reading of a request are under a time-out per read (a peer that sends
without an end is assumed not to exist); the arrival of requests,
the end of a sleep, the client's `Send` and `HangUp` are not assumed. The write
of a response has no deadline in the code (`DEFAULT_SEND_TIMEOUT_S` is used
nowhere), so `ConnectionEnds` rests on a client that either reads or goes away;
tunnels are excluded for the same reason. In `AccessLog` (`FairLogSpec`) the writer
task is fair: the disk answers, well or badly.

`Serving!FairSpec` assumes weak fairness of `Load` (sequential code), of
`Exchanging` (a polled task) and of `Backend`: connecting and each read are under
a time-out, and so is the writing of the head of a request, so either something
arrives, the connection ends, or the timer fires. It does not say which, and a
backend may send for ever. The writes of a FastCGI request have no time-out, and
nothing is assumed of an application that has stopped reading: `Write` is then
not enabled for as long as it likes. `ExchangeEnds` names the two exceptions that
are left: a FastCGI application that never ends its answer, and one that reads no
more of a body longer than what the connection holds (`Held`).

## 6. Proofs

TLAPS checks, for every value of the constants that satisfies the named
assumptions of the modules, that the specification has these properties. A proof
module extends the module it is about and holds the inductive invariant, one
lemma for each part of it that every step keeps, and the theorems.

**`UpstreamProofs`**

| Theorem | Statement | Argument |
|---|---|---|
| `UpstreamTypes` | `TypeOK` | inductive; lemmas say that each policy selects an index of the available peers, so the code's indexing and `unwrap` are safe, and that the wrapping counters stay in range |
| `UpstreamAccounting` | `ConnAccounting` | `TypeOK /\ ConnAccounting` is inductive: each step adds one holder, takes one away or leaves them as they are (`OneMoreHolder`, `OneHolderLess`, `SameHolders`). The counters do not wrap because there are fewer requests at a time than values of the counter |
| `UpstreamTracks` | `DistinctAddrs /\ Spec => TracksConnections` | refinement of `ConnGauge`, on top of the two above: `StartConnect` is `Acquire`, `ConnectFail` and `Release` are `Drop`, `AllPeersDown` is `Refuse`, every other step stutters |
| `UpstreamMarks` | `NoLostMark` | inductive with `TypeOK`: whoever lifts `fails` to the limit is on its way to the mark; whoever clears the mark is on its way to clear `fails` |
| `UpstreamBoundedOutage` | `DownBounded` | strengthened by `TimesArePast`: nobody works with a time from the future |

**`LimitReqProofs`** - `LimitReqTypes`, `LimitReqGrantBound`, `LimitReqFirstGrant`.
`IInv == TypeOK /\ Credit /\ FirstGrant`: what a client was granted and what its
bucket still holds is covered by burst, refill up to `last_check`, and the refill
of the time `last_check` went back by. `GrantBound` alone is not inductive: it
says nothing of the tokens left in the bucket.

**`ScanDetectorProofs`** - `TypeOKHolds`, `BlockLastsHolds`, `ReportsSpacedHolds`.
No request holds a time ahead of the clock, so a record is replaced only after
its block (`BlockLasts` is an action property and needs no more). For
`ReportsSpaced` the invariant is `Spaced`: until a block's length after a report
the client has a record that is blocked until then - so the collector does not
drop it and `record` does not get to a second report.

**`UserRegistryProofs`**

| Theorem | Statement | Argument |
|---|---|---|
| `UserCanAuthenticateHolds` | `UserCanAuthenticate` | `KeyInv`: nothing is known of a user whose creation has not begun, a deletion removes the id before the key, and an id without its key belongs to the creation that is about to insert it |
| `NoDanglingEntryHolds` | `NoDanglingEntry` | `DanglingInv`: while in turn, what a creation or a deletion has done so far is determined by its stage, domain by domain, and a domain leads only to a user that has it |
| `FileAgreesHolds` | `FileAgrees` | `FileInv`: while in turn and without failures, the snapshot is `by_id` as far as it went, so what is written is all of it. That the users are those the answers name (`Survivors`) needs what the maps and the file say at each stage of the one request under way (`MapSays`, `FileSays`), that nobody has deleted a user whose creation has not ended (`NotYetDeleted`), and that no kill struck while the file was open |

**`HttpConnectionProofs`** - the connections and the access log. Of the log,
`RingIsRecentHolds`: the ring is the end of the lines taken out of the channel,
of the ring's size; `FileInOrderHolds`: file, lost write and buffer together are
those lines, up to the one in hand, wherever the `BufWriter` spills and whatever
part of a write fails. Of the connections:

| Theorem | Statement | Argument |
|---|---|---|
| `TypeOKHolds` | `TypeOK` | from `Typed`, `Counted` and `ReaderSane` together: the bounds of the counters are those of the sums |
| `CloseIsKeptHolds` | `CloseIsKept` | an action property; a connection told "close" is closed in the same step |
| `AnswersInOrderHolds` | `AnswersInOrder` | `InOrder`: what is in the buffer and on the wire is behind what was answered, and rises; an answer to bytes from the middle of a request needs a read that was not exact |
| `WholeRequestsHandledHolds` | `WholeRequestsHandled` | `Whole`: requests are chained on the wire, and while every read is exact the buffer starts at the border of one |
| `EveryRequestCountedHolds` | `EveryRequestCounted` | `Counted`: `active` is the number of connections in the handler, total and histogram balance with the requests read. The sums over connections and buckets are handled by lemmas proved by induction on finite sets, from the definition of `SumFunction` |
| `ShownInTimeHolds` | `ShownInTime`, for every target and number of buckets | `ReaderSane`: each bucket read lies between what it held when the total was read and what it holds now. The bucket found is the first whose sum reaches the target: the earlier sums are smaller, the later ones larger |

**`LifecycleProofs`**

| Theorem | Statement | Argument |
|---|---|---|
| `OneOwnerHolds` | `OneOwner` | `OwnerInv`: while no setups raced and the pid file was written, it names the owner and nobody sets up rules. Needs `StageInv` (what a run has at each stage) and `OnePid` |
| `OwnerProtectedHolds` | `OwnerProtected` | counting: with iptables there are as many rules of a text as runs that have one (`TextInv`), so the deletions of others - of the first that reads alike - leave one; with nft what an owner inserted is there (`HandleInv`) |
| `FirewallFollowsRunsHolds` | `FirewallFollowsRuns` | counting: a port has as many rules as runs that keep it open, or one with ufw (`FirewallInv`) |

**`ManagementProofs`**

| Theorem | Statement | Argument |
|---|---|---|
| `TlsHasCertificateHolds` | `TlsHasCertificate` | `TlsInv`: a request that is about to write a TLS block has its two files, and no step takes one away |
| `SiteIsAsAnsweredHolds` | `SiteIsAsAnswered` | `AnswerInv`: how far an undisturbed request has come is determined by its stage (`Reached`), such a request is alone (`Alone`), and an archive cut short belongs to a download under way, unless one has failed (`Archive`) |
| `RoundTripHolds` | `RoundTrip` | `RoundInv`: one request is pending at a time; a directory nobody writes to holds what was saved (`Faithful`); the files are as the stage of the backup or restore says (`Midway`) |
| `RateKeptHolds` | `RateKept` | `RateInv`: while nobody is late, the window is the latest second in which anything was granted, and counts at least that |
| `TypeOKHolds` | `TypeOK` | the contents of files are bounded by the changes that are still to come (`Counted`) |

**`ServingProofs`** - from the text of the configuration to the answer.

| Theorem | Statement | Argument |
|---|---|---|
| `TypeCorrect` | `TypeOK` of `Serving`, with `ConfigTypeOK` | `TypeInv`, whose heart is `InBounds`: parsers are `Nested` as the calls allow (which kind calls which, what each has built so far), and each is `Bounded` by its kind - its height on the stack, how far behind the end of its file it may be, how deep it is included - and its caller has `Room` for what it reads. The stack alone is not inductive: a return is within the caller's limits only because the callee was within tighter ones |
| `LoadAdvances` | every turn of a parser's loop ends the reading or leaves less to read, in an order without infinite descent; for any text, and files that include themselves | `ToRead` lists, for each depth, what is left of the parser's file and how often its loop can turn yet at the same place (files still to include; 1, 2 or 0 for itself, a waiting file, a waiting block). `Nearer` compares the outermost difference first and is well-founded (`NearerEnds`). A return has to leave the caller further on, which needs `Ahead`: a parser of a block is behind its caller's place in the same file |
| `RoutedByPriorityHolds` | `RoutedByPriority` | `RouteInv`: behind a request there is a configuration that has been read, so its servers and locations are sequences. `SelectedIsPreferred`: after each location the four candidates of the loop are the best of their rank so far (`HasBest`, kept by `PassKeepsBest`), so the one returned is what no other beats |
| `LengthIsBodyHolds` | `LengthIsBody` | `JobInv`: a request looks at files or asks a backend, never both; while a file is read its metadata is the file's unless it changed; the answer an error page is looked up for is whole by itself |
| `RequestArrivesHolds` | `RequestArrives` | `BodyInv`: the exchange under way has the body `BodyRaw` of the request in hand (`Linked`), which over HTTP/2, or when enough came with the head, is all of it; and what was sent is that body, by the lemma `RecordsWhole`: its records add up to it, since every chunk fits the length field |
| `AnswerIsWholeHolds` | `AnswerIsWhole` | `ExchangeInv`: what has been read is a part of the wire from its start, the connection is `Reading` only while that part is not complete, and an answer that was `Taken` is what the parser makes of it. Data is counted as a set of places, so that records or pieces can be cut anywhere (`DataOfBoth`, `DataOfRecords`); `EndIsSeen` says that a self-delimited answer is complete when the last piece is there |

Loops of the code are folds (`FoldLeft`, `FlattenSeq`), whose definitions choose a
function that satisfies a recursive equation. The lemmas `FoldExists`,
`SumBySteps`, `FlatBySteps` and `BestBySteps` show that there is one and how it
goes on by a step, by way of the smallest number for which a statement fails,
instead of by the library's induction theorems, which take an operator.

Only the named assumptions on constants are used (`...Assumption` in each module).
`ConnAccounting` and the refinement have the premise that the addresses of the
peers differ, which the configuration does not enforce; the other premises
("in turn", "not late", "not raced") are parts of the properties and are
explained with them.

A proof that would not go through corrected the model: the step `Find` of
`Backups` kept the history `restored` when a restore began while the
configuration was already cut short by one that failed; it now forgets it
whenever a restore begins to write. `ConfigTypeOK` said that a parser is at most
two places behind the end of its file; a text cut short by two closing braces
leaves it four behind, which the texts of the run did not have and now do.
`SelfDelimited` and `AnswerIsWhole` were made precise where a proof could not
tell whether an empty wire, or a head without an end, says where it ends.

Only model-checked:

- liveness (`RequestAnswered`, `HealthRoundEnds`, `ConnectionEnds`,
  `LoggedIsWritten`, `ExchangeEnds`, `LoadEnds`): liveness under fairness is out
  of the prover's reach. `LoadAdvances` is the part of `LoadEnds` that is about
  the parsers; that a turn is always possible, and that it is taken, is left to
  TLC;
- `LoadedAsWritten`: it compares what the parsers have built with a reference
  read off the braces of the whole text, for well-formed texts only. An inductive
  invariant would have to say, at every turn of a loop in the middle of the text,
  which blocks lie before that place at every level, through `Written`, a
  recursive function over includes: an induction over the text in nearly every
  step. What is proved of reading is what holds whatever the text is;
- the violated properties of section 4, of course.

No module declares a recursive operator (folds and a recursive function are used).

## 7. Not modelled

The table in section 1 lists every component, `PROJECT.json` the state of each;
section 3 says what is abstracted.

- API sessions: no session ever exists. A login draws its token with
  `std::fs::read("/dev/urandom")`, which reads to an end that never comes
  (`api/mod.rs:95`).
- Response cache: built with a time to live of 0, which disables it
  (`main.rs:153`); with the model of a cache that is never used nothing would be
  said of the program.
- ACME client: `acme::run` has no caller.
- io_uring pool: an optional feature that replaces one read of a file and falls
  back to it.
- HTTP/2 framing and flow control, TLS, the encodings, regular expressions, URL
  and JSON parsing: libraries. Streams of an HTTP/2 connection share only what
  requests of different connections share.
- SIMD scanning: three implementations of the same scan; what the scan decides is
  in `HttpConnection`.
- The headers sent to a backend, the rewriting of its path, the parameters of
  FastCGI and the encoding of their lengths: text in, text out, with no state.
- NUMA pinning and XDP (calls to the operating system at start-up), the web pages.

`BandwidthTracker` is built and never called.
