------------------------------ MODULE Routing ------------------------------
(***************************************************************************)
(* Which server and location answer a request, and what they make of its   *)
(* path (src/src/router/mod.rs, src/src/rewrite/mod.rs, src/src/auth/      *)
(* mod.rs), as operators on the blocks the configuration parser builds.    *)
(***************************************************************************)
EXTENDS ConfigParser

CONSTANTS
  Names,    \* Names[w]: the kind of the server name w and the hosts it matches
  Spell,    \* Spell[w]: the pieces the path or pattern w is made of
  Regexes,  \* Regexes[w]: the paths the regular expression w matches
  UserFiles \* UserFiles[f]: the lines of a user file that can be read

ASSUME RoutingAssumption == \A w \in DOMAIN Spell : Spell[w] \in Seq(STRING)

(* The words of the last directive d of a block, or the default.           *)
Setting(block, d, default) ==
  LET found == SelectSeq(block.set, LAMBDA e : e[1] = d)
  IN IF found = <<>> THEN default ELSE Last(found)[2]
AllOf(block, d) == [n \in DOMAIN SelectSeq(block.set, LAMBDA e : e[1] = d) |->
                      SelectSeq(block.set, LAMBDA e : e[1] = d)[n][2]]

ServerNames(server) == ToSet(FlattenSeq(AllOf(server, "server_name")))

(* select_server: a name of a better kind wins, in any server; among       *)
(* names of one kind the first server; without a match the first of all.   *)
Kinds == <<"exact", "wildcard", "suffix", "catchall">>
Named(servers, kind, host) ==
  {n \in DOMAIN servers : \E w \in ServerNames(servers[n]) :
     Names[w].kind = kind /\ host \in Names[w].hosts}
SelectServer(servers, host) ==
  LET kinds == {k \in DOMAIN Kinds : Named(servers, Kinds[k], host) # {}}
  IN IF kinds = {} THEN 1 ELSE Min(Named(servers, Kinds[Min(kinds)], host))

(* LocationPattern: the kind of the pattern of a location, and its word.   *)
KindOf(location) ==
  LET h == location.head IN
  CASE Len(h) = 2 -> h[1]
    [] Len(h) # 2 /\ h[1] \in DOMAIN Spell /\ Spell[h[1]][1] = "@" -> "@"
    [] OTHER -> "prefix"
Pattern(location) == Last(location.head)
Size(location) == Len(Spell[Pattern(location)])
Fits(location, path) ==
  CASE KindOf(location) = "=" -> Pattern(location) = path
    [] KindOf(location) \in {"prefix", "^~"} ->
         {Pattern(location), path} \subseteq DOMAIN Spell /\ IsPrefix(Spell[Pattern(location)], Spell[path])
    [] KindOf(location) \in {"~", "~*"} -> path \in Regexes[Pattern(location)]
    [] OTHER -> FALSE

(* select_location: one pass over the locations keeps, of each kind, the   *)
(* best so far; 0 is none.                                                 *)
NoneBest == [exact |-> 0, no_regex |-> 0, regex |-> 0, prefix |-> 0]
(* Mutant of Better: of two patterns of the same length the later one wins. *)
Better_OrEqual(locations, n, m) == m = 0 \/ Size(locations[n]) >= Size(locations[m])
Better(locations, n, m) == m = 0 \/ Size(locations[n]) > Size(locations[m])
Best(locations, path) ==
  LET Look(best, n) ==
        LET kind == KindOf(locations[n]) IN
        IF best.exact # 0 \/ ~Fits(locations[n], path) THEN best
        ELSE CASE kind = "=" -> [best EXCEPT !.exact = n]
               [] kind = "^~" -> [best EXCEPT !.no_regex = IF Better(locations, n, @) THEN n ELSE @]
               [] kind \in {"~", "~*"} -> [best EXCEPT !.regex = IF @ = 0 THEN n ELSE @]
               [] OTHER -> [best EXCEPT !.prefix = IF Better(locations, n, @) THEN n ELSE @]
  IN FoldLeft(Look, NoneBest, [n \in DOMAIN locations |-> n])
SelectLocation(locations, path) ==
  LET best == Best(locations, path) IN
  CASE best.exact # 0 -> best.exact
    [] best.exact = 0 /\ best.no_regex # 0 -> best.no_regex
    [] best.exact = 0 /\ best.no_regex = 0 /\ best.regex # 0 -> best.regex
    [] OTHER -> best.prefix

(* apply_rewrites: the first rule whose expression compiles and matches.   *)
(* A rule without a flag, or with an unknown one, is "last".               *)
Flag(rule) == IF Len(rule) = 3 THEN rule[3] ELSE "last"
Rewrite(block, path) ==
  LET rules == SelectSeq(AllOf(block, "rewrite"),
                 LAMBDA r : r[1] \notin BadWords /\ path \in Regexes[r[1]])
  IN IF rules = <<>> THEN [status |-> "", path |-> path]
     ELSE [status |-> CASE Flag(rules[1]) = "redirect" -> "302"
                        [] Flag(rules[1]) = "permanent" -> "301"
                        [] OTHER -> "",
           path |-> rules[1][2]]

(* check_basic_auth: the first line of the user decides.  MD5 and SHA1     *)
(* hashes are denied.                                                      *)
CheckBasicAuth(user_file, credentials) ==
  /\ credentials.user # "" /\ user_file \in DOMAIN UserFiles
  /\ LET lines == SelectSeq(UserFiles[user_file], LAMBDA l : l.user = credentials.user)
     IN /\ lines # <<>>
        /\ lines[1].hash # "legacy" /\ lines[1].password = credentials.password

-----------------------------------------------------------------------------
(* The priorities router/mod.rs states, without the pass: exact, then the  *)
(* longest ^~, then the first regex, then the longest prefix.              *)
Rank(location) ==
  CASE KindOf(location) = "=" -> 4 [] KindOf(location) = "^~" -> 3
    [] KindOf(location) \in {"~", "~*"} -> 2 [] OTHER -> 1
Beats(locations, n, m) ==
  LET a == locations[n]  b == locations[m] IN
  \/ Rank(a) > Rank(b)
  \/ Rank(a) = Rank(b) /\ Rank(a) \in {1, 3} /\ Size(a) > Size(b)
  \/ Rank(a) = Rank(b) /\ (Rank(a) \in {1, 3} => Size(a) = Size(b)) /\ n < m
Preferred(locations, path) ==
  LET fit == {n \in DOMAIN locations : Fits(locations[n], path)}
  IN IF fit = {} THEN 0 ELSE CHOOSE n \in fit : \A m \in fit \ {n} : Beats(locations, n, m)
=============================================================================
