-------------------------- MODULE ManagementProofs --------------------------
(***************************************************************************)
(* The management of sites and backups, for any requests and any number of *)
(* failures: what the answers say of the files, however the requests       *)
(* overlap, and the rate limiter in front of them.                         *)
(***************************************************************************)
EXTENDS Management, TLAPS, FiniteSetTheorems, SequenceTheorems

-----------------------------------------------------------------------------
(* Sites: steps and types                                                  *)

(* The steps of the requests that are under way, and all of them.          *)
Work ==
  {"meta_dir", "webroot", "index", "wget", "fetch", "untar", "copy", "db",
   "open_conf", "conf", "letsencrypt", "custom", "append", "rewrite", "meta",
   "rm_conf", "rm_meta", "rm_webroot"}
SiteSteps == {"new"} \cup Work \cup SiteEnded

(* What a request to create a site asks for.                               *)
Creates(t) == Request[t].op = "create"

(* What a request holds, by what it asks for.                              *)
LEMMA RequestParts ==
  ASSUME NEW t \in SiteTasks
  PROVE  /\ Creates(t) \/ (Request[t].op = "delete" /\ Request[t].delete_files \in BOOLEAN)
         /\ Creates(t) =>
              /\ Request[t].type \in Types
              /\ Request[t].ssl \in {"none", "letsencrypt", "custom"}
              /\ Request[t].pem \subseteq {"cert", "key"}
              /\ Request[t].db \in {"none", "valid", "invalid"}
  <1>1. Request[t] \in Requests
    BY SitesAssumption
  <1> QED  BY <1>1 DEF Requests, Creates

FilesOf == AtMostOne(SUBSET {"index", "wp", "wp-config"})

(* What every variable of the sites holds.                                 *)
SitesShapes ==
  /\ todo \subseteq SiteTasks
  /\ at \in [SiteTasks -> SiteSteps]
  /\ buffer \in [SiteTasks -> Seq(Block)]
  /\ conf \in AtMostOne(Seq(Block))
  /\ meta \in {"none", "dir", "torn"} \cup Types
  /\ webroot \in FilesOf
  /\ pem \subseteq {"cert", "key", "certbot"}
  /\ tarball \in {"none", "part", "whole"}
  /\ unpacked \in BOOLEAN
  /\ fetched \in BOOLEAN
  /\ faults \in 0..MaxFaults
  /\ last \in SiteTasks \cup {NoTask}
  /\ clean \in [SiteTasks -> BOOLEAN]

(* What all steps of a request have in common.                             *)
Moved(t, from, to) ==
  /\ from \in Work /\ to \in Work \cup SiteEnded
  /\ at[t] = from
  /\ at' = [at EXCEPT ![t] = to]
  /\ last' = IF to \in SiteEnded THEN t ELSE last
  /\ Fine \/ Fault(t)
  /\ todo' = todo

SiteStep(t) == \/ Creates(t) /\ CreateStep(t)
               \/ Request[t].op = "delete" /\ DeleteStep(t)

(* Every action of create_site is such a step.                             *)
LEMMA CreateMoves ==
  ASSUME NEW t \in SiteTasks, Creates(t), CreateStep(t)
  PROVE  \E from \in Work, to \in Work \cup SiteEnded : Moved(t, from, to)
  <1>0. /\ Request[t].type \in Types
        /\ Request[t].ssl \in {"none", "letsencrypt", "custom"}
    BY RequestParts
  <1>f. FirstSetup(Request[t].type) \in Work
    <2>1. CASE Request[t].type \in {"static", "php"}
      BY <2>1 DEF FirstSetup, Work
    <2>2. CASE Request[t].type = "wordpress"
      BY <2>2 DEF FirstSetup, Work
    <2>3. CASE Request[t].type = "proxy"
      BY <2>3 DEF FirstSetup, Work
    <2> QED  BY <1>0, <2>1, <2>2, <2>3 DEF Types
  <1> USE DEF Moved, Step, Fails, Ignored, Work, SiteEnded
  <1>1. ASSUME MetaDir(t) PROVE \E from \in Work, to \in Work \cup SiteEnded : Moved(t, from, to)
    BY <1>1 DEF MetaDir
  <1>2. ASSUME Webroot(t) PROVE \E from \in Work, to \in Work \cup SiteEnded : Moved(t, from, to)
    BY <1>2, <1>f DEF Webroot
  <1>3. ASSUME Index(t) PROVE \E from \in Work, to \in Work \cup SiteEnded : Moved(t, from, to)
    BY <1>3 DEF Index
  <1>4. ASSUME WgetStarts(t) PROVE \E from \in Work, to \in Work \cup SiteEnded : Moved(t, from, to)
    BY <1>4 DEF WgetStarts, Fine
  <1>5. ASSUME WgetEnds(t) PROVE \E from \in Work, to \in Work \cup SiteEnded : Moved(t, from, to)
    BY <1>5 DEF WgetEnds
  <1>6. ASSUME Untar(t) PROVE \E from \in Work, to \in Work \cup SiteEnded : Moved(t, from, to)
    BY <1>6 DEF Untar
  <1>7. ASSUME CopyFiles(t) PROVE \E from \in Work, to \in Work \cup SiteEnded : Moved(t, from, to)
    BY <1>7 DEF CopyFiles
  <1>8. ASSUME Database(t) PROVE \E from \in Work, to \in Work \cup SiteEnded : Moved(t, from, to)
    BY <1>8 DEF Database
  <1>9. ASSUME OpenConf(t) PROVE \E from \in Work, to \in Work \cup SiteEnded : Moved(t, from, to)
    BY <1>9 DEF OpenConf
  <1>10. ASSUME WriteConf(t) PROVE \E from \in Work, to \in Work \cup SiteEnded : Moved(t, from, to)
    BY <1>10, <1>0 DEF WriteConf
  <1>11. ASSUME LetsEncrypt(t) PROVE \E from \in Work, to \in Work \cup SiteEnded : Moved(t, from, to)
    BY <1>11 DEF LetsEncrypt
  <1>12. ASSUME CustomCert(t) PROVE \E from \in Work, to \in Work \cup SiteEnded : Moved(t, from, to)
    BY <1>12 DEF CustomCert
  <1>13. ASSUME ReadConf(t) PROVE \E from \in Work, to \in Work \cup SiteEnded : Moved(t, from, to)
    BY <1>13 DEF ReadConf, Fine
  <1>14. ASSUME RewriteConf(t) PROVE \E from \in Work, to \in Work \cup SiteEnded : Moved(t, from, to)
    BY <1>14 DEF RewriteConf
  <1>15. ASSUME WriteMeta(t) PROVE \E from \in Work, to \in Work \cup SiteEnded : Moved(t, from, to)
    BY <1>15 DEF WriteMeta
  <1> QED
    BY <1>1, <1>2, <1>3, <1>4, <1>5, <1>6, <1>7, <1>8, <1>9, <1>10, <1>11, <1>12,
       <1>13, <1>14, <1>15 DEF CreateStep

(* So is every action of delete_site.                                      *)
LEMMA StepsMove ==
  ASSUME NEW t \in SiteTasks, SiteStep(t)
  PROVE  \E from \in Work, to \in Work \cup SiteEnded : Moved(t, from, to)
  <1>1. CASE Creates(t) /\ CreateStep(t)
    BY <1>1, CreateMoves
  <1>2. CASE DeleteStep(t)
    <2> USE DEF Moved, Step, Ignored, Work, SiteEnded
    <2>1. CASE RemoveConf(t)
      BY <2>1 DEF RemoveConf
    <2>2. CASE RemoveMeta(t)
      BY <2>2 DEF RemoveMeta
    <2>3. CASE RemoveWebroot(t)
      BY <2>3 DEF RemoveWebroot
    <2> QED  BY <1>2, <2>1, <2>2, <2>3 DEF DeleteStep
  <1> QED  BY <1>1, <1>2 DEF SiteStep

(* The steps of the requests, the arrivals, and nothing else.              *)
LEMMA SiteCases ==
  ASSUME [SitesNext]_siteVars
  PROVE  \/ \E t \in SiteTasks : Arrive(t)
         \/ \E t \in SiteTasks : SiteStep(t)
         \/ UNCHANGED siteVars
  BY DEF SitesNext, SiteStep, Creates

(* What a step of t does to the steps of all.                              *)
LEMMA MovedShape ==
  ASSUME SitesShapes, NEW t \in SiteTasks, NEW from, NEW to, Moved(t, from, to)
  PROVE  /\ at' \in [SiteTasks -> SiteSteps] /\ todo' \subseteq SiteTasks
         /\ last' \in SiteTasks \cup {NoTask}
         /\ faults' \in 0..MaxFaults
         /\ clean' \in [SiteTasks -> BOOLEAN]
         /\ at'[t] = to /\ at[t] = from
         /\ \A u \in SiteTasks : u # t => at'[u] = at[u]
         /\ \A u \in SiteTasks : clean'[u] => clean[u]
         /\ to \in SiteEnded => last' = t
         /\ to \notin SiteEnded => last' = last
  <1>1. /\ at' \in [SiteTasks -> SiteSteps] /\ todo' \subseteq SiteTasks
        /\ at'[t] = to /\ at[t] = from
        /\ \A u \in SiteTasks : u # t => at'[u] = at[u]
    BY DEF SitesShapes, Moved, SiteSteps
  <1>2. /\ last' \in SiteTasks \cup {NoTask}
        /\ to \in SiteEnded => last' = t
        /\ to \notin SiteEnded => last' = last
    BY DEF SitesShapes, Moved
  <1>3. CASE Fine
    BY <1>1, <1>2, <1>3 DEF SitesShapes, Fine
  <1>4. CASE Fault(t)
    <2>1. faults' \in 0..MaxFaults
      BY <1>4, SitesAssumption DEF SitesShapes, Fault
    <2>2. clean' \in [SiteTasks -> BOOLEAN] /\ \A u \in SiteTasks : clean'[u] => clean[u]
      BY <1>4 DEF SitesShapes, Fault
    <2> QED  BY <1>1, <1>2, <2>1, <2>2
  <1> QED  BY <1>3, <1>4 DEF Moved

(* The steps that change a variable; conf, webroot and pem hold at most    *)
(* one thing of their kind.                                                *)
LEMMA Touches ==
  ASSUME NEW t \in SiteTasks, SiteStep(t)
  PROVE  /\ conf' = conf \/ OpenConf(t) \/ WriteConf(t) \/ RewriteConf(t) \/ RemoveConf(t)
         /\ meta' = meta \/ MetaDir(t) \/ WriteMeta(t) \/ RemoveMeta(t)
         /\ webroot' = webroot \/ Webroot(t) \/ Index(t) \/ CopyFiles(t) \/ Database(t)
                               \/ RemoveWebroot(t)
         /\ pem' = pem \/ LetsEncrypt(t) \/ CustomCert(t)
         /\ tarball' = tarball \/ WgetStarts(t) \/ WgetEnds(t)
         /\ unpacked' = unpacked \/ Untar(t) \/ CopyFiles(t) \/ RemoveWebroot(t)
         /\ buffer' = buffer \/ ReadConf(t)
         /\ fetched' = fetched \/ WgetEnds(t)
  <1> USE DEF files
  <1>1. CASE MetaDir(t) \/ Webroot(t) \/ Index(t) \/ WgetStarts(t)
    BY <1>1 DEF MetaDir, Webroot, Index, WgetStarts
  <1>2. CASE WgetEnds(t) \/ Untar(t) \/ CopyFiles(t) \/ Database(t)
    BY <1>2 DEF WgetEnds, Untar, CopyFiles, Database
  <1>3. CASE OpenConf(t) \/ WriteConf(t) \/ LetsEncrypt(t) \/ CustomCert(t)
    BY <1>3 DEF OpenConf, WriteConf, LetsEncrypt, CustomCert
  <1>4. CASE ReadConf(t) \/ RewriteConf(t) \/ WriteMeta(t)
    BY <1>4 DEF ReadConf, RewriteConf, WriteMeta
  <1>5. CASE RemoveConf(t) \/ RemoveMeta(t) \/ RemoveWebroot(t)
    BY <1>5 DEF RemoveConf, RemoveMeta, RemoveWebroot
  <1> QED  BY <1>1, <1>2, <1>3, <1>4, <1>5 DEF SiteStep, CreateStep, DeleteStep

(* The blocks of a configuration, new ones with their sequence.            *)
LEMMA BlocksTyped ==
  ASSUME NEW t \in SiteTasks, Creates(t)
  PROVE  /\ Blocks(t) \in Seq(Block) /\ Tls(t) \in Block /\ <<>> \in Seq(Block)
         /\ <<"mixed">> \in Seq(Block)
         /\ Len(Blocks(t)) \in 1..2 /\ Blocks(t)[1] = Request[t].type
         /\ Len(Blocks(t)) = 2 => Blocks(t)[2] = "redirect"
  <1> DEFINE type == Request[t].type
  <1>1. type \in Block /\ "redirect" \in Block /\ "mixed" \in Block
    BY RequestParts DEF Block
  <1>2. Tls(t) \in Block
    BY DEF Tls, Block
  <1> HIDE DEF type
  <1>3. <<type>> \in Seq(Block) /\ Len(<<type>>) = 1 /\ <<type>>[1] = type
    BY <1>1
  <1>4. /\ <<type, "redirect">> \in Seq(Block) /\ Len(<<type, "redirect">>) = 2
        /\ <<type, "redirect">>[1] = type /\ <<type, "redirect">>[2] = "redirect"
    BY <1>1
  <1>5. Blocks(t) = <<type>> \/ Blocks(t) = <<type, "redirect">>
    BY DEF Blocks, type
  <1>6. <<>> \in Seq(Block) /\ <<"mixed">> \in Seq(Block)
    BY <1>1, EmptySeq
  <1>7. /\ Blocks(t) \in Seq(Block) /\ Len(Blocks(t)) \in 1..2 /\ Blocks(t)[1] = type
        /\ Len(Blocks(t)) = 2 => Blocks(t)[2] = "redirect"
    <2> DEFINE one == <<type>>
               two == <<type, "redirect">>
    <2>1. /\ one \in Seq(Block) /\ Len(one) = 1 /\ one[1] = type
          /\ two \in Seq(Block) /\ Len(two) = 2 /\ two[1] = type /\ two[2] = "redirect"
          /\ Blocks(t) = one \/ Blocks(t) = two
      BY <1>3, <1>4, <1>5
    <2> HIDE DEF one, two
    <2> QED  BY <2>1
  <1> QED  BY <1>2, <1>6, <1>7 DEF type

(* What conf holds after a step, with what has been read.                  *)
LEMMA ConfShape ==
  ASSUME SitesShapes, NEW t \in SiteTasks, SiteStep(t)
  PROVE  conf' \in AtMostOne(Seq(Block))
  <1>0. conf \in AtMostOne(Seq(Block)) /\ buffer[t] \in Seq(Block)
    BY DEF SitesShapes
  <1>1. CASE OpenConf(t)
    <2>1. conf' = {<<>>} \/ conf' = conf
      BY <1>1 DEF OpenConf
    <2>2. <<>> \in Seq(Block)
      BY EmptySeq
    <2> QED  BY <1>0, <2>1, <2>2 DEF AtMostOne
  <1>2. CASE WriteConf(t)
    <2>1. Creates(t)
      BY <1>2, StepsMove DEF SiteStep, DeleteStep, WriteConf, RemoveConf, RemoveMeta, RemoveWebroot,
                             Step, Fails, Ignored
    <2>2. conf' = conf \/ conf' = {Blocks(t)} \/ conf' = {<<"mixed">>}
      BY <1>2 DEF WriteConf
    <2> QED  BY <1>0, <2>1, <2>2, BlocksTyped DEF AtMostOne
  <1>3. CASE RewriteConf(t)
    <2>1. Creates(t)
      BY <1>3 DEF SiteStep, DeleteStep, RewriteConf, RemoveConf, RemoveMeta, RemoveWebroot,
                             Step, Fails, Ignored
    <2>2. conf' = conf \/ conf' = {<<>>} \/ conf' = {Append(buffer[t], Tls(t))}
      BY <1>3 DEF RewriteConf
    <2>3. Append(buffer[t], Tls(t)) \in Seq(Block) /\ <<>> \in Seq(Block)
      BY <1>0, <2>1, BlocksTyped, AppendProperties
    <2> QED  BY <1>0, <2>2, <2>3 DEF AtMostOne
  <1>4. CASE RemoveConf(t)
    BY <1>0, <1>4 DEF RemoveConf, AtMostOne
  <1> QED  BY <1>0, <1>1, <1>2, <1>3, <1>4, Touches

(* What webroot holds with one more file.                                  *)
LEMMA WithShape ==
  ASSUME SitesShapes, NEW file \in {"index", "wp", "wp-config"}
  PROVE  /\ With(file) \in FilesOf
         /\ \A fs \in webroot : fs \cup {file} \in With(file)
         /\ webroot = {} => With(file) = {}
  <1>1. webroot \in FilesOf
    BY DEF SitesShapes
  <1>2. webroot = {} \/ \E fs \in SUBSET {"index", "wp", "wp-config"} : webroot = {fs}
    BY <1>1 DEF FilesOf, AtMostOne
  <1>3. CASE webroot = {}
    BY <1>3 DEF With, FilesOf, AtMostOne
  <1>4. ASSUME NEW fs \in SUBSET {"index", "wp", "wp-config"}, webroot = {fs}
        PROVE  With(file) \in FilesOf
    <2>1. With(file) = {fs \cup {file}}
      BY <1>4 DEF With
    <2>2. fs \cup {file} \in SUBSET {"index", "wp", "wp-config"}
      OBVIOUS
    <2> QED  BY <2>1, <2>2 DEF FilesOf, AtMostOne
  <1> QED  BY <1>2, <1>3, <1>4 DEF With

(* Every step leaves at most one state of the site's directory.            *)
LEMMA WebrootShape ==
  ASSUME SitesShapes, NEW t \in SiteTasks, SiteStep(t)
  PROVE  webroot' \in FilesOf
  <1>0. webroot \in FilesOf /\ {} \in FilesOf /\ {{}} \in FilesOf
    BY DEF SitesShapes, FilesOf, AtMostOne
  <1>1. /\ With("index") \in FilesOf /\ With("wp") \in FilesOf /\ With("wp-config") \in FilesOf
    BY WithShape
  <1> QED
    BY <1>0, <1>1, Touches DEF Webroot, Index, CopyFiles, Database, RemoveWebroot

(* Every step keeps the types of the sites.                                *)
LEMMA SitesShapesStep ==
  ASSUME SitesShapes, [SitesNext]_siteVars
  PROVE  SitesShapes'
  <1>1. ASSUME NEW t \in SiteTasks, SiteStep(t) PROVE SitesShapes'
    <2>1. PICK from, to : Moved(t, from, to)
      BY <1>1, StepsMove
    <2>2. /\ at' \in [SiteTasks -> SiteSteps] /\ todo' \subseteq SiteTasks
          /\ last' \in SiteTasks \cup {NoTask}
          /\ faults' \in 0..MaxFaults
          /\ clean' \in [SiteTasks -> BOOLEAN]
      BY <2>1, MovedShape
    <2>3. conf' \in AtMostOne(Seq(Block)) /\ webroot' \in FilesOf
      BY <1>1, ConfShape, WebrootShape
    <2>4. meta' \in {"none", "dir", "torn"} \cup Types
      <3>1. CASE MetaDir(t)
        BY <3>1 DEF MetaDir, SitesShapes
      <3>2. CASE WriteMeta(t)
        <4>1. Creates(t)
          BY <1>1, <3>2 DEF SiteStep, DeleteStep, WriteMeta, RemoveConf, RemoveMeta, RemoveWebroot,
                             Step, Fails, Ignored
        <4> QED  BY <3>2, <4>1, RequestParts DEF WriteMeta, SitesShapes
      <3>3. CASE RemoveMeta(t)
        BY <3>3 DEF RemoveMeta, SitesShapes
      <3>4. CASE meta' = meta
        BY <3>4 DEF SitesShapes
      <3> QED  BY <1>1, <3>1, <3>2, <3>3, <3>4, Touches
    <2>5. pem' \subseteq {"cert", "key", "certbot"}
      <3>1. CASE LetsEncrypt(t)
        BY <3>1 DEF LetsEncrypt, SitesShapes
      <3>2. CASE CustomCert(t)
        <4>1. Creates(t)
          BY <1>1, <3>2 DEF SiteStep, DeleteStep, CustomCert, RemoveConf, RemoveMeta, RemoveWebroot,
                             Step, Fails, Ignored
        <4>2. Request[t].pem \subseteq {"cert", "key"}
          BY <4>1, RequestParts
        <4>3. \E w : w \subseteq Request[t].pem /\ pem' = pem \cup w
          BY <3>2 DEF CustomCert
        <4> QED  BY <4>2, <4>3 DEF SitesShapes
      <3> QED  BY <1>1, <3>1, <3>2, Touches DEF SitesShapes
    <2>6. /\ tarball' \in {"none", "part", "whole"} /\ fetched' \in BOOLEAN
      BY <1>1, Touches DEF SitesShapes, WgetStarts, WgetEnds
    <2>7. unpacked' \in BOOLEAN
      BY <1>1, Touches DEF SitesShapes, Untar, CopyFiles, RemoveWebroot
    <2>8. buffer' \in [SiteTasks -> Seq(Block)]
      <3>1. CASE ReadConf(t)
        <4> DEFINE r == IF conf = {} THEN <<>> ELSE CHOOSE b \in conf : TRUE
        <4>1. r \in Seq(Block)
          <5>1. <<>> \in Seq(Block)
            BY EmptySeq
          <5>2. conf = {} \/ \E b \in Seq(Block) : conf = {b}
            BY DEF SitesShapes, AtMostOne
          <5> QED  BY <5>1, <5>2
        <4>2. buffer' = [buffer EXCEPT ![t] = r]
          BY <3>1 DEF ReadConf
        <4> HIDE DEF r
        <4> QED  BY <4>1, <4>2 DEF SitesShapes
      <3> QED  BY <1>1, <3>1, Touches DEF SitesShapes
    <2> QED  BY <2>2, <2>3, <2>4, <2>5, <2>6, <2>7, <2>8 DEF SitesShapes
  <1>2. ASSUME NEW t \in SiteTasks, Arrive(t) PROVE SitesShapes'
    <2>1. at' \in [SiteTasks -> SiteSteps] /\ last' = last
      BY <1>2 DEF Arrive, Step, SiteSteps, SiteEnded, Work, SitesShapes
    <2>2. clean' \in [SiteTasks -> BOOLEAN]
      BY <1>2 DEF Arrive, SitesShapes
    <2> QED  BY <1>2, <2>1, <2>2 DEF Arrive, SitesShapes, files
  <1>3. CASE UNCHANGED siteVars
    BY <1>3 DEF SitesShapes, siteVars, files
  <1> QED  BY <1>1, <1>2, <1>3, SiteCases

-----------------------------------------------------------------------------
(* TLS blocks                                                              *)

(* The files exist for every TLS block in b.                               *)
Covered(b) ==
  /\ Contains(b, "tls") => {"cert", "key"} \subseteq pem
  /\ Contains(b, "tls-certbot") => "certbot" \in pem

(* A request that is about to add a TLS block has its files.               *)
Ready(t) ==
  /\ at[t] = "letsencrypt" => Request[t].ssl = "letsencrypt"
  /\ at[t] = "custom" => Request[t].ssl = "custom"
  /\ at[t] \in {"append", "rewrite"} =>
       \/ Request[t].ssl = "custom" /\ {"cert", "key"} \subseteq pem
       \/ Request[t].ssl = "letsencrypt" /\ "certbot" \in pem

TlsInv ==
  /\ SitesShapes
  /\ \A b \in conf : Covered(b)
  /\ \A t \in SiteTasks : Covered(buffer[t])
  /\ \A t \in SiteTasks : Ready(t)

(* What contains a block after one is appended.                            *)
LEMMA ContainsAppend ==
  ASSUME NEW b \in Seq(Block), NEW x \in Block, NEW e, Contains(Append(b, x), e)
  PROVE  Contains(b, e) \/ x = e
  <1>1. /\ Len(Append(b, x)) = Len(b) + 1 /\ Len(b) \in Nat
        /\ \A i \in 1..Len(b) : Append(b, x)[i] = b[i]
        /\ Append(b, x)[Len(b) + 1] = x
    BY AppendProperties
  <1> DEFINE a == Append(b, x)
  <1>2. PICK i \in 1..Len(a) : a[i] = e
    BY DEF Contains
  <1>3. CASE i \in 1..Len(b)
    BY <1>1, <1>2, <1>3 DEF Contains
  <1>4. CASE i = Len(b) + 1
    BY <1>1, <1>2, <1>4
  <1>5. i \in 1..Len(b) \/ i = Len(b) + 1
    <2> HIDE DEF a
    <2>1. Len(a) = Len(b) + 1
      BY <1>1 DEF a
    <2> QED  BY <1>1, <2>1
  <1> QED  BY <1>3, <1>4, <1>5

(* What create_site writes first has no TLS block.                         *)
LEMMA BlocksPlain ==
  ASSUME NEW t \in SiteTasks, Creates(t), NEW e \in {"tls", "tls-certbot"}
  PROVE  ~Contains(Blocks(t), e) /\ ~Contains(<<>>, e) /\ ~Contains(<<"mixed">>, e)
  <1>1. /\ Len(Blocks(t)) \in 1..2 /\ Blocks(t)[1] = Request[t].type
        /\ Len(Blocks(t)) = 2 => Blocks(t)[2] = "redirect"
    BY BlocksTyped
  <1>2. \A i \in 1..Len(Blocks(t)) : i = 1 \/ (i = 2 /\ Len(Blocks(t)) = 2)
    <2> DEFINE n == Len(Blocks(t))
    <2>1. n \in 1..2
      BY <1>1
    <2> HIDE DEF n
    <2>2. \A i \in 1..n : i = 1 \/ (i = 2 /\ n = 2)
      BY <2>1
    <2> QED  BY <2>2 DEF n
  <1>3. Request[t].type # e /\ "redirect" # e
    BY RequestParts DEF Types
  <1>4. ~Contains(Blocks(t), e)
    BY <1>1, <1>2, <1>3 DEF Contains
  <1>5. ~Contains(<<>>, e) /\ ~Contains(<<"mixed">>, e)
    BY DEF Contains
  <1> QED  BY <1>4, <1>5

(* Certificates are never removed.                                         *)
LEMMA PemGrows ==
  ASSUME NEW t \in SiteTasks, SiteStep(t)
  PROVE  pem \subseteq pem'
  BY Touches DEF LetsEncrypt, CustomCert

(* Covered depends on the blocks and the certificates alone.               *)
LEMMA CoveredStays ==
  ASSUME pem \subseteq pem', NEW b, NEW c,
         \A e \in {"tls", "tls-certbot"} : Contains(c, e) => Contains(b, e),
         Covered(b)
  PROVE  /\ Contains(c, "tls") => {"cert", "key"} \subseteq pem'
         /\ Contains(c, "tls-certbot") => "certbot" \in pem'
  BY DEF Covered

(* The configuration after a step of t.                                    *)
LEMMA ConfCovered ==
  ASSUME TlsInv, NEW t \in SiteTasks, SiteStep(t), NEW b \in conf'
  PROVE  /\ Contains(b, "tls") => {"cert", "key"} \subseteq pem'
         /\ Contains(b, "tls-certbot") => "certbot" \in pem'
  <1>0. pem \subseteq pem'
    BY PemGrows
  <1>1. CASE b \in conf
    BY <1>0, <1>1 DEF TlsInv, Covered
  <1>2. CASE Creates(t) /\ b \in {Blocks(t), <<>>, <<"mixed">>}
    BY <1>2, BlocksPlain
  <1>3. CASE RewriteConf(t) /\ b = Append(buffer[t], Tls(t))
    <2>1. buffer[t] \in Seq(Block) /\ Tls(t) \in Block /\ Covered(buffer[t]) /\ Ready(t)
      BY DEF TlsInv, SitesShapes, Tls, Block
    <2>2. at[t] = "rewrite"
      BY <1>3 DEF RewriteConf, Step, Ignored
    <2>3. ASSUME Contains(b, "tls") PROVE {"cert", "key"} \subseteq pem'
      <3>1. Contains(buffer[t], "tls") \/ Tls(t) = "tls"
        BY <1>3, <2>1, <2>3, ContainsAppend
      <3>2. CASE Tls(t) = "tls"
        BY <1>0, <2>1, <2>2, <3>2 DEF Ready, Tls
      <3> QED  BY <1>0, <2>1, <3>1, <3>2 DEF Covered
    <2>4. ASSUME Contains(b, "tls-certbot") PROVE "certbot" \in pem'
      <3>1. Contains(buffer[t], "tls-certbot") \/ Tls(t) = "tls-certbot"
        BY <1>3, <2>1, <2>4, ContainsAppend
      <3>2. CASE Tls(t) = "tls-certbot"
        BY <1>0, <2>1, <2>2, <3>2 DEF Ready, Tls
      <3> QED  BY <1>0, <2>1, <3>1, <3>2 DEF Covered
    <2> QED  BY <2>3, <2>4
  <1>4. \/ b \in conf
        \/ Creates(t) /\ b \in {Blocks(t), <<>>, <<"mixed">>}
        \/ RewriteConf(t) /\ b = Append(buffer[t], Tls(t))
    <2>1. Creates(t) \/ conf' = conf \/ RemoveConf(t)
      BY Touches DEF SiteStep, DeleteStep, RemoveConf, RemoveMeta, RemoveWebroot
    <2>2. RemoveConf(t) => conf' = {} \/ conf' = conf
      BY DEF RemoveConf
    <2>3. CASE OpenConf(t)
      BY <2>1, <2>2, <2>3 DEF OpenConf
    <2>4. CASE WriteConf(t)
      <3>1. conf' = conf \/ conf' = {Blocks(t)} \/ conf' = {<<"mixed">>}
        BY <2>4 DEF WriteConf
      <3> QED  BY <2>1, <2>2, <3>1
    <2>5. CASE RewriteConf(t)
      <3>1. conf' = conf \/ conf' = {<<>>} \/ conf' = {Append(buffer[t], Tls(t))}
        BY <2>5 DEF RewriteConf
      <3> QED  BY <2>1, <2>2, <2>5, <3>1
    <2> QED  BY <2>2, <2>3, <2>4, <2>5, Touches
  <1> QED  BY <1>1, <1>2, <1>3, <1>4

(* A step of t and what it is about to add.                                *)
LEMMA ReadyStep ==
  ASSUME TlsInv, NEW t \in SiteTasks, SiteStep(t), NEW u \in SiteTasks
  PROVE  Ready(u)'
  <1>0. Ready(u) /\ pem \subseteq pem' /\ SitesShapes
    BY PemGrows DEF TlsInv
  <1>1. PICK from, to : Moved(t, from, to)
    BY StepsMove
  <1>2. /\ at'[t] = to /\ at[t] = from /\ from \in Work
        /\ u # t => at'[u] = at[u]
    BY <1>0, <1>1, MovedShape DEF Moved
  <1>3. CASE u # t
    BY <1>0, <1>2, <1>3 DEF Ready
  <1>4. CASE u = t /\ to \notin {"letsencrypt", "custom", "append", "rewrite"}
    BY <1>2, <1>4 DEF Ready
  <1>5. CASE u = t /\ to \in {"letsencrypt", "custom", "append", "rewrite"}
    <2>0. at'[t] \in {"letsencrypt", "custom", "append", "rewrite"}
      BY <1>2, <1>5
    <2>1. Creates(t) /\ (WriteConf(t) \/ LetsEncrypt(t) \/ CustomCert(t) \/ ReadConf(t))
      <3> USE <2>0, <1>2 DEF Step, Fails, Ignored, SiteEnded
      <3>9. at \in [SiteTasks -> SiteSteps]
        BY <1>0 DEF SitesShapes
      <3>f. FirstSetup(Request[t].type) \in {"index", "wget", "untar", "open_conf"} \/ ~Creates(t)
        BY RequestParts DEF FirstSetup, Types
      <3>1. CASE Creates(t) /\ (MetaDir(t) \/ Webroot(t) \/ Index(t) \/ WgetStarts(t))
        BY <3>1, <3>9, <3>f DEF MetaDir, Webroot, Index, WgetStarts
      <3>2. CASE WgetEnds(t) \/ Untar(t) \/ CopyFiles(t) \/ Database(t)
        BY <3>2, <3>9 DEF WgetEnds, Untar, CopyFiles, Database
      <3>3. CASE OpenConf(t) \/ RewriteConf(t) \/ WriteMeta(t)
        BY <3>3, <3>9 DEF OpenConf, RewriteConf, WriteMeta
      <3>4. CASE RemoveConf(t) \/ RemoveMeta(t) \/ RemoveWebroot(t)
        BY <3>4, <3>9 DEF RemoveConf, RemoveMeta, RemoveWebroot
      <3> QED  BY <3>1, <3>2, <3>3, <3>4 DEF SiteStep, CreateStep, DeleteStep
    <2>2. CASE WriteConf(t)
      <3>1. to = Request[t].ssl
        BY <1>0, <1>2, <1>5, <2>2 DEF WriteConf, Step, Fails, SitesShapes
      <3>2. to \in {"letsencrypt", "custom"}
        BY <2>1, <3>1, <1>5, RequestParts
      <3> QED  BY <1>2, <1>5, <3>1, <3>2 DEF Ready
    <2>3. CASE LetsEncrypt(t)
      <3>1. at[t] = "letsencrypt" /\ to = "append" /\ "certbot" \in pem'
        BY <1>0, <1>2, <1>5, <2>3 DEF LetsEncrypt, Step, Ignored, SitesShapes
      <3> QED  BY <1>0, <1>2, <1>5, <3>1 DEF Ready
    <2>4. CASE CustomCert(t)
      <3>1. at[t] = "custom" /\ to = "append" /\ {"cert", "key"} \subseteq pem'
        BY <1>0, <1>2, <1>5, <2>4 DEF CustomCert, Step, Ignored, SitesShapes
      <3> QED  BY <1>0, <1>2, <1>5, <3>1 DEF Ready
    <2>5. CASE ReadConf(t)
      <3>1. at[t] = "append" /\ to = "rewrite"
        BY <1>0, <1>2, <1>5, <2>5 DEF ReadConf, Step, SitesShapes
      <3> QED  BY <1>0, <1>2, <1>5, <3>1 DEF Ready
    <2> QED  BY <2>1, <2>2, <2>3, <2>4, <2>5
  <1> QED  BY <1>3, <1>4, <1>5

(* What t has read.                                                        *)
LEMMA BufferStep ==
  ASSUME TlsInv, NEW t \in SiteTasks, SiteStep(t), NEW u \in SiteTasks
  PROVE  Covered(buffer[u])'
  <1>0. pem \subseteq pem' /\ SitesShapes /\ Covered(buffer[u]) /\ \A b \in conf : Covered(b)
    BY PemGrows DEF TlsInv
  <1>1. CASE buffer'[u] = buffer[u]
    BY <1>0, <1>1 DEF Covered
  <1>2. CASE ReadConf(t) /\ u = t
    <2>1. buffer'[u] = IF conf = {} THEN <<>> ELSE CHOOSE b \in conf : TRUE
      BY <1>0, <1>2 DEF ReadConf, SitesShapes
    <2>2. CASE conf = {}
      <3>1. buffer'[u] = <<>>
        BY <2>1, <2>2
      <3>2. ~Contains(buffer'[u], "tls") /\ ~Contains(buffer'[u], "tls-certbot")
        BY <3>1 DEF Contains
      <3> QED  BY <3>2 DEF Covered
    <2>3. CASE conf # {}
      <3>1. buffer'[u] \in conf
        BY <2>1, <2>3
      <3>2. Covered(buffer'[u])
        BY <1>0, <3>1
      <3> QED  BY <1>0, <3>2 DEF Covered
    <2> QED  BY <2>2, <2>3
  <1>3. buffer'[u] = buffer[u] \/ (ReadConf(t) /\ u = t)
    <2>1. CASE ReadConf(t) /\ u # t
      BY <1>0, <2>1 DEF ReadConf, SitesShapes
    <2> QED  BY <2>1, Touches
  <1> QED  BY <1>1, <1>2, <1>3

(* The invariant of the TLS blocks is inductive.                           *)
LEMMA TlsInvStep ==
  ASSUME TlsInv, [SitesNext]_siteVars
  PROVE  TlsInv'
  <1>0. SitesShapes'
    BY SitesShapesStep DEF TlsInv
  <1>1. ASSUME NEW t \in SiteTasks, SiteStep(t) PROVE TlsInv'
    <2>1. \A b \in conf' : Covered(b)'
      <3> TAKE b \in conf'
      <3> QED  BY <1>1, ConfCovered DEF Covered
    <2>2. \A u \in SiteTasks : Covered(buffer[u])' /\ Ready(u)'
      BY <1>1, ReadyStep, BufferStep
    <2> QED  BY <1>0, <2>1, <2>2 DEF TlsInv
  <1>2. ASSUME NEW t \in SiteTasks, Arrive(t) PROVE TlsInv'
    <2>1. UNCHANGED <<conf, pem, buffer>>
      BY <1>2 DEF Arrive, files
    <2>2. /\ \A u \in SiteTasks : u # t => at'[u] = at[u]
          /\ at'[t] \in {"meta_dir", "rm_conf"}
      BY <1>2 DEF Arrive, Step, TlsInv, SitesShapes
    <2>3. ASSUME NEW u \in SiteTasks PROVE Ready(u)'
      <3>1. Ready(u)
        BY DEF TlsInv
      <3> QED  BY <2>1, <2>2, <3>1 DEF Ready
    <2> QED  BY <1>0, <2>1, <2>3 DEF TlsInv, Covered
  <1>3. CASE UNCHANGED siteVars
    BY <1>0, <1>3 DEF TlsInv, Covered, Ready, siteVars, files
  <1> QED  BY <1>1, <1>2, <1>3, SiteCases

-----------------------------------------------------------------------------
(* What the answer says is so                                              *)

(* The configuration starts with what the site asked for, and its files    *)
(* are there.                                                              *)
Whole(t) == \E b \in conf : IsPrefix(Blocks(t), b)

HasFiles(t) ==
  \E fs \in webroot :
    /\ Request[t].type \in {"static", "php"} => "index" \in fs
    /\ Request[t].type = "wordpress" /\ fetched => "wp" \in fs

(* How far a request has come, when nothing has disturbed it.              *)
Reached(t) ==
  /\ at[t] = "webroot" => meta # "none"
  /\ at[t] \in {"index", "wget", "fetch", "untar", "copy", "db"} =>
       meta # "none" /\ webroot # {}
  /\ at[t] = "index" => Request[t].type \in {"static", "php"}
  /\ at[t] \in {"wget", "fetch", "untar", "copy", "db"} => Request[t].type = "wordpress"
  /\ at[t] = "untar" /\ fetched => tarball = "whole"
  /\ at[t] = "copy" /\ fetched => unpacked = TRUE
  /\ at[t] = "db" /\ fetched => \E fs \in webroot : "wp" \in fs
  /\ at[t] \in {"open_conf", "conf", "letsencrypt", "custom", "append", "rewrite", "meta"} =>
       meta # "none" /\ HasFiles(t)
  /\ at[t] = "conf" => conf = {<<>>}
  /\ at[t] \in {"letsencrypt", "custom", "append", "rewrite", "meta"} => Whole(t)
  /\ at[t] = "rewrite" => IsPrefix(Blocks(t), buffer[t])
  /\ at[t] \in {"rm_meta", "rm_webroot"} => conf = {}
  /\ at[t] = "rm_webroot" => meta = "none"

(* Where a request answered ok has come.                                   *)
Done(t) ==
  IF Creates(t)
  THEN meta = Request[t].type /\ Whole(t) /\ HasFiles(t)
  ELSE conf = {} /\ meta = "none" /\ (Request[t].delete_files => webroot = {})

Quiet == \A t \in SiteTasks : ~Working(t)

(* A request that nothing has disturbed is the only one under way; an      *)
(* archive that is cut short belongs to a download under way, or one has   *)
(* failed.                                                                 *)
Alone == \A t, u \in SiteTasks : clean[t] /\ Working(t) /\ Working(u) => t = u
Archive ==
  /\ tarball = "part" /\ fetched => \E v \in SiteTasks : at[v] = "fetch"
  /\ \A t \in SiteTasks : at[t] = "untar" => tarball # "none"

AnswerInv ==
  /\ SitesShapes
  /\ \A t \in SiteTasks : clean[t] => Reached(t)
  /\ Alone
  /\ Archive
  /\ last \in SiteTasks /\ Quiet /\ clean[last] /\ at[last] = "ok" => Done(last)

(* A sequence is a prefix of itself and of what is appended to it.         *)
LEMMA PrefixOfItself ==
  ASSUME NEW s \in Seq(Block)
  PROVE  IsPrefix(s, s)
  BY LenProperties DEF IsPrefix

(* What was written before stays a prefix when a block is appended.        *)
LEMMA PrefixAppend ==
  ASSUME NEW s \in Seq(Block), NEW b \in Seq(Block), NEW x \in Block, IsPrefix(s, b)
  PROVE  IsPrefix(s, Append(b, x))
  <1> DEFINE a == Append(b, x)
             n == Len(s)
  <1>1. /\ a \in Seq(Block) /\ Len(a) = Len(b) + 1 /\ Len(b) \in Nat /\ n \in Nat
        /\ \A i \in 1..Len(b) : a[i] = b[i]
    BY AppendProperties, LenProperties
  <1>2. n <= Len(b) /\ SubSeq(s, 1, n) = SubSeq(b, 1, n)
    BY DEF IsPrefix
  <1> HIDE DEF a, n
  <1>3. \A i \in 1..n : a[i] = b[i] /\ a[i] \in Block /\ b[i] \in Block
    <2> TAKE i \in 1..n
    <2>1. i \in 1..Len(b) /\ i \in 1..Len(a)
      BY <1>1, <1>2
    <2> QED  BY <1>1, <2>1, ElementOfSeq
  <1>4. /\ SubSeq(a, 1, n) \in Seq(Block) /\ SubSeq(b, 1, n) \in Seq(Block)
        /\ Len(SubSeq(a, 1, n)) = n /\ Len(SubSeq(b, 1, n)) = n
        /\ \A i \in 1..n : SubSeq(a, 1, n)[i] = a[i] /\ SubSeq(b, 1, n)[i] = b[i]
    <2>1. /\ SubSeq(a, 1, n) \in Seq(Block)
          /\ Len(SubSeq(a, 1, n)) = IF 1 <= n THEN n - 1 + 1 ELSE 0
          /\ \A i \in 1..(n - 1 + 1) : SubSeq(a, 1, n)[i] = a[1 + i - 1]
      BY <1>1, <1>3, SubSeqProperties
    <2>2. /\ SubSeq(b, 1, n) \in Seq(Block)
          /\ Len(SubSeq(b, 1, n)) = IF 1 <= n THEN n - 1 + 1 ELSE 0
          /\ \A i \in 1..(n - 1 + 1) : SubSeq(b, 1, n)[i] = b[1 + i - 1]
      BY <1>1, <1>3, SubSeqProperties
    <2>3. n - 1 + 1 = n /\ (~(1 <= n) => n = 0) /\ \A i \in 1..n : 1 + i - 1 = i
      BY <1>1
    <2> QED  BY <2>1, <2>2, <2>3
  <1>5. SubSeq(a, 1, n) = SubSeq(b, 1, n)
    <2> DEFINE p == SubSeq(a, 1, n)
               q == SubSeq(b, 1, n)
    <2>1. p \in Seq(Block) /\ q \in Seq(Block) /\ Len(p) = Len(q) /\ \A i \in 1..Len(p) : p[i] = q[i]
      BY <1>3, <1>4
    <2> HIDE DEF p, q
    <2>2. p = q
      BY <2>1, SeqEqual
    <2> QED  BY <2>2 DEF p, q
  <1>6. n <= Len(a)
    BY <1>1, <1>2
  <1>7. Len(s) <= Len(a) /\ SubSeq(s, 1, Len(s)) = SubSeq(a, 1, Len(s))
    BY <1>2, <1>5, <1>6 DEF n
  <1> QED  BY <1>7 DEF IsPrefix, a

(* A request is under way when it is at one of the steps.                  *)
LEMMA WorkingIs ==
  ASSUME SitesShapes, NEW t \in SiteTasks
  PROVE  Working(t) <=> at[t] \in Work
  BY DEF SitesShapes, SiteSteps, Work, SiteEnded, Working

(* A step that leaves t undisturbed has not failed.                        *)
LEMMA NoFault ==
  ASSUME SitesShapes, NEW t \in SiteTasks, clean'[t]
  PROVE  ~Fault(t)
  BY DEF SitesShapes, Fault

(* What an undisturbed request finds.                                      *)
LEMMA Undisturbed ==
  ASSUME AnswerInv, NEW t \in SiteTasks, SiteStep(t), clean'[t]
  PROVE  /\ SitesShapes /\ clean[t] /\ Reached(t) /\ ~Fault(t)
         /\ at \in [SiteTasks -> SiteSteps]
         /\ at[t] \in Work
         /\ \A u \in SiteTasks : at[u] \in Work => u = t
  <1>1. SitesShapes
    BY DEF AnswerInv
  <1>2. PICK from, to : Moved(t, from, to)
    BY StepsMove
  <1>3. clean[t] /\ at[t] \in Work
    BY <1>1, <1>2, MovedShape DEF Moved
  <1>4. ~Fault(t)
    BY <1>1, NoFault
  <1>5. \A u \in SiteTasks : Working(u) <=> at[u] \in Work
    BY <1>1, WorkingIs
  <1> QED  BY <1>1, <1>3, <1>4, <1>5 DEF AnswerInv, Alone, SitesShapes

(* The first steps of create_site.                                         *)
LEMMA ReachedSetup ==
  ASSUME AnswerInv, NEW t \in SiteTasks, SiteStep(t), clean'[t], Creates(t),
         MetaDir(t) \/ Webroot(t) \/ Index(t)
  PROVE  Reached(t)' /\ at'[t] # "ok"
  <1>0. /\ SitesShapes /\ Reached(t) /\ ~Fault(t) /\ at \in [SiteTasks -> SiteSteps]
        /\ \A u \in SiteTasks : at[u] \in Work => u = t
    BY Undisturbed
  <1>1. CASE MetaDir(t)
    <2>1. at'[t] = "webroot" /\ meta' # "none"
      BY <1>0, <1>1 DEF MetaDir, Step, Fails
    <2> QED  BY <2>1 DEF Reached
  <1>2. CASE Webroot(t)
    <2>1. /\ at[t] = "webroot" /\ at'[t] = FirstSetup(Request[t].type)
          /\ webroot' # {} /\ UNCHANGED <<meta, tarball, fetched>> /\ meta' # "none"
      BY <1>0, <1>2 DEF Webroot, Step, Fails, Reached
    <2>2. CASE Request[t].type \in {"static", "php"}
      <3>1. at'[t] = "index"
        BY <2>1, <2>2 DEF FirstSetup
      <3> QED  BY <2>1, <2>2, <3>1 DEF Reached
    <2>3. CASE Request[t].type = "wordpress"
      <3>1. at'[t] = IF tarball = "none" THEN "wget" ELSE "untar"
        BY <2>1, <2>3 DEF FirstSetup
      <3>2. fetched /\ tarball # "none" => tarball = "whole"
        <4>1. tarball = "part" => ~fetched
          BY <1>0, <2>1 DEF AnswerInv, Archive, Work
        <4> QED  BY <1>0, <4>1 DEF SitesShapes
      <3> QED  BY <2>1, <2>3, <3>1, <3>2 DEF Reached
    <2>4. CASE Request[t].type = "proxy"
      <3>1. at'[t] = "open_conf"
        BY <2>1, <2>4 DEF FirstSetup
      <3>2. HasFiles(t)'
        BY <2>1, <2>4 DEF HasFiles
      <3> QED  BY <2>1, <3>1, <3>2 DEF Reached
    <2> QED  BY <2>2, <2>3, <2>4, RequestParts DEF Types
  <1>3. CASE Index(t)
    <2>1. /\ at[t] = "index" /\ at'[t] = (IF webroot = {} THEN "error" ELSE "open_conf")
          /\ webroot' = With("index") /\ UNCHANGED meta
      BY <1>0, <1>3 DEF Index, Step, Fails
    <2>2. webroot # {} /\ meta # "none" /\ Request[t].type \in {"static", "php"}
      BY <1>0, <2>1 DEF Reached
    <2>3. PICK fs \in webroot : TRUE
      BY <2>2
    <2>4. fs \cup {"index"} \in webroot'
      BY <1>0, <2>1, <2>3, WithShape
    <2>5. HasFiles(t)'
      BY <2>2, <2>4 DEF HasFiles
    <2> QED  BY <2>1, <2>2, <2>5 DEF Reached
  <1> QED  BY <1>1, <1>2, <1>3

(* Those of WordPress.                                                     *)
LEMMA ReachedWordPress ==
  ASSUME AnswerInv, NEW t \in SiteTasks, SiteStep(t), clean'[t], Creates(t),
         WgetStarts(t) \/ WgetEnds(t) \/ Untar(t) \/ CopyFiles(t) \/ Database(t)
  PROVE  Reached(t)' /\ at'[t] # "ok"
  <1>0. /\ SitesShapes /\ Reached(t) /\ ~Fault(t) /\ at \in [SiteTasks -> SiteSteps]
    BY Undisturbed
  <1>1. CASE WgetStarts(t)
    <2>1. at[t] = "wget" /\ at'[t] = "fetch" /\ UNCHANGED <<meta, webroot>>
      BY <1>0, <1>1 DEF WgetStarts, Step
    <2> QED  BY <1>0, <2>1 DEF Reached
  <1>2. CASE WgetEnds(t)
    <2>1. at[t] = "fetch" /\ at'[t] = "untar" /\ tarball' = "whole" /\ UNCHANGED <<meta, webroot>>
      BY <1>0, <1>2 DEF WgetEnds, Step, Fails
    <2> QED  BY <1>0, <2>1 DEF Reached
  <1>3. CASE Untar(t)
    <2>1. /\ at[t] = "untar" /\ at'[t] = "copy" /\ unpacked' = (tarball = "whole")
          /\ UNCHANGED <<meta, webroot, fetched>>
      BY <1>0, <1>3 DEF Untar, Step, Fails
    <2>2. fetched => unpacked' = TRUE
      BY <1>0, <2>1 DEF Reached
    <2> QED  BY <1>0, <2>1, <2>2 DEF Reached
  <1>4. CASE CopyFiles(t)
    <2>1. /\ at[t] = "copy" /\ at'[t] = "db" /\ webroot' = IF unpacked THEN With("wp") ELSE webroot
          /\ UNCHANGED <<meta, fetched>>
      BY <1>0, <1>4 DEF CopyFiles, Step, Ignored
    <2>2. webroot # {} /\ meta # "none" /\ Request[t].type = "wordpress"
      BY <1>0, <2>1 DEF Reached
    <2>3. PICK fs \in webroot : TRUE
      BY <2>2
    <2>4. CASE unpacked
      <3>1. fs \cup {"wp"} \in webroot'
        BY <1>0, <2>1, <2>3, <2>4, WithShape
      <3> QED  BY <2>1, <2>2, <3>1 DEF Reached
    <2>5. CASE ~unpacked
      <3>1. ~fetched /\ webroot' = webroot
        BY <1>0, <2>1, <2>5 DEF Reached
      <3> QED  BY <2>1, <2>2, <3>1 DEF Reached
    <2> QED  BY <2>4, <2>5
  <1>5. CASE Database(t)
    <2>1. /\ at[t] = "db" /\ at'[t] \in {"error", "open_conf"}
          /\ webroot' = webroot \/ webroot' = With("wp-config")
          /\ UNCHANGED <<meta, fetched>>
      BY <1>0, <1>5 DEF Database, Step, Fails
    <2>2. /\ webroot # {} /\ meta # "none" /\ Request[t].type = "wordpress"
          /\ fetched => \E fs \in webroot : "wp" \in fs
      BY <1>0, <2>1 DEF Reached
    <2>3. PICK fs \in webroot : fetched => "wp" \in fs
      BY <2>2
    <2>4. \E gs \in webroot' : fetched => "wp" \in gs
      <3>1. fs \cup {"wp-config"} \in With("wp-config")
        BY <1>0, <2>3, WithShape
      <3> QED  BY <2>1, <2>3, <3>1
    <2>5. HasFiles(t)'
      BY <2>1, <2>2, <2>4 DEF HasFiles
    <2> QED  BY <2>1, <2>2, <2>5 DEF Reached
  <1> QED  BY <1>1, <1>2, <1>3, <1>4, <1>5

(* Those of the configuration and of TLS.                                  *)
LEMMA ReachedConf ==
  ASSUME AnswerInv, NEW t \in SiteTasks, SiteStep(t), clean'[t], Creates(t),
         \/ OpenConf(t) \/ WriteConf(t) \/ LetsEncrypt(t) \/ CustomCert(t)
         \/ ReadConf(t) \/ RewriteConf(t)
  PROVE  Reached(t)' /\ at'[t] # "ok"
  <1>0. /\ SitesShapes /\ Reached(t) /\ ~Fault(t) /\ at \in [SiteTasks -> SiteSteps]
    BY Undisturbed
  <1>1. UNCHANGED <<meta, webroot, fetched>>
    BY DEF OpenConf, WriteConf, LetsEncrypt, CustomCert, ReadConf, RewriteConf, files
  <1>2. at[t] \in {"open_conf", "conf", "letsencrypt", "custom", "append", "rewrite"}
    BY DEF OpenConf, WriteConf, LetsEncrypt, CustomCert, ReadConf, RewriteConf,
           Step, Fails, Ignored
  <1>3. meta' # "none" /\ HasFiles(t)'
    BY <1>0, <1>1, <1>2 DEF Reached, HasFiles
  <1>4. CASE OpenConf(t)
    <2>1. at'[t] = "conf" /\ conf' = {<<>>}
      BY <1>0, <1>4 DEF OpenConf, Step, Fails
    <2> QED  BY <1>3, <2>1 DEF Reached
  <1>5. CASE WriteConf(t)
    <2>1. at[t] = "conf" /\ at'[t] = IF Request[t].ssl = "none" THEN "meta" ELSE Request[t].ssl
      BY <1>0, <1>5 DEF WriteConf, Step, Fails
    <2>2. conf = {<<>>}
      BY <1>0, <2>1 DEF Reached
    <2>3. conf' = {Blocks(t)}
      BY <1>0, <1>5, <2>2 DEF WriteConf, Fails
    <2>4. Whole(t)'
      BY <2>3, BlocksTyped, PrefixOfItself DEF Whole, Blocks
    <2>5. at'[t] \in {"meta", "letsencrypt", "custom"}
      BY <2>1, RequestParts
    <2> QED  BY <1>3, <2>4, <2>5 DEF Reached
  <1>6. CASE LetsEncrypt(t) \/ CustomCert(t)
    <2>1. at[t] \in {"letsencrypt", "custom"} /\ at'[t] \in {"append", "meta"} /\ conf' = conf
      BY <1>0, <1>6 DEF LetsEncrypt, CustomCert, Step, Ignored
    <2>2. Whole(t)'
      BY <1>0, <2>1 DEF Reached, Whole, Blocks
    <2> QED  BY <1>3, <2>1, <2>2 DEF Reached
  <1>7. CASE ReadConf(t)
    <2>1. at[t] = "append" /\ at'[t] = "rewrite" /\ conf' = conf
      BY <1>0, <1>7 DEF ReadConf, Step, files
    <2>2. Whole(t)
      BY <1>0, <2>1 DEF Reached
    <2>3. PICK b \in conf : IsPrefix(Blocks(t), b)
      BY <2>2 DEF Whole
    <2>4. conf = {b}
      BY <1>0, <2>3 DEF SitesShapes, AtMostOne
    <2>5. buffer'[t] = b
      BY <1>0, <1>7, <2>4 DEF ReadConf, SitesShapes
    <2>6. IsPrefix(Blocks(t), buffer'[t])
      BY <2>3, <2>5
    <2>7. Whole(t)'
      BY <2>1, <2>2 DEF Whole, Blocks
    <2> QED  BY <1>3, <2>1, <2>6, <2>7 DEF Reached, Blocks
  <1>8. CASE RewriteConf(t)
    <2>1. at[t] = "rewrite" /\ at'[t] = "meta" /\ conf' = {Append(buffer[t], Tls(t))}
      BY <1>0, <1>8 DEF RewriteConf, Step, Ignored
    <2>2. IsPrefix(Blocks(t), buffer[t]) /\ buffer[t] \in Seq(Block)
      BY <1>0, <2>1 DEF Reached, SitesShapes
    <2>3. IsPrefix(Blocks(t), Append(buffer[t], Tls(t)))
      BY <2>2, BlocksTyped, PrefixAppend
    <2>4. Whole(t)'
      BY <2>1, <2>3 DEF Whole, Blocks
    <2> QED  BY <1>3, <2>1, <2>4 DEF Reached
  <1> QED  BY <1>4, <1>5, <1>6, <1>7, <1>8

(* The last step of create_site, and delete_site.                          *)
LEMMA ReachedEnd ==
  ASSUME AnswerInv, NEW t \in SiteTasks, SiteStep(t), clean'[t],
         \/ Creates(t) /\ WriteMeta(t)
         \/ ~Creates(t) /\ DeleteStep(t)
  PROVE  Reached(t)' /\ (at'[t] = "ok" => Done(t)')
  <1>0. /\ SitesShapes /\ Reached(t) /\ ~Fault(t) /\ at \in [SiteTasks -> SiteSteps]
    BY Undisturbed
  <1>1. CASE Creates(t) /\ WriteMeta(t)
    <2>1. /\ at[t] = "meta" /\ at'[t] = "ok" /\ meta' = (IF meta = "none" THEN meta ELSE Request[t].type)
          /\ UNCHANGED <<conf, webroot, fetched>>
      BY <1>0, <1>1 DEF WriteMeta, Step, Ignored
    <2>2. meta # "none" /\ Whole(t) /\ HasFiles(t)
      BY <1>0, <2>1 DEF Reached
    <2>3. meta' = Request[t].type /\ Whole(t)' /\ HasFiles(t)'
      BY <2>1, <2>2 DEF Whole, HasFiles, Blocks
    <2>4. Done(t)'
      BY <1>1, <2>3 DEF Done, Creates
    <2> QED  BY <2>1, <2>4 DEF Reached
  <1>2. CASE ~Creates(t) /\ RemoveConf(t)
    <2>1. at'[t] = "rm_meta" /\ conf' = {}
      BY <1>0, <1>2 DEF RemoveConf, Step, Ignored
    <2> QED  BY <2>1 DEF Reached
  <1>3. CASE ~Creates(t) /\ RemoveMeta(t)
    <2>1. /\ at[t] = "rm_meta" /\ at'[t] = (IF Request[t].delete_files THEN "rm_webroot" ELSE "ok")
          /\ meta' = "none" /\ UNCHANGED <<conf, webroot>>
      BY <1>0, <1>3 DEF RemoveMeta, Step, Ignored
    <2>2. conf' = {}
      BY <1>0, <2>1 DEF Reached
    <2>3. CASE Request[t].delete_files
      BY <2>1, <2>2, <2>3 DEF Reached
    <2>4. CASE ~Request[t].delete_files
      BY <1>3, <2>1, <2>2, <2>4 DEF Reached, Done, Creates
    <2> QED  BY <2>3, <2>4
  <1>4. CASE ~Creates(t) /\ RemoveWebroot(t)
    <2>1. /\ at[t] = "rm_webroot" /\ at'[t] = "ok" /\ webroot' = {} /\ UNCHANGED <<conf, meta>>
      BY <1>0, <1>4 DEF RemoveWebroot, Step, Ignored
    <2>2. conf' = {} /\ meta' = "none"
      BY <1>0, <2>1 DEF Reached
    <2> QED  BY <1>4, <2>1, <2>2 DEF Reached, Done, Creates
  <1> QED  BY <1>1, <1>2, <1>3, <1>4 DEF DeleteStep

(* A step of an undisturbed request takes it on.                           *)
LEMMA ReachedStep ==
  ASSUME AnswerInv, NEW t \in SiteTasks, SiteStep(t), clean'[t]
  PROVE  Reached(t)' /\ (at'[t] = "ok" => Done(t)')
  <1>1. CASE Creates(t) /\ CreateStep(t)
    BY <1>1, ReachedSetup, ReachedWordPress, ReachedConf, ReachedEnd DEF CreateStep
  <1>2. CASE ~Creates(t) /\ DeleteStep(t)
    BY <1>2, ReachedEnd
  <1> QED  BY <1>1, <1>2, RequestParts DEF SiteStep, Creates

(* Who is under way after a step.                                          *)
LEMMA WorkingStep ==
  ASSUME SitesShapes, NEW t \in SiteTasks, SiteStep(t)
  PROVE  /\ Working(t) /\ clean'[t] \in BOOLEAN
         /\ \A u \in SiteTasks : Working(u)' => Working(u)
         /\ \A u \in SiteTasks : clean'[u] => clean[u]
         /\ \A u \in SiteTasks : u # t => at'[u] = at[u]
         /\ \/ Working(t)' /\ at'[t] # "ok" /\ last' = last
            \/ ~Working(t)' /\ last' = t
  <1>1. PICK from, to : Moved(t, from, to)
    BY StepsMove
  <1>2. /\ at'[t] = to /\ at[t] = from
        /\ \A u \in SiteTasks : u # t => at'[u] = at[u]
        /\ \A u \in SiteTasks : clean'[u] => clean[u]
        /\ to \in SiteEnded => last' = t
        /\ to \notin SiteEnded => last' = last
        /\ clean' \in [SiteTasks -> BOOLEAN]
    BY <1>1, MovedShape
  <1>3. from \in Work /\ to \in Work \cup SiteEnded
    BY <1>1 DEF Moved
  <1>4. Working(t) /\ (to \in Work => Working(t)') /\ (to \in SiteEnded => ~Working(t)')
    BY <1>2, <1>3 DEF Working, Work, SiteEnded
  <1>5. \A u \in SiteTasks : Working(u)' => Working(u)
    BY <1>2, <1>4 DEF Working
  <1>6. to \in Work => at'[t] # "ok" /\ to \notin SiteEnded
    BY <1>2 DEF Work, SiteEnded
  <1> QED  BY <1>2, <1>3, <1>4, <1>5, <1>6

(* The archive after a step.                                               *)
LEMMA ArchiveStep ==
  ASSUME SitesShapes, Archive, NEW t \in SiteTasks, SiteStep(t)
  PROVE  Archive'
  <1>0. /\ at \in [SiteTasks -> SiteSteps] /\ tarball \in {"none", "part", "whole"}
        /\ \A u \in SiteTasks : u # t => at'[u] = at[u]
    BY WorkingStep DEF SitesShapes
  <1>1. CASE WgetStarts(t)
    <2>1. tarball' = "part" /\ at'[t] = "fetch"
      BY <1>0, <1>1 DEF WgetStarts, Step
    <2> QED  BY <1>0, <2>1 DEF Archive
  <1>2. CASE WgetEnds(t)
    <2>1. \/ tarball' = "whole"
          \/ tarball' = tarball /\ ~fetched' /\ at'[t] = "error"
      BY <1>0, <1>2 DEF WgetEnds, Step, Fails
    <2> QED  BY <1>0, <2>1 DEF Archive
  <1>3. CASE ~WgetStarts(t) /\ ~WgetEnds(t)
    <2>1. tarball' = tarball /\ fetched' = fetched
      BY <1>3, Touches
    <2>2. at[t] # "fetch"
      <3> USE <1>3 DEF Step, Fails, Ignored
      <3>1. CASE MetaDir(t) \/ Webroot(t) \/ Index(t)
        BY <3>1 DEF MetaDir, Webroot, Index
      <3>2. CASE Untar(t) \/ CopyFiles(t) \/ Database(t)
        BY <3>2 DEF Untar, CopyFiles, Database
      <3>3. CASE OpenConf(t) \/ WriteConf(t) \/ LetsEncrypt(t) \/ CustomCert(t)
        BY <3>3 DEF OpenConf, WriteConf, LetsEncrypt, CustomCert
      <3>4. CASE ReadConf(t) \/ RewriteConf(t) \/ WriteMeta(t)
        BY <3>4 DEF ReadConf, RewriteConf, WriteMeta
      <3>5. CASE RemoveConf(t) \/ RemoveMeta(t) \/ RemoveWebroot(t)
        BY <3>5 DEF RemoveConf, RemoveMeta, RemoveWebroot
      <3> QED  BY <3>1, <3>2, <3>3, <3>4, <3>5 DEF SiteStep, CreateStep, DeleteStep
    <2>3. at'[t] = "untar" => tarball # "none"
      <3> USE <1>3, <1>0 DEF Step, Fails, Ignored
      <3>1. CASE MetaDir(t) \/ Index(t)
        BY <3>1 DEF MetaDir, Index
      <3>2. CASE Creates(t) /\ Webroot(t)
        <4>1. at'[t] = FirstSetup(Request[t].type) \/ at'[t] = "error"
          BY <3>2 DEF Webroot
        <4>2. FirstSetup(Request[t].type) = "untar" => tarball # "none"
          <5>1. CASE Request[t].type \in {"static", "php"}
            BY <5>1 DEF FirstSetup
          <5>2. CASE Request[t].type = "wordpress"
            BY <5>2 DEF FirstSetup
          <5>3. CASE Request[t].type = "proxy"
            BY <5>3 DEF FirstSetup
          <5> QED  BY <3>2, <5>1, <5>2, <5>3, RequestParts DEF Types
        <4> QED  BY <4>1, <4>2
      <3>3. CASE Untar(t) \/ CopyFiles(t) \/ Database(t)
        BY <3>3 DEF Untar, CopyFiles, Database
      <3>4. CASE Creates(t) /\ WriteConf(t)
        <4>1. at'[t] \in {"meta", "error", Request[t].ssl}
          BY <3>4 DEF WriteConf
        <4> QED  BY <3>4, <4>1, RequestParts
      <3>5. CASE OpenConf(t) \/ LetsEncrypt(t) \/ CustomCert(t)
        BY <3>5 DEF OpenConf, LetsEncrypt, CustomCert
      <3>6. CASE ReadConf(t) \/ RewriteConf(t) \/ WriteMeta(t)
        BY <3>6 DEF ReadConf, RewriteConf, WriteMeta
      <3>7. CASE RemoveConf(t) \/ RemoveMeta(t) \/ RemoveWebroot(t)
        BY <3>7 DEF RemoveConf, RemoveMeta, RemoveWebroot
      <3> QED  BY <3>1, <3>2, <3>3, <3>4, <3>5, <3>6, <3>7 DEF SiteStep, CreateStep, DeleteStep
    <2>4. ASSUME tarball = "part", fetched PROVE \E v \in SiteTasks : at'[v] = "fetch"
      <3>1. PICK v \in SiteTasks : at[v] = "fetch"
        BY <2>4 DEF Archive
      <3>2. at'[v] = "fetch"
        BY <1>0, <2>2, <3>1
      <3> QED  BY <3>2
    <2>5. ASSUME NEW u \in SiteTasks, at'[u] = "untar" PROVE tarball # "none"
      BY <1>0, <2>3, <2>5 DEF Archive
    <2> QED  BY <2>1, <2>4, <2>5 DEF Archive
  <1> QED  BY <1>1, <1>2, <1>3

(* The invariant of the answers is inductive.                              *)
LEMMA AnswerInvStep ==
  ASSUME AnswerInv, [SitesNext]_siteVars
  PROVE  AnswerInv'
  <1>0. SitesShapes /\ SitesShapes' /\ Alone /\ Archive
    BY SitesShapesStep DEF AnswerInv
  <1>1. ASSUME NEW t \in SiteTasks, SiteStep(t) PROVE AnswerInv'
    <2>0. /\ Working(t)
          /\ \A u \in SiteTasks : Working(u)' => Working(u)
          /\ \A u \in SiteTasks : clean'[u] => clean[u]
          /\ \A u \in SiteTasks : u # t => at'[u] = at[u]
          /\ \/ Working(t)' /\ at'[t] # "ok" /\ last' = last
             \/ ~Working(t)' /\ last' = t
      BY <1>0, <1>1, WorkingStep
    <2>1. ASSUME NEW u \in SiteTasks, clean'[u] PROVE Reached(u)'
      <3>1. CASE u = t
        BY <1>1, <2>1, <3>1, ReachedStep
      <3>2. CASE u # t
        <4>1. ~Working(u)
          BY <1>0, <2>0, <2>1, <3>2 DEF Alone
        <4>2. at'[u] = at[u] /\ at[u] \in {"new", "ok", "error"}
          BY <2>0, <3>2, <4>1 DEF Working, SiteEnded
        <4> QED  BY <4>2 DEF Reached
      <3> QED  BY <3>1, <3>2
    <2>2. Alone'
      BY <1>0, <2>0 DEF Alone
    <2>3. Archive'
      BY <1>0, <1>1, ArchiveStep
    <2>4. ASSUME last' \in SiteTasks, Quiet', clean'[last'], at'[last'] = "ok" PROVE Done(last)'
      <3>1. last' = t
        BY <2>0, <2>4 DEF Quiet
      <3>2. Done(t)'
        BY <1>1, <2>4, <3>1, ReachedStep
      <3> QED  BY <3>1, <3>2 DEF Done, Whole, HasFiles, Blocks, Creates
    <2> QED  BY <1>0, <2>1, <2>2, <2>3, <2>4 DEF AnswerInv
  <1>2. ASSUME NEW t \in SiteTasks, Arrive(t) PROVE AnswerInv'
    <2>0. /\ UNCHANGED <<conf, meta, webroot, tarball, unpacked, buffer, fetched, last>>
          /\ at[t] = "new" /\ at'[t] \in {"meta_dir", "rm_conf"}
          /\ \A u \in SiteTasks : u # t => at'[u] = at[u]
      BY <1>0, <1>2 DEF Arrive, Step, SitesShapes, SiteEnded, files
    <2>1. \A u \in SiteTasks :
            clean'[u] => clean[u] /\ ~(\E v \in SiteTasks : Working(v) /\ (u = t \/ u = v))
      BY <1>0, <1>2 DEF Arrive, SitesShapes
    <2>2. Working(t)' /\ \A u \in SiteTasks : u # t => (Working(u)' <=> Working(u))
      BY <2>0 DEF Working, SiteEnded
    <2>3. Alone'
      BY <1>0, <2>1, <2>2 DEF Alone
    <2>4. ASSUME NEW u \in SiteTasks, clean'[u] PROVE Reached(u)'
      <3>1. CASE u = t
        BY <2>0, <3>1 DEF Reached
      <3>2. CASE u # t
        <4>1. at'[u] = at[u] /\ Reached(u)
          BY <2>0, <2>1, <2>4, <3>2 DEF AnswerInv
        <4> QED  BY <2>0, <4>1 DEF Reached, Whole, HasFiles, Blocks
      <3> QED  BY <3>1, <3>2
    <2>5. Archive'
      <3>1. \A v \in SiteTasks : at[v] = "fetch" => at'[v] = "fetch"
        BY <2>0
      <3>2. \A v \in SiteTasks : at'[v] = "untar" => at[v] = "untar"
        BY <2>0
      <3> QED  BY <1>0, <2>0, <3>1, <3>2 DEF Archive
    <2>6. ~Quiet'
      BY <2>2 DEF Quiet
    <2> QED  BY <1>0, <2>3, <2>4, <2>5, <2>6 DEF AnswerInv
  <1>3. CASE UNCHANGED siteVars
    <2>1. UNCHANGED <<at, buffer, conf, meta, webroot, tarball, unpacked, last, clean, fetched>>
      BY <1>3 DEF siteVars, files
    <2>2. \A u \in SiteTasks : clean'[u] => Reached(u)'
      BY <2>1 DEF AnswerInv, Reached, Whole, HasFiles, Blocks
    <2>3. Alone' /\ Archive' /\ (Quiet' <=> Quiet)
      BY <1>0, <2>1 DEF Alone, Archive, Quiet, Working
    <2>4. last \in SiteTasks /\ Quiet /\ clean[last] /\ at[last] = "ok" => Done(last)'
      BY <2>1 DEF AnswerInv, Done, Whole, HasFiles, Blocks, Creates
    <2> QED  BY <1>0, <2>1, <2>2, <2>3, <2>4 DEF AnswerInv
  <1> QED  BY <1>1, <1>2, <1>3, SiteCases

-----------------------------------------------------------------------------
(* The sites from the start                                                *)

(* What is proved of the sites holds before the first request.             *)
LEMMA SitesStart ==
  ASSUME NEW tasks \in SUBSET SiteTasks, SitesInit(tasks)
  PROVE  TlsInv /\ AnswerInv
  <1>1. SitesShapes
    <2>1. <<>> \in Seq(Block)
      BY EmptySeq
    <2>2. buffer \in [SiteTasks -> Seq(Block)]
      BY <2>1 DEF SitesInit
    <2>3. conf \in AtMostOne(Seq(Block)) /\ webroot \in FilesOf
      BY DEF SitesInit, AtMostOne, FilesOf
    <2>4. faults \in 0..MaxFaults
      BY SitesAssumption DEF SitesInit
    <2>5. last \in SiteTasks \cup {NoTask} /\ at \in [SiteTasks -> SiteSteps]
      BY DEF SitesInit, SiteSteps
    <2> QED
      BY <2>2, <2>3, <2>4, <2>5 DEF SitesInit, SitesShapes
  <1>2. /\ \A t \in SiteTasks : buffer[t] = <<>> /\ at[t] = "new"
        /\ conf = {} /\ tarball = "none"
    BY DEF SitesInit
  <1>3. TlsInv
    <2>1. ~Contains(<<>>, "tls") /\ ~Contains(<<>>, "tls-certbot")
      BY DEF Contains
    <2> QED  BY <1>1, <1>2, <2>1 DEF TlsInv, Covered, Ready
  <1>4. AnswerInv
    BY <1>1, <1>2 DEF AnswerInv, Reached, Alone, Archive, Working
  <1> QED  BY <1>3, <1>4

(* Steps of the backups leave the sites alone.                             *)
LEMMA SitesHold == Spec => [](TlsInv /\ AnswerInv)
  <1>1. Init => TlsInv /\ AnswerInv
    <2> SUFFICES ASSUME Init PROVE TlsInv /\ AnswerInv
      OBVIOUS
    <2>1. PICK load \in Loads : SitesInit(load[1])
      BY DEF Init
    <2>2. load[1] \in SUBSET SiteTasks
      BY <2>1, ManagementAssumption
    <2> QED  BY <2>1, <2>2, SitesStart
  <1>2. (TlsInv /\ AnswerInv) /\ [Next]_vars => (TlsInv /\ AnswerInv)'
    <2>1. [Next]_vars => [SitesNext]_siteVars
      BY DEF Next, vars
    <2> QED  BY <2>1, TlsInvStep, AnswerInvStep
  <1> QED  BY <1>1, <1>2, PTL DEF Spec

(* A TLS block is only ever in a configuration when its two files exist,   *)
(* for any number of requests that create and delete the site at once.     *)
THEOREM TlsHasCertificateHolds == Spec => []TlsHasCertificate
  <1>1. TlsInv => TlsHasCertificate
    BY DEF TlsInv, Covered, TlsHasCertificate
  <1> QED  BY <1>1, SitesHold, PTL

(* A request answered ok that nothing disturbed has done what it says,     *)
(* whatever the requests before it left behind.                            *)
THEOREM SiteIsAsAnsweredHolds == Spec => []SiteIsAsAnswered
  <1>1. AnswerInv => SiteIsAsAnswered
    <2> SUFFICES ASSUME AnswerInv, last # NoTask, \A t \in SiteTasks : ~Working(t),
                        clean[last], at[last] = "ok"
                 PROVE  LET req == Request[last] IN
                        IF req.op = "create"
                        THEN /\ Listed = req.type
                             /\ \E b \in conf : IsPrefix(Blocks(last), b)
                             /\ \E fs \in webroot :
                                  CASE req.type \in {"static", "php"} -> "index" \in fs
                                    [] req.type = "wordpress" -> fetched => "wp" \in fs
                                    [] OTHER -> TRUE
                        ELSE /\ Listed = "none" /\ meta = "none"
                             /\ req.delete_files => webroot = {}
      BY DEF SiteIsAsAnswered
    <2>1. last \in SiteTasks /\ Done(last)
      BY DEF AnswerInv, SitesShapes, Quiet
    <2>2. CASE Creates(last)
      <3>1. meta = Request[last].type /\ Whole(last) /\ HasFiles(last)
        BY <2>1, <2>2 DEF Done
      <3>2. Listed = Request[last].type
        BY <2>1, <2>2, <3>1, RequestParts DEF Listed, Whole
      <3>3. PICK fs \in webroot :
              /\ Request[last].type \in {"static", "php"} => "index" \in fs
              /\ Request[last].type = "wordpress" /\ fetched => "wp" \in fs
        BY <3>1 DEF HasFiles
      <3>4. (CASE Request[last].type \in {"static", "php"} -> "index" \in fs
               [] Request[last].type = "wordpress" -> fetched => "wp" \in fs
               [] OTHER -> TRUE)
        BY <3>3
      <3> QED  BY <2>2, <3>1, <3>2, <3>4 DEF Creates, Whole
    <2>3. CASE ~Creates(last)
      BY <2>1, <2>3 DEF Done, Creates, Listed
    <2> QED  BY <2>2, <2>3
  <1> QED  BY <1>1, SitesHold, PTL

(* The types of the sites.                                                 *)
LEMMA SitesTypes == SitesShapes => SitesTypeOK
  <1> SUFFICES ASSUME SitesShapes PROVE SitesTypeOK
    OBVIOUS
  <1>1. conf = {} \/ \E b \in Seq(Block) : conf = {b}
    BY DEF SitesShapes, AtMostOne
  <1>2. Cardinality(conf) <= 1 /\ \A b \in conf : b \in Seq(Block)
    <2>1. CASE conf = {}
      BY <2>1, FS_EmptySet
    <2>2. CASE \E b \in Seq(Block) : conf = {b}
      <3>1. PICK b \in Seq(Block) : conf = {b}
        BY <2>2
      <3>2. Cardinality({b}) = 1
        BY FS_Singleton
      <3> QED  BY <3>1, <3>2
    <2> QED  BY <1>1, <2>1, <2>2
  <1> QED  BY <1>2 DEF SitesShapes, SitesTypeOK, FilesOf

-----------------------------------------------------------------------------
(* Backups: steps and types                                                *)

BackupSteps == {"backup", "copy_conf", "conf_open", "copy_users", "users_open", "answer"}
RestoreSteps == {"restore", "conf_back", "users_back", "reload"}
ApiSteps ==
  {"new", "allow", "delete", "rmdir", "user", "persist", "edit"}
    \cup BackupSteps \cup RestoreSteps \cup ApiEnded

(* A directory with one file replaced.                                     *)
Replaced(d, old, file, x) == d = [old EXCEPT ![file] = x]

(* The other file stays, and so does whether there is a directory.         *)
LEMMA DirField ==
  ASSUME NEW old \in Dir, NEW x \in Content, NEW file \in {"conf", "users"},
         NEW d, Replaced(d, old, file, x)
  PROVE  /\ d \in Dir /\ d.there = old.there
         /\ file = "conf" => d.conf = x /\ d.users = old.users
         /\ file = "users" => d.users = x /\ d.conf = old.conf
         /\ old["conf"] = old.conf /\ old["users"] = old.users
  <1>1. CASE file = "conf"
    BY <1>1 DEF Dir, Replaced
  <1>2. CASE file = "users"
    BY <1>2 DEF Dir, Replaced
  <1> QED  BY <1>1, <1>2

(* What every variable of the backups holds.  A request is past its        *)
(* arrival with a second in id.                                            *)
BackupsShapes ==
  /\ ahead \subseteq ApiTasks
  /\ step \in [ApiTasks -> ApiSteps]
  /\ id \in [ApiTasks -> Seconds \cup {Absent}]
  /\ \A t \in ApiTasks : step[t] # "new" => id[t] \in Seconds
  /\ clock \in Seconds
  /\ window \in [second : Seconds \cup {Absent}, count : Nat]
  /\ disk \in [conf : Content, users : Content]
  /\ dirs \in [Seconds -> Dir] /\ saved \in [Seconds -> Dir]
  /\ \A s \in Seconds : dirs[s].there \/ dirs[s] = NoDir
  /\ registry \in Content /\ changes \in Nat
  /\ errors \in 0..MaxErrors
  /\ granted \in [Seconds -> Nat]
  /\ late \in BOOLEAN /\ overlap \in BOOLEAN
  /\ restored \in Seconds \cup {Absent}

(* The steps a request may go through, by what it asks for.                *)
Kinds(t) ==
  /\ step[t] = "allow" => Op[t] \in {"backup", "restore", "delete"}
  /\ step[t] \in BackupSteps => Op[t] = "backup"
  /\ step[t] \in RestoreSteps => Op[t] = "restore"

(* From which step to which.                                               *)
Legal(t, from, to) ==
  \/ from = "new" /\ to = "edit" /\ Op[t] = "edit"
  \/ from = "new" /\ to = "user" /\ Op[t] = "user"
  \/ from = "new" /\ to = "allow" /\ Op[t] \notin {"edit", "user"}
  \/ from = "allow" /\ to \in {Op[t], "refused"}
  \/ from \in BackupSteps /\ to \in (BackupSteps \ {"backup"}) \cup {"ok", "error"}
  \/ from \in RestoreSteps /\ to \in (RestoreSteps \ {"restore"}) \cup {"ok", "error", "not_found"}
  \/ from \in {"delete", "rmdir"} /\ to \in {"rmdir", "ok", "not_found"}
  \/ from = "user" /\ to = "persist"
  \/ from = "persist" /\ to = "ok"
  \/ from = "edit" /\ to = "ok"

(* What all steps of a request have in common.                             *)
Goes(t, from, to) ==
  /\ Legal(t, from, to)
  /\ Go(t, from, to)
  /\ errors' = errors \/ (errors < MaxErrors /\ errors' = errors + 1)

ApiStep(t) ==
  \/ ReadSecond(t) \/ Allow(t)
  \/ MakeDir(t) \/ CopyConf(t) \/ ConfCopied(t) \/ CopyUsers(t) \/ UsersCopied(t) \/ Answer(t)
  \/ Find(t) \/ ConfBack(t) \/ UsersBack(t) \/ Reload(t)
  \/ RemoveFiles(t) \/ RemoveDir(t)
  \/ ChangeUsers(t) \/ Persist(t) \/ Edit(t)

(* Every action of a request is such a step.                               *)
LEMMA ApiGoes ==
  ASSUME NEW t \in ApiTasks, ApiStep(t)
  PROVE  \E from, to : Goes(t, from, to)
  <1> USE DEF Goes, Legal, Error, Go, BackupSteps, RestoreSteps
  <1>1. ASSUME ReadSecond(t) PROVE \E from, to : Goes(t, from, to)
    <2> DEFINE first == CASE Op[t] = "edit" -> "edit" [] Op[t] = "user" -> "user" [] OTHER -> "allow"
    <2>1. Go(t, "new", first) /\ errors' = errors
      BY <1>1 DEF ReadSecond
    <2>2. Legal(t, "new", first)
      OBVIOUS
    <2> HIDE DEF first
    <2> QED  BY <2>1, <2>2
  <1>2. ASSUME Allow(t) PROVE \E from, to : Goes(t, from, to)
    BY <1>2 DEF Allow
  <1>3. ASSUME MakeDir(t) PROVE \E from, to : Goes(t, from, to)
    BY <1>3 DEF MakeDir
  <1>4. ASSUME CopyConf(t) PROVE \E from, to : Goes(t, from, to)
    BY <1>4 DEF CopyConf, Open
  <1>5. ASSUME ConfCopied(t) PROVE \E from, to : Goes(t, from, to)
    BY <1>5 DEF ConfCopied
  <1>6. ASSUME CopyUsers(t) PROVE \E from, to : Goes(t, from, to)
    BY <1>6 DEF CopyUsers, Open
  <1>7. ASSUME UsersCopied(t) PROVE \E from, to : Goes(t, from, to)
    BY <1>7 DEF UsersCopied
  <1>8. ASSUME Answer(t) PROVE \E from, to : Goes(t, from, to)
    BY <1>8 DEF Answer
  <1>9. ASSUME Find(t) PROVE \E from, to : Goes(t, from, to)
    BY <1>9 DEF Find
  <1>10. ASSUME ConfBack(t) PROVE \E from, to : Goes(t, from, to)
    BY <1>10 DEF ConfBack
  <1>11. ASSUME UsersBack(t) PROVE \E from, to : Goes(t, from, to)
    BY <1>11 DEF UsersBack
  <1>12. ASSUME Reload(t) PROVE \E from, to : Goes(t, from, to)
    BY <1>12 DEF Reload
  <1>13. ASSUME RemoveFiles(t) PROVE \E from, to : Goes(t, from, to)
    BY <1>13 DEF RemoveFiles
  <1>14. ASSUME RemoveDir(t) PROVE \E from, to : Goes(t, from, to)
    BY <1>14 DEF RemoveDir
  <1>15. ASSUME ChangeUsers(t) PROVE \E from, to : Goes(t, from, to)
    BY <1>15 DEF ChangeUsers
  <1>16. ASSUME Persist(t) PROVE \E from, to : Goes(t, from, to)
    BY <1>16 DEF Persist
  <1>17. ASSUME Edit(t) PROVE \E from, to : Goes(t, from, to)
    BY <1>17 DEF Edit
  <1> QED
    BY <1>1, <1>2, <1>3, <1>4, <1>5, <1>6, <1>7, <1>8, <1>9, <1>10, <1>11, <1>12,
       <1>13, <1>14, <1>15, <1>16, <1>17 DEF ApiStep

(* What a step of t does to the steps of all.                              *)
LEMMA GoesShape ==
  ASSUME BackupsShapes, NEW t \in ApiTasks, NEW from, NEW to, Goes(t, from, to)
  PROVE  /\ step' \in [ApiTasks -> ApiSteps] /\ errors' \in 0..MaxErrors
         /\ step[t] = from /\ step'[t] = to
         /\ \A u \in ApiTasks : u # t => step'[u] = step[u]
         /\ errors' = 0 => errors = 0
         /\ from \in ApiSteps \ ApiEnded /\ to \in ApiSteps \ {"new"}
  <1>1. Op[t] \in {"backup", "restore", "delete", "user", "edit"}
    BY BackupsAssumption
  <1>2. from \in ApiSteps \ ApiEnded /\ to \in ApiSteps \ {"new"}
    BY <1>1 DEF Goes, Legal, ApiSteps, BackupSteps, RestoreSteps, ApiEnded
  <1>3. /\ step' \in [ApiTasks -> ApiSteps] /\ step[t] = from /\ step'[t] = to
        /\ \A u \in ApiTasks : u # t => step'[u] = step[u]
    BY <1>2 DEF Goes, Go, BackupsShapes
  <1>4. errors' \in 0..MaxErrors /\ (errors' = 0 => errors = 0)
    BY BackupsAssumption DEF Goes, BackupsShapes
  <1> QED  BY <1>2, <1>3, <1>4 DEF Goes, Legal

(* The kinds stay.                                                         *)
LEMMA KindsStep ==
  ASSUME BackupsShapes, NEW t \in ApiTasks, ApiStep(t), NEW u \in ApiTasks, Kinds(u), Kinds(t)
  PROVE  Kinds(u)'
  <1>1. PICK from, to : Goes(t, from, to)
    BY ApiGoes
  <1>2. /\ step[t] = from /\ step'[t] = to
        /\ u # t => step'[u] = step[u]
    BY <1>1, GoesShape DEF Goes, Go, BackupsShapes
  <1>3. CASE u # t
    BY <1>2, <1>3 DEF Kinds
  <1>4. CASE u = t
    <2>1. Op[t] \in {"backup", "restore", "delete", "user", "edit"}
      BY BackupsAssumption
    <2> QED
      BY <1>1, <1>2, <1>4, <2>1 DEF Goes, Legal, Kinds, BackupSteps, RestoreSteps
  <1> QED  BY <1>3, <1>4

(* The requests that may still make a change; each makes one.              *)
Undone == {t \in ApiTasks : step[t] \in {"new", "user", "edit"}}

Counted == changes + Cardinality(Undone) <= Cardinality(ApiTasks)

(* The steps that change a variable.                                       *)
LEMMA ApiTouches ==
  ASSUME NEW t \in ApiTasks, ApiStep(t)
  PROVE  /\ clock' = clock
         /\ ahead' = ahead \/ ReadSecond(t)
         /\ id' = id \/ ReadSecond(t) \/ MakeDir(t) \/ Find(t) \/ RemoveFiles(t)
         /\ window' = window \/ Allow(t)
         /\ granted' = granted \/ Allow(t)
         /\ late' = late \/ Allow(t)
         /\ disk' = disk \/ Find(t) \/ ConfBack(t) \/ UsersBack(t)
                         \/ ChangeUsers(t) \/ Persist(t) \/ Edit(t)
         /\ dirs' = dirs \/ MakeDir(t) \/ CopyConf(t) \/ ConfCopied(t) \/ CopyUsers(t)
                         \/ UsersCopied(t) \/ RemoveFiles(t) \/ RemoveDir(t)
         /\ saved' = saved \/ Answer(t)
         /\ registry' = registry \/ ChangeUsers(t)
         /\ changes' = changes \/ ChangeUsers(t) \/ Edit(t)
         /\ overlap' = overlap \/ ReadSecond(t)
         /\ restored' = restored \/ Find(t) \/ Reload(t) \/ ChangeUsers(t) \/ Edit(t)
  <1> USE DEF stored, limiter
  <1>1. CASE ReadSecond(t) \/ Allow(t)
    BY <1>1 DEF ReadSecond, Allow
  <1>2. CASE MakeDir(t) \/ CopyConf(t) \/ ConfCopied(t)
    BY <1>2 DEF MakeDir, CopyConf, ConfCopied
  <1>3. CASE CopyUsers(t) \/ UsersCopied(t) \/ Answer(t)
    BY <1>3 DEF CopyUsers, UsersCopied, Answer
  <1>4. CASE Find(t) \/ ConfBack(t) \/ UsersBack(t) \/ Reload(t)
    BY <1>4 DEF Find, ConfBack, UsersBack, Reload
  <1>5. CASE RemoveFiles(t) \/ RemoveDir(t)
    BY <1>5 DEF RemoveFiles, RemoveDir
  <1>6. CASE ChangeUsers(t) \/ Persist(t) \/ Edit(t)
    BY <1>6 DEF ChangeUsers, Persist, Edit
  <1> QED  BY <1>1, <1>2, <1>3, <1>4, <1>5, <1>6 DEF ApiStep

(* The contents there can be.                                              *)
LEMMA Contents ==
  /\ Cardinality(ApiTasks) \in Nat /\ IsFiniteSet(ApiTasks)
  /\ Absent \in Content /\ Partial \in Content /\ 0 \in Content
  /\ \A n \in Nat : n <= Cardinality(ApiTasks) => n \in Content
  <1>1. Cardinality(ApiTasks) \in Nat /\ IsFiniteSet(ApiTasks)
    BY BackupsAssumption, FS_CardinalityType
  <1> DEFINE n == Cardinality(ApiTasks)
  <1>2. Content = -2..n
    BY DEF Content
  <1> HIDE DEF n
  <1>3. /\ Absent \in -2..n /\ Partial \in -2..n /\ 0 \in -2..n
        /\ \A m \in Nat : m <= n => m \in -2..n
    <2>1. n \in Nat
      BY <1>1 DEF n
    <2> QED  BY <2>1 DEF Absent, Partial
  <1> QED  BY <1>1, <1>2, <1>3 DEF n

(* A change is made by a request that will make no other.                  *)
LEMMA CountedStep ==
  ASSUME BackupsShapes, Counted, NEW t \in ApiTasks, ApiStep(t), Kinds(t)
  PROVE  Counted' /\ changes' \in Nat /\ changes' \in Content
  <1>1. PICK from, to : Goes(t, from, to)
    BY ApiGoes
  <1>2. /\ step[t] = from /\ step'[t] = to
        /\ \A u \in ApiTasks : u # t => step'[u] = step[u]
    BY <1>1, GoesShape
  <1>3. to \in {"user", "edit", "new"} => from = "new"
    <2>1. Op[t] \in {"backup", "restore", "delete", "user", "edit"}
      BY BackupsAssumption
    <2> QED  BY <1>1, <1>2, <2>1 DEF Goes, Legal, Kinds, BackupSteps, RestoreSteps
  <1>4. Undone' \subseteq Undone
    BY <1>2, <1>3 DEF Undone
  <1>5. IsFiniteSet(Undone) /\ Cardinality(Undone) \in Nat
    <2>1. Undone \in SUBSET ApiTasks
      BY DEF Undone
    <2>2. IsFiniteSet(Undone)
      BY <2>1, Contents, FS_Subset
    <2> QED  BY <2>2, FS_CardinalityType
  <1>6. IsFiniteSet(Undone') /\ Cardinality(Undone') \in Nat /\ Cardinality(Undone') <= Cardinality(Undone)
    <2>1. Undone' \in SUBSET Undone
      BY <1>4
    <2>2. IsFiniteSet(Undone') /\ Cardinality(Undone') <= Cardinality(Undone)
      BY <1>5, <2>1, FS_Subset
    <2> QED  BY <2>2, FS_CardinalityType
  <1>7. changes \in Nat
    BY DEF BackupsShapes
  <1>8. CASE changes' = changes
    BY <1>5, <1>6, <1>7, <1>8, Contents DEF Counted
  <1>9. CASE ChangeUsers(t) \/ Edit(t)
    <2>1. /\ changes' = changes + 1 /\ step[t] \in {"user", "edit"}
          /\ step'[t] \notin {"new", "user", "edit"}
      BY <1>9, <1>2 DEF ChangeUsers, Edit, Go, BackupsShapes
    <2>2. t \in Undone /\ t \notin Undone'
      BY <2>1 DEF Undone
    <2>3. Undone' \in SUBSET (Undone \ {t})
      BY <1>4, <2>2
    <2>4. IsFiniteSet(Undone \ {t}) /\ Cardinality(Undone \ {t}) = Cardinality(Undone) - 1
      BY <1>5, <2>2, FS_RemoveElement
    <2>5. Cardinality(Undone') <= Cardinality(Undone) - 1
      <3>1. Cardinality(Undone') <= Cardinality(Undone \ {t})
        BY <2>3, <2>4, FS_Subset
      <3> QED  BY <2>4, <3>1
    <2> QED  BY <1>5, <1>6, <1>7, <2>1, <2>5, Contents DEF Counted
  <1> QED  BY <1>8, <1>9, ApiTouches

(* What fs::copy makes of a directory.                                     *)
LEMMA OpenDirs ==
  ASSUME BackupsShapes, NEW source, NEW t, NEW from, NEW to, NEW dir \in Seconds,
         NEW file \in {"conf", "users"}, Open(source, t, from, to, dir, file)
  PROVE  /\ dirs[dir].there /\ source # Absent
         /\ dirs' \in [Seconds -> Dir]
         /\ \A s \in Seconds : s # dir => dirs'[s] = dirs[s]
         /\ dirs'[dir].there
         /\ file = "conf" => dirs'[dir].conf = Partial /\ dirs'[dir].users = dirs[dir].users
         /\ file = "users" => dirs'[dir].users = Partial /\ dirs'[dir].conf = dirs[dir].conf
  <1> DEFINE d == [dirs[dir] EXCEPT ![file] = Partial]
  <1>0. dirs \in [Seconds -> Dir] /\ dirs[dir] \in Dir
    BY DEF BackupsShapes
  <1>1. dirs' = [dirs EXCEPT ![dir] = d] /\ dirs[dir].there /\ source # Absent
    BY DEF Open
  <1>2. /\ d \in Dir /\ d.there = dirs[dir].there
        /\ file = "conf" => d.conf = Partial /\ d.users = dirs[dir].users
        /\ file = "users" => d.users = Partial /\ d.conf = dirs[dir].conf
    <2> DEFINE old == dirs[dir]
               e == d
    <2>1. old \in Dir /\ Partial \in Content /\ Replaced(e, old, file, Partial)
      BY <1>0, Contents DEF Replaced
    <2> HIDE DEF old, e
    <2>2. /\ e \in Dir /\ e.there = old.there
          /\ file = "conf" => e.conf = Partial /\ e.users = old.users
          /\ file = "users" => e.users = Partial /\ e.conf = old.conf
      BY <2>1, DirField
    <2> QED  BY <2>2 DEF old, e
  <1> HIDE DEF d
  <1>3. /\ dirs' \in [Seconds -> Dir] /\ dirs'[dir] = d
        /\ \A s \in Seconds : s # dir => dirs'[s] = dirs[s]
    BY <1>0, <1>1, <1>2
  <1> QED  BY <1>1, <1>2, <1>3

(* A copied file touches one file of one directory, if it is still there.  *)
LEMMA FillDirs ==
  ASSUME BackupsShapes, NEW t \in ApiTasks, id[t] \in Seconds, NEW content \in Content,
         NEW file \in {"conf", "users"}, Fill(t, file, content)
  PROVE  /\ dirs' \in [Seconds -> Dir]
         /\ \A s \in Seconds : s # id[t] => dirs'[s] = dirs[s]
         /\ dirs'[id[t]].there = dirs[id[t]].there
         /\ dirs'[id[t]].there \/ dirs'[id[t]] = NoDir
         /\ file = "conf" => /\ dirs'[id[t]].users = dirs[id[t]].users
                             /\ dirs[id[t]].conf # Absent => dirs'[id[t]].conf = content
         /\ file = "users" => /\ dirs'[id[t]].conf = dirs[id[t]].conf
                              /\ dirs[id[t]].users # Absent => dirs'[id[t]].users = content
  <1> DEFINE s0 == id[t]
             d == [dirs[s0] EXCEPT ![file] = content]
  <1>0. /\ dirs \in [Seconds -> Dir] /\ dirs[s0] \in Dir /\ s0 \in Seconds
        /\ dirs[s0].there \/ dirs[s0] = NoDir
    BY DEF BackupsShapes
  <1>1. dirs' = IF dirs[s0][file] = Absent THEN dirs ELSE [dirs EXCEPT ![s0] = d]
    BY DEF Fill
  <1>2. /\ d \in Dir /\ d.there = dirs[s0].there
        /\ file = "conf" => d.conf = content /\ d.users = dirs[s0].users
        /\ file = "users" => d.users = content /\ d.conf = dirs[s0].conf
        /\ dirs[s0]["conf"] = dirs[s0].conf /\ dirs[s0]["users"] = dirs[s0].users
    <2> DEFINE old == dirs[s0]
               e == d
    <2>1. old \in Dir /\ Replaced(e, old, file, content)
      BY <1>0 DEF Replaced
    <2> HIDE DEF old, e
    <2>2. /\ e \in Dir /\ e.there = old.there
          /\ file = "conf" => e.conf = content /\ e.users = old.users
          /\ file = "users" => e.users = content /\ e.conf = old.conf
          /\ old["conf"] = old.conf /\ old["users"] = old.users
      BY <2>1, DirField
    <2> QED  BY <2>2 DEF old, e
  <1> HIDE DEF d, s0
  <1>3. CASE dirs[s0][file] = Absent
    <2>1. dirs' = dirs
      BY <1>1, <1>3
    <2>2. /\ file = "conf" => dirs[s0].conf = Absent
          /\ file = "users" => dirs[s0].users = Absent
      BY <1>2, <1>3
    <2> QED  BY <1>0, <2>1, <2>2 DEF s0
  <1>4. CASE dirs[s0][file] # Absent
    <2>1. /\ dirs' \in [Seconds -> Dir] /\ dirs'[s0] = d
          /\ \A s \in Seconds : s # s0 => dirs'[s] = dirs[s]
      BY <1>0, <1>1, <1>2, <1>4
    <2>2. dirs[s0].there
      <3>1. dirs[s0] # NoDir
        BY <1>2, <1>4 DEF NoDir
      <3> QED  BY <1>0, <3>1
    <2> QED  BY <1>2, <2>1, <2>2 DEF s0
  <1> QED  BY <1>3, <1>4

(* The second a request under way has, and the files at hand.              *)
LEMMA AtHand ==
  ASSUME BackupsShapes, NEW t \in ApiTasks, ApiStep(t)
  PROVE  /\ step[t] # "new" => id[t] \in Seconds /\ dirs[id[t]] \in Dir /\ saved[id[t]] \in Dir
         /\ clock \in Seconds /\ dirs[clock] \in Dir
         /\ disk.conf \in Content /\ disk.users \in Content
         /\ \A s \in Seconds : /\ dirs[s] \in Dir /\ dirs[s].conf \in Content
                               /\ dirs[s].users \in Content /\ dirs[s].there \in BOOLEAN
                               /\ saved[s].conf \in Content /\ saved[s].users \in Content
  BY DEF BackupsShapes, Dir

(* Directories keep their shape.                                           *)
LEMMA DirsShape ==
  ASSUME BackupsShapes, NEW t \in ApiTasks, ApiStep(t)
  PROVE  /\ dirs' \in [Seconds -> Dir]
         /\ \A s \in Seconds : dirs'[s].there \/ dirs'[s] = NoDir
  <1>0. /\ dirs \in [Seconds -> Dir] /\ \A s \in Seconds : dirs[s].there \/ dirs[s] = NoDir
    BY DEF BackupsShapes
  <1>1. CASE MakeDir(t)
    <2> DEFINE d == [dirs[clock] EXCEPT !.there = TRUE]
    <2>1. dirs' = dirs \/ dirs' = [dirs EXCEPT ![clock] = d]
      BY <1>1 DEF MakeDir
    <2>2. d \in Dir /\ d.there = TRUE /\ clock \in Seconds
      BY AtHand DEF Dir
    <2> HIDE DEF d
    <2> QED  BY <1>0, <2>1, <2>2
  <1>2. CASE CopyConf(t) \/ CopyUsers(t)
    <2>1. id[t] \in Seconds
      BY <1>2, AtHand DEF CopyConf, CopyUsers, Open, Go, Error
    <2>2. CASE dirs' = dirs
      BY <1>0, <2>2
    <2>3. CASE Open(disk.conf, t, "copy_conf", "conf_open", id[t], "conf")
      BY <1>0, <2>1, <2>3, OpenDirs
    <2>4. CASE Open(disk.users, t, "copy_users", "users_open", id[t], "users")
      BY <1>0, <2>1, <2>4, OpenDirs
    <2> QED  BY <1>2, <2>2, <2>3, <2>4 DEF CopyConf, CopyUsers
  <1>3. CASE ConfCopied(t) \/ UsersCopied(t)
    <2>1. id[t] \in Seconds /\ disk.conf \in Content /\ disk.users \in Content
      BY <1>3, AtHand DEF ConfCopied, UsersCopied, Go, Error
    <2>2. CASE dirs' = dirs
      BY <1>0, <2>2
    <2>3. CASE Fill(t, "conf", disk.conf)
      BY <1>0, <2>1, <2>3, FillDirs
    <2>4. CASE Fill(t, "users", disk.users)
      BY <1>0, <2>1, <2>4, FillDirs
    <2> QED  BY <1>3, <2>2, <2>3, <2>4 DEF ConfCopied, UsersCopied
  <1>4. CASE RemoveFiles(t)
    <2>1. PICK s \in Seconds : dirs' = [dirs EXCEPT ![s].conf = Absent, ![s].users = Absent]
      BY <1>4 DEF RemoveFiles
    <2> DEFINE d == [[dirs[s] EXCEPT !.conf = Absent] EXCEPT !.users = Absent]
    <2>2. dirs' = [dirs EXCEPT ![s] = d]
      BY <1>0, <2>1
    <2>3. d \in Dir /\ d.there = dirs[s].there
      BY <1>0, Contents DEF Dir
    <2>4. dirs[s] = NoDir => d = NoDir
      <3> SUFFICES ASSUME dirs[s] = NoDir PROVE d = NoDir
        OBVIOUS
      <3>1. d = [[NoDir EXCEPT !.conf = Absent] EXCEPT !.users = Absent]
        OBVIOUS
      <3>2. NoDir \in Dir
        BY Contents DEF NoDir, Dir
      <3>3. d.there = FALSE /\ d.conf = Absent /\ d.users = Absent
        BY <3>1 DEF NoDir
      <3> HIDE DEF d
      <3>4. d = [there |-> FALSE, conf |-> Absent, users |-> Absent]
        BY <2>3, <3>3 DEF Dir
      <3> QED  BY <3>4 DEF NoDir
    <2> HIDE DEF d
    <2>5. dirs' \in [Seconds -> Dir] /\ dirs'[s] = d /\ \A r \in Seconds : r # s => dirs'[r] = dirs[r]
      BY <1>0, <2>2, <2>3
    <2> QED  BY <1>0, <2>3, <2>4, <2>5
  <1>5. CASE RemoveDir(t)
    <2>1. dirs' = dirs \/ dirs' = [dirs EXCEPT ![id[t]] = NoDir]
      BY <1>5 DEF RemoveDir
    <2>2. NoDir \in Dir
      BY Contents DEF NoDir, Dir
    <2> QED  BY <1>0, <2>1, <2>2
  <1>6. CASE dirs' = dirs
    BY <1>0, <1>6
  <1> QED  BY <1>1, <1>2, <1>3, <1>4, <1>5, <1>6, ApiTouches

(* The two files on disk keep their shape.                                 *)
LEMMA DiskShape ==
  ASSUME BackupsShapes, NEW t \in ApiTasks, ApiStep(t), changes' \in Content
  PROVE  disk' \in [conf : Content, users : Content]
  <1>0. disk \in [conf : Content, users : Content] /\ Partial \in Content /\ registry \in Content
    BY Contents DEF BackupsShapes
  <1>1. ASSUME NEW x \in Content
        PROVE  /\ [disk EXCEPT !.conf = x] \in [conf : Content, users : Content]
               /\ [disk EXCEPT !.users = x] \in [conf : Content, users : Content]
    BY <1>0
  <1>2. CASE Find(t)
    BY <1>0, <1>1, <1>2 DEF Find
  <1>3. CASE ConfBack(t)
    <2>1. dirs[id[t]].conf \in Content /\ saved[id[t]].conf \in Content
      BY <1>3, AtHand DEF ConfBack, Go, Error
    <2>2. disk' = disk \/ \E content \in Content : disk' = [disk EXCEPT !.conf = content]
      BY <1>0, <1>3, <2>1 DEF ConfBack
    <2> QED  BY <1>0, <1>1, <2>2
  <1>4. CASE UsersBack(t)
    <2>1. dirs[id[t]].users \in Content
      BY <1>4, AtHand DEF UsersBack, Go, Error
    <2>2. disk' = disk \/ \E content \in Content : disk' = [disk EXCEPT !.users = content]
      BY <1>0, <1>4, <2>1 DEF UsersBack
    <2> QED  BY <1>0, <1>1, <2>2
  <1>5. CASE ChangeUsers(t) \/ Persist(t)
    BY <1>0, <1>1, <1>5 DEF ChangeUsers, Persist
  <1>6. CASE Edit(t)
    BY <1>0, <1>1, <1>6 DEF Edit
  <1> QED  BY <1>0, <1>2, <1>3, <1>4, <1>5, <1>6, ApiTouches

(* Every request that has arrived keeps a second.                          *)
LEMMA IdShape ==
  ASSUME BackupsShapes, NEW t \in ApiTasks, ApiStep(t)
  PROVE  /\ id' \in [ApiTasks -> Seconds \cup {Absent}]
         /\ \A u \in ApiTasks : step'[u] # "new" => id'[u] \in Seconds
         /\ \A u \in ApiTasks : u # t => id'[u] = id[u]
  <1>0. /\ id \in [ApiTasks -> Seconds \cup {Absent}] /\ clock \in Seconds
        /\ \A u \in ApiTasks : step[u] # "new" => id[u] \in Seconds
    BY DEF BackupsShapes
  <1>1. PICK from, to : Goes(t, from, to)
    BY ApiGoes
  <1>2. /\ step[t] = from /\ \A u \in ApiTasks : u # t => step'[u] = step[u]
    BY <1>1, GoesShape
  <1>3. CASE \E s \in Seconds : id' = [id EXCEPT ![t] = s]
    BY <1>0, <1>2, <1>3
  <1>4. CASE id' = id /\ from # "new"
    BY <1>0, <1>2, <1>4
  <1>5. from = "new" => ReadSecond(t)
    <2> USE <1>2 DEF Go, Error
    <2>1. CASE Allow(t) \/ MakeDir(t) \/ CopyConf(t)
      BY <2>1 DEF Allow, MakeDir, CopyConf, Open
    <2>2. CASE ConfCopied(t) \/ CopyUsers(t) \/ UsersCopied(t) \/ Answer(t)
      BY <2>2 DEF ConfCopied, CopyUsers, UsersCopied, Answer, Open
    <2>3. CASE Find(t) \/ ConfBack(t) \/ UsersBack(t) \/ Reload(t)
      BY <2>3 DEF Find, ConfBack, UsersBack, Reload
    <2>4. CASE RemoveFiles(t) \/ RemoveDir(t) \/ ChangeUsers(t) \/ Persist(t) \/ Edit(t)
      BY <2>4 DEF RemoveFiles, RemoveDir, ChangeUsers, Persist, Edit
    <2> QED  BY <2>1, <2>2, <2>3, <2>4 DEF ApiStep
  <1>6. ReadSecond(t) \/ MakeDir(t) \/ Find(t) \/ RemoveFiles(t) =>
          \E s \in Seconds : id' = [id EXCEPT ![t] = s]
    BY <1>0 DEF ReadSecond, MakeDir, Find, RemoveFiles
  <1> QED  BY <1>3, <1>4, <1>5, <1>6, ApiTouches

(* The steps of the requests, the clock, and nothing else.                 *)
LEMMA BackupCases ==
  ASSUME [BackupsNext]_apiVars
  PROVE  Tick \/ (\E t \in ApiTasks : ApiStep(t)) \/ UNCHANGED apiVars
  BY DEF BackupsNext, ApiStep

BackupsInv == BackupsShapes /\ Counted /\ \A t \in ApiTasks : Kinds(t)

(* Every step keeps the types of the backups.                              *)
LEMMA BackupsInvStep ==
  ASSUME BackupsInv, [BackupsNext]_apiVars
  PROVE  BackupsInv'
  <1>0. BackupsShapes /\ Counted /\ \A t \in ApiTasks : Kinds(t)
    BY DEF BackupsInv
  <1>1. ASSUME NEW t \in ApiTasks, ApiStep(t) PROVE BackupsInv'
    <2>1. Counted' /\ changes' \in Nat /\ changes' \in Content
      BY <1>0, <1>1, CountedStep
    <2>2. \A u \in ApiTasks : Kinds(u)'
      BY <1>0, <1>1, KindsStep
    <2>3. PICK from, to : Goes(t, from, to)
      BY <1>1, ApiGoes
    <2>4. step' \in [ApiTasks -> ApiSteps] /\ errors' \in 0..MaxErrors
      BY <1>0, <2>3, GoesShape
    <2>5. /\ dirs' \in [Seconds -> Dir]
          /\ \A s \in Seconds : dirs'[s].there \/ dirs'[s] = NoDir
          /\ disk' \in [conf : Content, users : Content]
          /\ id' \in [ApiTasks -> Seconds \cup {Absent}]
          /\ \A u \in ApiTasks : step'[u] # "new" => id'[u] \in Seconds
      BY <1>0, <1>1, <2>1, DirsShape, DiskShape, IdShape
    <2>6. saved' \in [Seconds -> Dir]
      <3>1. CASE Answer(t)
        <4> DEFINE d == [there |-> TRUE, conf |-> disk.conf, users |-> disk.users]
        <4>1. d \in Dir
          BY <1>0, <1>1, AtHand DEF Dir
        <4>2. saved' = [saved EXCEPT ![id[t]] = d]
          BY <3>1 DEF Answer
        <4> HIDE DEF d
        <4> QED  BY <1>0, <4>1, <4>2 DEF BackupsShapes
      <3> QED  BY <1>0, <1>1, <3>1, ApiTouches DEF BackupsShapes
    <2>7. /\ window' \in [second : Seconds \cup {Absent}, count : Nat]
          /\ granted' \in [Seconds -> Nat] /\ late' \in BOOLEAN
      <3>1. CASE Allow(t)
        <4> DEFINE fresh == window.second # id[t]
                   count == IF fresh THEN 1 ELSE window.count + 1
        <4>1. count \in Nat /\ id[t] \in Seconds \cup {Absent}
          BY <1>0 DEF BackupsShapes
        <4>2. /\ window' = [second |-> id[t], count |-> count]
              /\ granted' = [granted EXCEPT ![id[t]] = IF fresh \/ count <= Limit THEN @ + 1 ELSE @]
              /\ late' = (late \/ clock # id[t])
          BY <3>1 DEF Allow
        <4> HIDE DEF fresh, count
        <4>3. granted' \in [Seconds -> Nat]
          <5>1. ASSUME NEW s \in Seconds PROVE granted'[s] \in Nat
            BY <1>0, <4>2 DEF BackupsShapes
          <5>2. granted' = [s \in Seconds |-> granted'[s]]
            BY <1>0, <4>2 DEF BackupsShapes
          <5> QED  BY <5>1, <5>2
        <4> QED  BY <4>1, <4>2, <4>3
      <3> QED  BY <1>0, <1>1, <3>1, ApiTouches DEF BackupsShapes
    <2>8. /\ ahead' \subseteq ApiTasks /\ overlap' \in BOOLEAN /\ clock' \in Seconds
          /\ registry' \in Content
      BY <1>0, <1>1, <2>1, ApiTouches DEF BackupsShapes, ReadSecond, ChangeUsers
    <2>9. restored' \in Seconds \cup {Absent}
      <3>1. CASE Reload(t)
        <4>1. restored' = id[t]
          BY <3>1 DEF Reload
        <4> QED  BY <1>0, <4>1 DEF BackupsShapes
      <3>2. CASE Find(t) \/ ChangeUsers(t) \/ Edit(t)
        BY <1>0, <3>2 DEF BackupsShapes, Find, ChangeUsers, Edit
      <3> QED  BY <1>0, <1>1, <3>1, <3>2, ApiTouches DEF BackupsShapes
    <2> QED  BY <2>1, <2>2, <2>4, <2>5, <2>6, <2>7, <2>8, <2>9 DEF BackupsInv, BackupsShapes
  <1>2. CASE Tick
    <2>1. clock' \in Seconds
      BY <1>0, <1>2, BackupsAssumption DEF Tick, BackupsShapes, Seconds
    <2>2. UNCHANGED <<ahead, step, id, window, disk, dirs, registry, changes, errors,
                      saved, granted, late, overlap, restored>>
      BY <1>2 DEF Tick, stored
    <2> QED  BY <1>0, <2>1, <2>2 DEF BackupsInv, BackupsShapes, Counted, Undone, Kinds
  <1>3. CASE UNCHANGED apiVars
    <2>1. UNCHANGED <<ahead, step, id, clock, window, disk, dirs, registry, changes, errors,
                      saved, granted, late, overlap, restored>>
      BY <1>3 DEF apiVars
    <2> QED  BY <1>0, <2>1 DEF BackupsInv, BackupsShapes, Counted, Undone, Kinds
  <1> QED  BY <1>1, <1>2, <1>3, BackupCases

-----------------------------------------------------------------------------
(* The rate limiter                                                        *)

(* While nobody is late, the window is the latest second that has counted. *)
RateInv ==
  ~late =>
    /\ window.second <= clock
    /\ \A s \in Seconds : s > window.second => granted[s] = 0
    /\ \A s \in Seconds : granted[s] <= Limit
    /\ window.second \in Seconds => granted[window.second] <= window.count

(* Allow counts what it grants in the window it is in; a new second starts *)
(* at nothing.                                                             *)
LEMMA RateStep ==
  ASSUME BackupsInv, RateInv, [BackupsNext]_apiVars
  PROVE  RateInv'
  <1>0. /\ BackupsShapes /\ Limit \in Nat \ {0} /\ MaxClock \in Nat
        /\ window.second \in Seconds \cup {Absent} /\ window.count \in Nat
        /\ granted \in [Seconds -> Nat] /\ clock \in Seconds
    BY BackupsAssumption DEF BackupsInv, BackupsShapes
  <1>1. ASSUME NEW t \in ApiTasks, Allow(t) PROVE RateInv'
    <2> DEFINE fresh == window.second # id[t]
               count == IF fresh THEN 1 ELSE window.count + 1
               grants == fresh \/ count <= Limit
    <2>1. /\ window' = [second |-> id[t], count |-> count] /\ clock' = clock
          /\ granted' = [granted EXCEPT ![id[t]] = IF grants THEN granted[id[t]] + 1 ELSE granted[id[t]]]
          /\ late' = (late \/ clock # id[t])
      BY <1>1 DEF Allow
    <2> SUFFICES ASSUME ~late' PROVE RateInv'
      BY DEF RateInv
    <2>2. ~late /\ id[t] = clock
      BY <2>1
    <2> DEFINE g == IF grants THEN granted[clock] + 1 ELSE granted[clock]
               w == window.second
    <2>3. /\ window'.second = clock /\ window'.count = count
          /\ granted' = [granted EXCEPT ![clock] = g]
      BY <2>1, <2>2
    <2>4. /\ w <= clock /\ (\A s \in Seconds : s > w => granted[s] = 0)
          /\ (\A s \in Seconds : granted[s] <= Limit)
          /\ (w \in Seconds => granted[w] <= window.count)
      BY <2>2 DEF RateInv
    <2>5. g <= count /\ g <= Limit /\ g \in Nat
      <3>1. CASE w # clock
        <4>1. w < clock
          BY <1>0, <2>4, <3>1 DEF Seconds, Absent
        <4>2. granted[clock] = 0
          BY <1>0, <2>4, <4>1 DEF Seconds, Absent
        <4>3. fresh /\ grants /\ count = 1
          BY <2>2, <3>1
        <4>4. g = 1
          BY <4>2, <4>3
        <4> QED  BY <1>0, <4>3, <4>4
      <3>2. CASE w = clock
        <4>1. ~fresh /\ count = window.count + 1 /\ (grants <=> count <= Limit)
          BY <2>2, <3>2
        <4>2. granted[clock] <= window.count /\ granted[clock] <= Limit /\ granted[clock] \in Nat
          BY <1>0, <2>4, <3>2
        <4> DEFINE a == granted[clock]
                   n == window.count
        <4>3. a \in Nat /\ n \in Nat /\ a <= n /\ a <= Limit /\ count = n + 1
              /\ g = (IF n + 1 <= Limit THEN a + 1 ELSE a)
          BY <1>0, <4>1, <4>2
        <4> HIDE DEF a, n, g, count
        <4> QED  BY <1>0, <4>3
      <3> QED  BY <3>1, <3>2
    <2> HIDE DEF g, count, fresh, grants
    <2>6. /\ granted'[clock] = g
          /\ \A s \in Seconds : s # clock => granted'[s] = granted[s]
      BY <1>0, <2>3
    <2>7. \A s \in Seconds : s > clock => granted'[s] = 0
      <3> TAKE s \in Seconds
      <3>1. s > clock => s > w /\ s # clock
        BY <1>0, <2>4 DEF Seconds, Absent
      <3> QED  BY <2>4, <2>6, <3>1
    <2>8. \A s \in Seconds : granted'[s] <= Limit
      BY <2>4, <2>5, <2>6
    <2>9. clock <= clock
      BY <1>0 DEF Seconds
    <2> QED  BY <2>1, <2>3, <2>5, <2>6, <2>7, <2>8, <2>9 DEF RateInv
  <1>2. CASE Tick
    <2>1. /\ UNCHANGED <<window, granted, late>> /\ clock' = clock + 1
      BY <1>2 DEF Tick
    <2>2. window.second <= clock => window.second <= clock + 1
      BY <1>0 DEF Seconds, Absent
    <2> QED  BY <2>1, <2>2 DEF RateInv
  <1>3. CASE UNCHANGED <<window, granted, late, clock>>
    BY <1>3 DEF RateInv
  <1>4. ASSUME NEW t \in ApiTasks, ApiStep(t)
        PROVE  Allow(t) \/ UNCHANGED <<window, granted, late, clock>>
    BY <1>4, ApiTouches
  <1>5. UNCHANGED apiVars => UNCHANGED <<window, granted, late, clock>>
    BY DEF apiVars
  <1> QED  BY <1>1, <1>2, <1>3, <1>4, <1>5, BackupCases

-----------------------------------------------------------------------------
(* A backup brought back                                                   *)

Writing(t) == step[t] \in {"conf_open", "copy_users", "users_open", "answer"}

(* No backup of second s has failed.                                       *)
Unfailed(s) == \A t \in ApiTasks : Op[t] = "backup" /\ step[t] = "error" => id[t] # s

(* The files f are those saved in second s.                                *)
Agrees(s, f) ==
  /\ Unfailed(s) => f.conf = saved[s].conf
  /\ errors = 0 /\ saved[s].users # Absent => f.users = saved[s].users

(* What the directory of a second holds, while no backup writes to it.     *)
Faithful(s) ==
  saved[s].there /\ dirs[s].conf # Absent /\ (\A t \in ApiTasks : Writing(t) => id[t] # s) =>
    Agrees(s, dirs[s])

(* What the files are after a restore.                                     *)
Back == restored # Absent /\ saved[restored].there => Agrees(restored, disk)

(* How far a backup or a restore has come.                                 *)
Midway(t) ==
  LET dir == dirs[id[t]] IN
  /\ step[t] = "conf_open" => dir.there /\ dir.conf # Absent
  /\ step[t] \in {"copy_users", "users_open", "answer"} => dir.conf = disk.conf
  /\ step[t] \in {"copy_users", "users_open"} => dir.there
  /\ step[t] = "users_open" => dir.users # Absent
  /\ step[t] = "answer" /\ errors = 0 /\ disk.users # Absent => dir.users = disk.users
  /\ step[t] \in {"conf_back", "users_back", "reload", "persist"} => restored = Absent
  /\ step[t] \in {"conf_back", "users_back", "reload"} => dir.conf # Absent
  /\ step[t] \in {"users_back", "reload"} => disk.conf = dir.conf
  /\ step[t] = "users_back" => dir.users # Absent
  /\ step[t] = "reload" /\ errors = 0 /\ dir.users # Absent => disk.users = dir.users

RoundInv ==
  ~overlap =>
    /\ \A t, u \in ApiTasks : Pending(t) /\ Pending(u) => t = u
    /\ \A t \in ApiTasks : Midway(t)
    /\ \A s \in Seconds : Faithful(s)
    /\ Back

(* A step of t while requests come one by one.                             *)
Serial(t) ==
  /\ ~overlap /\ Midway(t) /\ Back
  /\ \A s \in Seconds : Faithful(s)
  /\ \A u \in ApiTasks : u # t => /\ step'[u] = step[u] /\ id'[u] = id[u]
                                  /\ step[u] \in {"new"} \cup ApiEnded
  /\ step[t] \notin ApiEnded
  /\ errors' = 0 => errors = 0
  /\ errors \in Nat

(* A step taken while requests come one by one: nobody else is under way,  *)
(* and nobody else is disturbed.                                           *)
LEMMA SerialStep ==
  ASSUME BackupsInv, RoundInv, NEW t \in ApiTasks, ApiStep(t), ~overlap'
  PROVE  /\ Serial(t)
         /\ \A u, v \in ApiTasks : Pending(u)' /\ Pending(v)' => u = v
         /\ \A u \in ApiTasks : u # t => Midway(u)'
  <1>0. BackupsShapes
    BY DEF BackupsInv
  <1>1. PICK from, to : Goes(t, from, to)
    BY ApiGoes
  <1>2. /\ step[t] = from /\ step'[t] = to
        /\ \A u \in ApiTasks : u # t => step'[u] = step[u]
        /\ errors' = 0 => errors = 0
        /\ from \in ApiSteps \ ApiEnded /\ to \in ApiSteps \ {"new"}
    BY <1>0, <1>1, GoesShape
  <1>3. \A u \in ApiTasks : u # t => id'[u] = id[u]
    BY <1>0, IdShape
  <1>4. ~overlap
    BY ApiTouches DEF ReadSecond
  <1>5. \A u \in ApiTasks : u # t => ~Pending(u)
    <2>1. CASE from = "new"
      <3>1. ReadSecond(t)
        <4> USE <1>2, <2>1 DEF Go, Error
        <4>1. CASE Allow(t) \/ MakeDir(t) \/ CopyConf(t)
          BY <4>1 DEF Allow, MakeDir, CopyConf, Open
        <4>2. CASE ConfCopied(t) \/ CopyUsers(t) \/ UsersCopied(t) \/ Answer(t)
          BY <4>2 DEF ConfCopied, CopyUsers, UsersCopied, Answer, Open
        <4>3. CASE Find(t) \/ ConfBack(t) \/ UsersBack(t) \/ Reload(t)
          BY <4>3 DEF Find, ConfBack, UsersBack, Reload
        <4>4. CASE RemoveFiles(t) \/ RemoveDir(t) \/ ChangeUsers(t) \/ Persist(t) \/ Edit(t)
          BY <4>4 DEF RemoveFiles, RemoveDir, ChangeUsers, Persist, Edit
        <4> QED  BY <4>1, <4>2, <4>3, <4>4 DEF ApiStep
      <3> QED  BY <3>1 DEF ReadSecond
    <2>2. CASE from # "new"
      <3>1. Pending(t)
        BY <1>2, <2>2 DEF Pending
      <3> QED  BY <1>4, <3>1 DEF RoundInv
    <2> QED  BY <2>1, <2>2
  <1>6. \A u \in ApiTasks : u # t => step[u] \in {"new"} \cup ApiEnded
    BY <1>5 DEF Pending
  <1>7. errors \in Nat
    BY <1>0, BackupsAssumption DEF BackupsShapes
  <1>8. Serial(t)
    BY <1>2, <1>3, <1>4, <1>6, <1>7 DEF Serial, RoundInv
  <1>9. \A u, v \in ApiTasks : Pending(u)' /\ Pending(v)' => u = v
    BY <1>2, <1>5 DEF Pending
  <1>10. \A u \in ApiTasks : u # t => Midway(u)'
    BY <1>2, <1>6 DEF Midway, ApiEnded
  <1> QED  BY <1>8, <1>9, <1>10

(* A failed backup stays failed.                                           *)
LEMMA FailedStays ==
  ASSUME NEW t \in ApiTasks, Serial(t), NEW s, Unfailed(s)'
  PROVE  Unfailed(s)
  BY DEF Serial, Unfailed, ApiEnded

(* The directory of a second that a step leaves alone.                     *)
LEMMA FaithfulStays ==
  ASSUME NEW t \in ApiTasks, Serial(t), NEW s \in Seconds, saved'[s] = saved[s],
         dirs'[s].conf # Absent =>
           dirs'[s].conf = dirs[s].conf /\ dirs'[s].users = dirs[s].users,
         Writing(t) /\ id[t] = s => Writing(t)' /\ id'[t] = s
  PROVE  Faithful(s)'
  <1> SUFFICES ASSUME saved'[s].there, dirs'[s].conf # Absent,
                      \A u \in ApiTasks : Writing(u)' => id'[u] # s
               PROVE  Agrees(s, dirs[s])'
    BY DEF Faithful
  <1>1. \A u \in ApiTasks : Writing(u) => id[u] # s
    BY DEF Serial, Writing, ApiEnded
  <1>2. Agrees(s, dirs[s])
    BY <1>1 DEF Serial, Faithful
  <1>3. Unfailed(s)' => Unfailed(s)
    BY FailedStays
  <1> QED  BY <1>2, <1>3 DEF Agrees, Serial

(* The files after a restore, when a step leaves them alone.               *)
LEMMA BackStays ==
  ASSUME BackupsShapes, NEW t \in ApiTasks, Serial(t), disk' = disk, restored' = restored,
         restored \in Seconds => saved'[restored] = saved[restored]
  PROVE  Back'
  <1> SUFFICES ASSUME restored # Absent, saved'[restored].there PROVE Agrees(restored, disk)'
    BY DEF Back
  <1>1. restored \in Seconds
    BY DEF BackupsShapes
  <1>2. Agrees(restored, disk)
    BY <1>1 DEF Serial, Back
  <1>3. Unfailed(restored)' => Unfailed(restored)
    BY FailedStays DEF Unfailed
  <1> QED  BY <1>1, <1>2, <1>3 DEF Agrees, Serial

(* The limiter, and steps that only make or remove directories.            *)
LEMMA RoundDirs ==
  ASSUME BackupsInv, NEW t \in ApiTasks, Serial(t),
         ReadSecond(t) \/ Allow(t) \/ MakeDir(t) \/ RemoveFiles(t) \/ RemoveDir(t)
  PROVE  Midway(t)' /\ Back' /\ \A s \in Seconds : Faithful(s)'
  <1>0. /\ BackupsShapes /\ dirs \in [Seconds -> Dir] /\ clock \in Seconds
        /\ step \in [ApiTasks -> ApiSteps]
    BY DEF BackupsInv, BackupsShapes
  <1>1. /\ step[t] \in {"new", "allow", "backup", "delete", "rmdir"}
        /\ step'[t] \in {"edit", "user", "allow", Op[t], "refused", "copy_conf", "error",
                         "rmdir", "not_found", "ok"}
        /\ UNCHANGED <<disk, saved, restored>>
    <2>1. CASE ReadSecond(t)
      BY <1>0, <2>1 DEF ReadSecond, Go, stored
    <2>2. CASE Allow(t) \/ MakeDir(t)
      BY <1>0, <2>2 DEF Allow, MakeDir, Go, Error, stored
    <2>3. CASE RemoveFiles(t) \/ RemoveDir(t)
      BY <1>0, <2>3 DEF RemoveFiles, RemoveDir, Go
    <2> QED  BY <2>1, <2>2, <2>3
  <1>2. Op[t] \in {"backup", "restore", "delete", "user", "edit"}
    BY BackupsAssumption
  <1>3. Midway(t)'
    BY <1>1, <1>2 DEF Midway
  <1>4. Back'
    BY <1>0, <1>1, BackStays
  <1>5. ASSUME NEW s \in Seconds PROVE Faithful(s)'
    <2>1. dirs'[s].conf # Absent =>
            dirs'[s].conf = dirs[s].conf /\ dirs'[s].users = dirs[s].users
      <3>1. CASE dirs' = dirs
        BY <3>1
      <3>2. CASE MakeDir(t)
        BY <1>0, <3>2 DEF MakeDir, Dir
      <3>3. CASE RemoveFiles(t)
        <4>1. PICK r \in Seconds : dirs' = [dirs EXCEPT ![r].conf = Absent, ![r].users = Absent]
          BY <3>3 DEF RemoveFiles
        <4>2. s # r => dirs'[s] = dirs[s]
          BY <1>0, <4>1
        <4>3. s = r => dirs'[s] = [[dirs[s] EXCEPT !.conf = Absent] EXCEPT !.users = Absent]
          BY <1>0, <4>1
        <4>4. s = r => dirs'[s].conf = Absent
          BY <1>0, <4>3 DEF Dir
        <4> QED  BY <4>2, <4>4
      <3>4. CASE RemoveDir(t)
        BY <1>0, <3>4 DEF RemoveDir, NoDir
      <3>5. ReadSecond(t) \/ Allow(t) => dirs' = dirs
        BY DEF ReadSecond, Allow, stored
      <3> QED  BY <3>1, <3>2, <3>3, <3>4, <3>5
    <2>2. ~Writing(t) /\ saved'[s] = saved[s]
      BY <1>1 DEF Writing
    <2> QED  BY <2>1, <2>2, FaithfulStays
  <1> QED  BY <1>3, <1>4, <1>5

(* A backup writes to its own directory, and only says so at its end.      *)
LEMMA RoundCopy ==
  ASSUME BackupsInv, NEW t \in ApiTasks, Serial(t),
         CopyConf(t) \/ ConfCopied(t) \/ CopyUsers(t) \/ UsersCopied(t)
  PROVE  Midway(t)' /\ Back' /\ \A s \in Seconds : Faithful(s)'
  <1> DEFINE s0 == id[t]
  <1>0. /\ BackupsShapes /\ dirs \in [Seconds -> Dir] /\ step \in [ApiTasks -> ApiSteps]
        /\ Kinds(t) /\ Midway(t) /\ errors \in Nat
    BY DEF BackupsInv, BackupsShapes, Serial
  <1>1. /\ step[t] \in {"copy_conf", "conf_open", "copy_users", "users_open"}
        /\ UNCHANGED <<id, disk, saved, restored>>
    BY DEF CopyConf, ConfCopied, CopyUsers, UsersCopied, Go, Error, Open
  <1>2. s0 \in Seconds /\ Op[t] = "backup" /\ disk.conf \in Content /\ disk.users \in Content
    BY <1>0, <1>1 DEF BackupsShapes, Kinds, BackupSteps
  <1>3. Back'
    BY <1>0, <1>1, BackStays
  <1>a. /\ \A s \in Seconds : s # s0 => dirs'[s] = dirs[s]
        /\ \/ Writing(t)'
           \/ dirs' = dirs /\ ~Writing(t)
           \/ step'[t] = "error" /\ errors' # 0
        /\ Midway(t)'
    <2> HIDE DEF s0
    <2>0. id[t] = s0 /\ id'[t] = s0
      BY <1>1 DEF s0
    <2>1. CASE Open(disk.conf, t, "copy_conf", "conf_open", id[t], "conf")
      <3>1. /\ \A s \in Seconds : s # s0 => dirs'[s] = dirs[s]
            /\ dirs'[s0].there /\ dirs'[s0].conf = Partial
        BY <1>0, <1>2, <2>0, <2>1, OpenDirs
      <3>2. step'[t] = "conf_open"
        BY <1>0, <2>1 DEF Open, Go
      <3>3. Midway(t)'
        BY <2>0, <3>1, <3>2 DEF Midway, Partial, Absent
      <3> QED  BY <3>1, <3>2, <3>3 DEF Writing
    <2>2. CASE step[t] = "copy_conf" /\ step'[t] = "error" /\ dirs' = dirs
      BY <2>2 DEF Midway, Writing
    <2>3. CASE /\ Go(t, "conf_open", IF disk.users = Absent THEN "answer" ELSE "copy_users")
               /\ Fill(t, "conf", disk.conf)
      <3>0. step[t] = "conf_open" /\ dirs[s0].there /\ dirs[s0].conf # Absent
        BY <1>0, <2>0, <2>3 DEF Go, Midway
      <3>1. /\ \A s \in Seconds : s # s0 => dirs'[s] = dirs[s]
            /\ dirs'[s0].there = dirs[s0].there /\ dirs'[s0].conf = disk.conf
        <4>1. /\ \A s \in Seconds : s # id[t] => dirs'[s] = dirs[s]
              /\ dirs'[id[t]].there = dirs[id[t]].there
              /\ dirs[id[t]].conf # Absent => dirs'[id[t]].conf = disk.conf
          <5>1. Fill(t, "conf", disk.conf) /\ id[t] \in Seconds /\ BackupsShapes
            BY <1>0, <1>2, <2>0, <2>3
          <5> QED  BY <5>1, <1>2, FillDirs
        <4> QED  BY <4>1, <2>0, <3>0
      <3>2. step'[t] = IF disk.users = Absent THEN "answer" ELSE "copy_users"
        BY <1>0, <2>3 DEF Go
      <3>3. Midway(t)'
        BY <1>1, <2>0, <3>0, <3>1, <3>2 DEF Midway
      <3> QED  BY <3>1, <3>2, <3>3 DEF Writing
    <2>4. CASE step'[t] = "error" /\ errors' = errors + 1 /\ dirs' = dirs
      <3>1. errors' # 0
        BY <1>0, <2>4
      <3> QED  BY <2>4, <3>1 DEF Midway
    <2>5. CASE Open(disk.users, t, "copy_users", "users_open", id[t], "users")
      <3>0. step[t] = "copy_users" /\ dirs[s0].conf = disk.conf
        BY <1>0, <2>0, <2>5 DEF Open, Go, Midway
      <3>1. /\ \A s \in Seconds : s # s0 => dirs'[s] = dirs[s]
            /\ dirs'[s0].there /\ dirs'[s0].users = Partial /\ dirs'[s0].conf = dirs[s0].conf
        BY <1>0, <1>2, <2>0, <2>5, OpenDirs
      <3>2. step'[t] = "users_open"
        BY <1>0, <2>5 DEF Open, Go
      <3>3. Midway(t)'
        BY <1>1, <2>0, <3>0, <3>1, <3>2 DEF Midway, Partial, Absent
      <3> QED  BY <3>1, <3>2, <3>3 DEF Writing
    <2>6. CASE step[t] = "copy_users" /\ ~dirs[id[t]].there
      BY <1>0, <2>6 DEF Midway
    <2>7. CASE /\ step[t] \in {"copy_users", "users_open"} /\ step'[t] = "answer"
               /\ errors' = errors + 1 /\ dirs' = dirs
      <3>1. errors' # 0
        BY <1>0, <2>7
      <3>2. Midway(t)'
        BY <1>0, <1>1, <2>7, <3>1 DEF Midway
      <3> QED  BY <2>7, <3>2 DEF Writing
    <2>8. CASE Go(t, "users_open", "answer") /\ Fill(t, "users", disk.users)
      <3>0. /\ step[t] = "users_open" /\ dirs[s0].conf = disk.conf
            /\ dirs[s0].users # Absent
        BY <1>0, <2>0, <2>8 DEF Go, Midway
      <3>1. /\ \A s \in Seconds : s # s0 => dirs'[s] = dirs[s]
            /\ dirs'[s0].users = disk.users /\ dirs'[s0].conf = dirs[s0].conf
        BY <1>0, <1>2, <2>0, <2>8, <3>0, FillDirs
      <3>2. step'[t] = "answer"
        BY <1>0, <2>8 DEF Go
      <3>3. Midway(t)'
        BY <1>1, <2>0, <3>0, <3>1, <3>2 DEF Midway
      <3> QED  BY <3>1, <3>2, <3>3 DEF Writing
    <2> USE <1>0 DEF Go, Error
    <2>9. CASE CopyConf(t)
      BY <2>1, <2>2, <2>9 DEF CopyConf
    <2>10. CASE ConfCopied(t)
      BY <2>3, <2>4, <2>10 DEF ConfCopied
    <2>11. CASE CopyUsers(t)
      BY <2>5, <2>6, <2>7, <2>11 DEF CopyUsers
    <2>12. CASE UsersCopied(t)
      BY <2>7, <2>8, <2>12 DEF UsersCopied
    <2> QED  BY <2>9, <2>10, <2>11, <2>12
  <1>5. ASSUME NEW s \in Seconds PROVE Faithful(s)'
    <2>1. CASE s # s0
      <3>1. dirs'[s] = dirs[s] /\ saved'[s] = saved[s] /\ ~(Writing(t) /\ id[t] = s)
        BY <1>1, <1>a, <2>1
      <3> QED  BY <3>1, FaithfulStays
    <2>2. CASE s = s0 /\ Writing(t)'
      BY <1>1, <2>2 DEF Faithful
    <2>3. CASE s = s0 /\ dirs' = dirs /\ ~Writing(t)
      <3>1. saved'[s] = saved[s]
        BY <1>1
      <3> QED  BY <2>3, <3>1, FaithfulStays
    <2>4. CASE s = s0 /\ step'[t] = "error" /\ errors' # 0
      <3>1. ~Unfailed(s)'
        BY <1>1, <1>2, <2>4 DEF Unfailed
      <3> QED  BY <2>4, <3>1 DEF Faithful, Agrees
    <2> QED  BY <1>a, <2>1, <2>2, <2>3, <2>4
  <1> QED  BY <1>3, <1>a, <1>5

(* The end of a backup: what it has copied is what is on disk.             *)
LEMMA RoundAnswer ==
  ASSUME BackupsInv, NEW t \in ApiTasks, Serial(t), Answer(t)
  PROVE  Midway(t)' /\ Back' /\ \A s \in Seconds : Faithful(s)'
  <1> DEFINE s0 == id[t]
             d == [there |-> TRUE, conf |-> disk.conf, users |-> disk.users]
  <1>0. /\ BackupsShapes /\ step \in [ApiTasks -> ApiSteps] /\ saved \in [Seconds -> Dir]
        /\ Midway(t)
    BY DEF BackupsInv, BackupsShapes, Serial
  <1>1. /\ step[t] = "answer" /\ step'[t] = "ok" /\ saved' = [saved EXCEPT ![s0] = d]
        /\ UNCHANGED <<id, disk, dirs, errors, restored>>
    BY <1>0 DEF Answer, Go, stored
  <1>2. s0 \in Seconds
    BY <1>0, <1>1 DEF BackupsShapes
  <1>3. d.conf = disk.conf /\ d.users = disk.users
    OBVIOUS
  <1> HIDE DEF d
  <1>4. saved'[s0] = d /\ \A s \in Seconds : s # s0 => saved'[s] = saved[s]
    BY <1>0, <1>1, <1>2
  <1>5. Midway(t)'
    BY <1>1 DEF Midway
  <1>6. Back'
    <2>1. CASE restored = s0
      <3>1. Agrees(restored, disk)'
        BY <1>1, <1>3, <1>4, <2>1 DEF Agrees
      <3> QED  BY <3>1 DEF Back
    <2>2. CASE restored # s0
      BY <1>0, <1>1, <1>4, <2>2, BackStays
    <2> QED  BY <2>1, <2>2
  <1>7. ASSUME NEW s \in Seconds PROVE Faithful(s)'
    <2>1. CASE s = s0
      <3>1. /\ dirs[s0].conf = disk.conf
            /\ errors = 0 /\ disk.users # Absent => dirs[s0].users = disk.users
        BY <1>0, <1>1 DEF Midway
      <3>2. Agrees(s, dirs[s])'
        BY <1>1, <1>3, <1>4, <2>1, <3>1 DEF Agrees
      <3> QED  BY <3>2 DEF Faithful
    <2>2. CASE s # s0
      <3>1. saved'[s] = saved[s] /\ dirs'[s] = dirs[s] /\ ~(Writing(t) /\ id[t] = s)
        BY <1>1, <1>4, <2>2
      <3> QED  BY <3>1, FaithfulStays
    <2> QED  BY <2>1, <2>2
  <1> QED  BY <1>5, <1>6, <1>7

(* A restore copies what the directory holds.                              *)
LEMMA RoundRestore ==
  ASSUME BackupsInv, NEW t \in ApiTasks, Serial(t),
         Find(t) \/ ConfBack(t) \/ UsersBack(t) \/ Reload(t)
  PROVE  Midway(t)' /\ Back' /\ \A s \in Seconds : Faithful(s)'
  <1>0. /\ BackupsShapes /\ step \in [ApiTasks -> ApiSteps] /\ id \in [ApiTasks -> Seconds \cup {Absent}]
        /\ disk \in [conf : Content, users : Content]
        /\ Midway(t) /\ errors \in Nat
    BY DEF BackupsInv, BackupsShapes, Serial
  <1>1. /\ step[t] \in {"restore", "conf_back", "users_back", "reload"}
        /\ dirs' = dirs /\ saved' = saved
    BY DEF Find, ConfBack, UsersBack, Reload, Go, Error, stored
  <1>2. ASSUME NEW s \in Seconds PROVE Faithful(s)'
    <2>1. ~Writing(t)
      BY <1>1 DEF Writing
    <2> QED  BY <1>1, <2>1, FaithfulStays
  <1>3. CASE Find(t)
    <2>1. PICK s \in Seconds :
            /\ id' = [id EXCEPT ![t] = s]
            /\ \/ dirs[s].conf # Absent /\ step'[t] = "conf_back"
               \/ step'[t] \in {"error", "not_found"}
      BY <1>0, <1>3 DEF Find, Go, Error
    <2>2. /\ disk' = IF step'[t] = "conf_back" THEN [disk EXCEPT !.conf = Partial] ELSE disk
          /\ restored' = IF step'[t] = "conf_back" THEN Absent ELSE restored
      BY <1>3 DEF Find
    <2>3. id'[t] = s
      BY <1>0, <2>1
    <2>4. Midway(t)'
      BY <1>1, <2>1, <2>2, <2>3 DEF Midway
    <2>5. CASE step'[t] = "conf_back"
      BY <1>2, <2>2, <2>4, <2>5 DEF Back
    <2>6. CASE step'[t] # "conf_back"
      <3>1. Back'
        BY <1>0, <1>1, <2>2, <2>6, BackStays
      <3> QED  BY <1>2, <2>4, <3>1
    <2> QED  BY <2>5, <2>6
  <1>4. CASE ConfBack(t)
    <2>1. /\ step[t] = "conf_back" /\ restored = Absent /\ dirs[id[t]].conf # Absent
          /\ id' = id /\ restored' = restored
      BY <1>0, <1>4 DEF ConfBack, Go, Error, Midway
    <2>2. \/ /\ step'[t] = IF dirs[id[t]].users = Absent THEN "reload" ELSE "users_back"
             /\ disk' = [disk EXCEPT !.conf = dirs[id[t]].conf]
          \/ step'[t] = "error"
      BY <1>0, <1>4, <2>1 DEF ConfBack, Go, Error
    <2>3. Midway(t)'
      BY <1>0, <1>1, <2>1, <2>2 DEF Midway
    <2> QED  BY <1>2, <2>1, <2>3 DEF Back
  <1>5. CASE UsersBack(t)
    <2>1. /\ step[t] = "users_back" /\ restored = Absent /\ dirs[id[t]].conf # Absent
          /\ dirs[id[t]].users # Absent /\ disk.conf = dirs[id[t]].conf
          /\ id' = id /\ restored' = restored /\ step'[t] = "reload"
      BY <1>0, <1>5 DEF UsersBack, Go, Error, Midway
    <2>2. disk'.conf = disk.conf
      BY <1>0, <1>5 DEF UsersBack
    <2>3. errors' = 0 => disk'.users = dirs[id[t]].users
      <3>1. \/ errors' = errors /\ disk' = [disk EXCEPT !.users = dirs[id[t]].users]
            \/ errors' = errors + 1
        BY <1>5, <2>1 DEF UsersBack, Error
      <3>2. errors + 1 # 0
        BY <1>0
      <3> QED  BY <1>0, <3>1, <3>2
    <2>4. Midway(t)'
      BY <1>1, <2>1, <2>2, <2>3 DEF Midway
    <2> QED  BY <1>2, <2>1, <2>4 DEF Back
  <1>6. CASE Reload(t)
    <2>1. /\ step[t] = "reload" /\ step'[t] = "ok" /\ restored' = id[t]
          /\ UNCHANGED <<id, disk, errors>>
      BY <1>0, <1>6 DEF Reload, Go, stored
    <2>2. /\ dirs[id[t]].conf # Absent /\ disk.conf = dirs[id[t]].conf
          /\ errors = 0 /\ dirs[id[t]].users # Absent => disk.users = dirs[id[t]].users
          /\ id[t] \in Seconds
      BY <1>0, <2>1 DEF Midway, BackupsShapes
    <2>3. Midway(t)'
      BY <2>1 DEF Midway
    <2>4. \A u \in ApiTasks : ~Writing(u)
      BY <2>1 DEF Serial, Writing, ApiEnded
    <2>5. saved[id[t]].there => Agrees(id[t], dirs[id[t]])
      BY <2>2, <2>4 DEF Serial, Faithful
    <2>6. Unfailed(id[t])' => Unfailed(id[t])
      <3>1. ASSUME NEW s, Unfailed(s)' PROVE Unfailed(s)
        BY <3>1, FailedStays
      <3> QED  BY <2>1, <3>1 DEF Unfailed
    <2>7. saved[id[t]].there => Agrees(restored, disk)'
      BY <1>1, <2>1, <2>2, <2>5, <2>6 DEF Agrees, Unfailed
    <2>8. Back'
      BY <1>1, <2>1, <2>7 DEF Back
    <2> QED  BY <1>2, <2>3, <2>8
  <1> QED  BY <1>3, <1>4, <1>5, <1>6

(* A change of the files forgets what was restored.                        *)
LEMMA RoundChange ==
  ASSUME BackupsInv, NEW t \in ApiTasks, Serial(t), ChangeUsers(t) \/ Persist(t) \/ Edit(t)
  PROVE  Midway(t)' /\ Back' /\ \A s \in Seconds : Faithful(s)'
  <1>0. step \in [ApiTasks -> ApiSteps] /\ Midway(t)
    BY DEF BackupsInv, BackupsShapes, Serial
  <1>1. /\ step[t] \in {"user", "persist", "edit"} /\ step'[t] \in {"persist", "ok"}
        /\ dirs' = dirs /\ saved' = saved
    BY <1>0 DEF ChangeUsers, Persist, Edit, Go
  <1>2. restored' = Absent
    BY <1>0 DEF ChangeUsers, Persist, Edit, Go, Midway
  <1>3. ASSUME NEW s \in Seconds PROVE Faithful(s)'
    <2>1. ~Writing(t)
      BY <1>1 DEF Writing
    <2> QED  BY <1>1, <2>1, FaithfulStays
  <1>4. Midway(t)' /\ Back'
    BY <1>1, <1>2 DEF Midway, Back
  <1> QED  BY <1>3, <1>4

(* The invariant of the round trip is inductive.                           *)
LEMMA RoundInvStep ==
  ASSUME BackupsInv, RoundInv, [BackupsNext]_apiVars
  PROVE  RoundInv'
  <1>1. ASSUME NEW t \in ApiTasks, ApiStep(t), ~overlap' PROVE RoundInv'
    <2>1. /\ Serial(t)
          /\ \A u, v \in ApiTasks : Pending(u)' /\ Pending(v)' => u = v
          /\ \A u \in ApiTasks : u # t => Midway(u)'
      BY <1>1, SerialStep
    <2>2. Midway(t)' /\ Back' /\ \A s \in Seconds : Faithful(s)'
      BY <1>1, <2>1, RoundDirs, RoundCopy, RoundAnswer, RoundRestore, RoundChange DEF ApiStep
    <2> QED  BY <2>1, <2>2 DEF RoundInv
  <1>2. CASE Tick \/ UNCHANGED apiVars
    <2>1. UNCHANGED <<step, id, disk, dirs, errors, saved, overlap, restored>>
      BY <1>2 DEF Tick, apiVars, stored
    <2>2. /\ \A t \in ApiTasks : (Midway(t)' <=> Midway(t)) /\ (Pending(t)' <=> Pending(t))
          /\ \A s \in Seconds : Faithful(s)' <=> Faithful(s)
          /\ Back' <=> Back
      BY <2>1 DEF Midway, Pending, Faithful, Writing, Agrees, Unfailed, Back
    <2> QED  BY <2>1, <2>2 DEF RoundInv
  <1> QED  BY <1>1, <1>2, BackupCases DEF RoundInv

-----------------------------------------------------------------------------
(* The backups from the start                                              *)

(* What is proved of the backups holds before the first request.           *)
LEMMA BackupsStart ==
  ASSUME NEW tasks \in SUBSET ApiTasks, BackupsInit(tasks)
  PROVE  BackupsInv /\ RateInv /\ RoundInv
  <1>0. /\ MaxClock \in Nat /\ MaxErrors \in Nat /\ Limit \in Nat \ {0} /\ 0 \in Seconds
        /\ NoDir \in Dir /\ 0 \in Content /\ Absent \in Content
    BY BackupsAssumption, Contents DEF NoDir, Dir, Seconds
  <1>1. BackupsShapes
    <2>1. step \in [ApiTasks -> ApiSteps] /\ \A t \in ApiTasks : step[t] = "new"
      BY DEF BackupsInit, ApiSteps
    <2>2. disk \in [conf : Content, users : Content] /\ registry \in Content
      BY <1>0 DEF BackupsInit
    <2>3. window \in [second : Seconds \cup {Absent}, count : Nat]
      BY DEF BackupsInit
    <2>4. /\ id \in [ApiTasks -> Seconds \cup {Absent}]
          /\ granted \in [Seconds -> Nat]
      BY DEF BackupsInit
    <2>5. /\ dirs \in [Seconds -> Dir] /\ saved \in [Seconds -> Dir]
          /\ \A s \in Seconds : dirs[s] = NoDir
      BY <1>0 DEF BackupsInit
    <2>6. /\ ahead \subseteq ApiTasks /\ clock \in Seconds /\ changes \in Nat
          /\ late \in BOOLEAN /\ overlap \in BOOLEAN
          /\ restored \in Seconds \cup {Absent}
      BY <1>0 DEF BackupsInit
    <2>7. errors \in 0..MaxErrors
      BY <1>0 DEF BackupsInit
    <2> QED  BY <2>1, <2>2, <2>3, <2>4, <2>5, <2>6, <2>7 DEF BackupsShapes
  <1>2. Counted
    <2>1. Undone \in SUBSET ApiTasks /\ IsFiniteSet(ApiTasks)
      BY Contents DEF Undone
    <2>2. Cardinality(Undone) <= Cardinality(ApiTasks) /\ IsFiniteSet(Undone)
      BY <2>1, FS_Subset
    <2>3. changes = 0
      BY DEF BackupsInit
    <2> QED  BY <2>2, <2>3, FS_CardinalityType DEF Counted
  <1>3. \A t \in ApiTasks : Kinds(t)
    BY DEF BackupsInit, Kinds, BackupSteps, RestoreSteps
  <1>4. RateInv
    BY <1>0 DEF BackupsInit, RateInv, Seconds, Absent
  <1>5. RoundInv
    BY DEF BackupsInit, RoundInv, Midway, Pending, Faithful, Back, NoDir
  <1> QED  BY <1>1, <1>2, <1>3, <1>4, <1>5 DEF BackupsInv

(* Steps of the sites leave the backups alone.                             *)
LEMMA BackupsHold == Spec => [](BackupsInv /\ RateInv /\ RoundInv)
  <1>1. Init => BackupsInv /\ RateInv /\ RoundInv
    <2> SUFFICES ASSUME Init PROVE BackupsInv /\ RateInv /\ RoundInv
      OBVIOUS
    <2>1. PICK load \in Loads : BackupsInit(load[2])
      BY DEF Init
    <2>2. load[2] \in SUBSET ApiTasks
      BY <2>1, ManagementAssumption
    <2> QED  BY <2>1, <2>2, BackupsStart
  <1>2. (BackupsInv /\ RateInv /\ RoundInv) /\ [Next]_vars => (BackupsInv /\ RateInv /\ RoundInv)'
    <2>1. [Next]_vars => [BackupsNext]_apiVars
      BY DEF Next, vars
    <2> QED  BY <2>1, BackupsInvStep, RateStep, RoundInvStep
  <1> QED  BY <1>1, <1>2, PTL DEF Spec

(* No address is granted more than its limit in a second, while nobody is  *)
(* held up between reading the clock and locking the window.               *)
THEOREM RateKeptHolds == Spec => []RateKept
  <1>1. RateInv => RateKept
    BY DEF RateInv, RateKept
  <1> QED  BY <1>1, BackupsHold, PTL

(* A restore brings back what was saved, after any number of backups,      *)
(* restores, deletions and changes that do not overlap.                    *)
THEOREM RoundTripHolds == Spec => []RoundTrip
  <1>1. RoundInv => RoundTrip
    BY DEF RoundInv, Back, Agrees, Unfailed, RoundTrip
  <1> QED  BY <1>1, BackupsHold, PTL

(* The types of the management; a directory that is gone holds no files.   *)
THEOREM TypeOKHolds == Spec => []TypeOK
  <1>1. BackupsInv => BackupsTypeOK
    <2> SUFFICES ASSUME BackupsInv PROVE BackupsTypeOK
      OBVIOUS
    <2>0. BackupsShapes /\ Counted
      BY DEF BackupsInv
    <2>1. changes \in Content
      <3>1. Undone \in SUBSET ApiTasks /\ IsFiniteSet(ApiTasks) /\ Cardinality(ApiTasks) \in Nat
        BY Contents DEF Undone
      <3>2. Cardinality(Undone) \in Nat
        BY <3>1, FS_Subset, FS_CardinalityType
      <3>3. changes \in Nat
        BY <2>0 DEF BackupsShapes
      <3>4. changes <= Cardinality(ApiTasks)
        BY <2>0, <3>1, <3>2, <3>3 DEF Counted
      <3> QED  BY <3>3, <3>4, Contents
    <2> QED  BY <2>0, <2>1 DEF BackupsShapes, BackupsTypeOK
  <1>2. TlsInv => SitesTypeOK
    BY SitesTypes DEF TlsInv
  <1> QED  BY <1>1, <1>2, SitesHold, BackupsHold, PTL DEF TypeOK
=============================================================================
