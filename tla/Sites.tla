------------------------------- MODULE Sites -------------------------------
(***************************************************************************)
(* The files of one site (src/src/api/sites.rs): requests that create or   *)
(* delete it run at once, without a lock, each as a sequence of file       *)
(* system operations and commands of which any may fail.                   *)
(***************************************************************************)
EXTENDS Integers, FiniteSets, Sequences, SequencesExt

CONSTANTS
  SiteTasks,   \* requests to create or delete the site
  Request,     \* Request[t]: what t asks for
  MaxFaults    \* bound: how many operations fail

Types == {"static", "php", "wordpress", "proxy"}

Requests ==
  [op : {"create"}, type : Types, ssl : {"none", "letsencrypt", "custom"},
   pem : SUBSET {"cert", "key"}, db : {"none", "valid", "invalid"}]
  \cup [op : {"delete"}, delete_files : BOOLEAN]

ASSUME SitesAssumption ==
  /\ IsFiniteSet(SiteTasks)
  /\ Request \in [SiteTasks -> Requests]
  /\ MaxFaults \in Nat

VARIABLES
  todo,     \* requests that have not arrived yet
  at,       \* at[t]: the step request t is at, or how it ended
  buffer,   \* buffer[t]: the configuration t has read
  conf,     \* sites-enabled/<domain>.conf: {} or {its blocks}
  meta,     \* sites/<domain>: "none", "dir" without meta.json, "torn" with
            \* one that does not parse, or the type in it
  webroot,  \* what is in /var/www/<domain>/public: {} or {its files}
  pem,      \* the certificates there are: files in ssl/<domain>, certbot's pair
  tarball,  \* /tmp/wordpress-latest.tar.gz: "none" | "part" | "whole"
  unpacked, \* whether wp_extract_tmp holds WordPress
  faults,   \* operations that have failed
  last,     \* the request answered last (history)
  clean,    \* clean[t]: t met no failure and no other request (history)
  fetched   \* no download has failed (history)

files == <<conf, meta, webroot, pem, tarball, unpacked>>
siteVars == <<todo, at, buffer, files, faults, last, clean, fetched>>

NoTask == "none"

SitesInit(tasks) ==
  /\ todo = tasks
  /\ at = [t \in SiteTasks |-> "new"]
  /\ buffer = [t \in SiteTasks |-> <<>>]
  /\ conf = {}
  /\ meta = "none"
  /\ webroot = {}
  /\ pem = {}
  /\ tarball = "none"
  /\ unpacked = FALSE
  /\ faults = 0
  /\ last = NoTask
  /\ clean = [t \in SiteTasks |-> TRUE]
  /\ fetched = TRUE

SiteEnded == {"ok", "error"}
Working(t) == at[t] \notin SiteEnded \cup {"new"}

(* t goes from one step to the next.                                       *)
Step(t, from, to) ==
  /\ at[t] = from
  /\ at' = [at EXCEPT ![t] = to]
  /\ last' = IF to \in SiteEnded THEN t ELSE last

Fine == UNCHANGED <<faults, clean>>

Fault(t) ==
  /\ faults < MaxFaults
  /\ faults' = faults + 1
  /\ clean' = [clean EXCEPT ![t] = FALSE]

(* A step whose failure ends the request, and one whose failure is ignored.*)
Fails(t, from) == Fault(t) /\ Step(t, from, "error")
Ignored(t, from, to) == Fault(t) /\ Step(t, from, to)

Arrive(t) ==
  /\ t \in todo
  /\ todo' = todo \ {t}
  /\ Step(t, "new", IF Request[t].op = "create" THEN "meta_dir" ELSE "rm_conf")
  /\ clean' = [u \in SiteTasks |->
       clean[u] /\ ~(\E v \in SiteTasks : Working(v) /\ (u = t \/ u = v))]
  /\ UNCHANGED <<buffer, files, faults, fetched>>

-----------------------------------------------------------------------------
(* create_site                                                             *)

MetaDir(t) ==
  /\ \/ Step(t, "meta_dir", "webroot") /\ Fine /\ meta' = IF meta = "none" THEN "dir" ELSE meta
     \/ Fails(t, "meta_dir") /\ UNCHANGED meta
  /\ UNCHANGED <<todo, buffer, conf, webroot, pem, tarball, unpacked, fetched>>

(* The steps of setup by type: setup_static, setup_php, setup_wordpress.   *)
FirstSetup(type) ==
  CASE type \in {"static", "php"} -> "index"
    [] type = "wordpress" -> IF tarball = "none" THEN "wget" ELSE "untar"
    [] type = "proxy" -> "open_conf"

Webroot(t) ==
  /\ \/ /\ Step(t, "webroot", FirstSetup(Request[t].type))
        /\ Fine
        /\ webroot' = IF webroot = {} THEN {{}} ELSE webroot
     \/ Fails(t, "webroot") /\ UNCHANGED webroot
  /\ UNCHANGED <<todo, buffer, conf, meta, pem, tarball, unpacked, fetched>>

(* What webroot is with one more file; no file is added when a deletion    *)
(* has removed it meanwhile.                                               *)
With(file) == {fs \cup {file} : fs \in webroot}

Index(t) ==
  /\ \/ Step(t, "index", IF webroot = {} THEN "error" ELSE "open_conf") /\ Fine /\ webroot' = With("index")
     \/ Fails(t, "index") /\ UNCHANGED webroot
  /\ UNCHANGED <<todo, buffer, conf, meta, pem, tarball, unpacked, fetched>>

(* wget opens the file it writes to, and then fetches; whatever it got     *)
(* stays there when it fails.                                              *)
WgetStarts(t) ==
  /\ Step(t, "wget", "fetch")
  /\ tarball' = "part"
  /\ UNCHANGED <<todo, buffer, conf, meta, webroot, pem, unpacked, faults, clean, fetched>>

WgetEnds(t) ==
  /\ \/ Step(t, "fetch", "untar") /\ Fine /\ tarball' = "whole" /\ UNCHANGED fetched
     \/ Fails(t, "fetch") /\ UNCHANGED tarball /\ fetched' = FALSE
  /\ UNCHANGED <<todo, buffer, conf, meta, webroot, pem, unpacked>>

(* The exit status of tar and cp is not looked at.                         *)
Untar(t) ==
  /\ \/ Step(t, "untar", "copy") /\ Fine /\ unpacked' = (tarball = "whole")
     \/ Fails(t, "untar") /\ unpacked' = FALSE
  /\ UNCHANGED <<todo, buffer, conf, meta, webroot, pem, tarball, fetched>>

CopyFiles(t) ==
  /\ \/ Step(t, "copy", "db") /\ Fine /\ webroot' = IF unpacked THEN With("wp") ELSE webroot
     \/ Ignored(t, "copy", "db") /\ UNCHANGED webroot
  /\ unpacked' = FALSE
  /\ UNCHANGED <<todo, buffer, conf, meta, pem, tarball, fetched>>

(* The identifiers are checked when the files are already in place;        *)
(* wp-config.php is written once, from the sample in the files.            *)
Database(t) ==
  LET writes == Request[t].db = "valid" /\ \E fs \in webroot : "wp" \in fs IN
  /\ \/ Request[t].db = "invalid" /\ Step(t, "db", "error") /\ Fine /\ UNCHANGED webroot
     \/ /\ Request[t].db # "invalid"
        /\ Step(t, "db", "open_conf")
        /\ Fine
        /\ webroot' = IF writes THEN With("wp-config") ELSE webroot
     \/ Request[t].db = "valid" /\ Fails(t, "db") /\ UNCHANGED webroot
  /\ UNCHANGED <<todo, buffer, conf, meta, pem, tarball, unpacked, fetched>>

(* generate_config: the site, and for a site with TLS a redirect.          *)
Blocks(t) ==
  IF Request[t].ssl = "none" THEN <<Request[t].type>> ELSE <<Request[t].type, "redirect">>

(* std::fs::write empties the file first.                                  *)
OpenConf(t) ==
  /\ \/ Step(t, "open_conf", "conf") /\ Fine /\ conf' = {<<>>}
     \/ Fails(t, "open_conf") /\ UNCHANGED conf
  /\ UNCHANGED <<todo, buffer, meta, webroot, pem, tarball, unpacked, fetched>>

(* What is written goes nowhere when the file has been removed meanwhile,  *)
(* and mixes with what another request has written meanwhile.              *)
WriteConf(t) ==
  /\ \/ /\ Step(t, "conf", IF Request[t].ssl = "none" THEN "meta" ELSE Request[t].ssl)
        /\ Fine
        /\ conf' \in CASE conf = {} -> {conf}
                       [] conf = {<<>>} -> {{Blocks(t)}}
                       [] OTHER -> {{Blocks(t)}, {<<"mixed">>}}
     \/ Fails(t, "conf") /\ UNCHANGED conf
  /\ UNCHANGED <<todo, buffer, meta, webroot, pem, tarball, unpacked, fetched>>

-----------------------------------------------------------------------------
(* configure_ssl: a failure leaves the site as it is, without TLS          *)

LetsEncrypt(t) ==
  /\ \/ Step(t, "letsencrypt", "append") /\ Fine /\ pem' = pem \cup {"certbot"}
     \/ Ignored(t, "letsencrypt", "meta") /\ UNCHANGED pem
  /\ UNCHANGED <<todo, buffer, conf, meta, webroot, tarball, unpacked, fetched>>

(* Mutant of CustomCert: a TLS block needs a certificate only.             *)
CustomCert_WithoutKey(t) ==
  /\ \/ /\ Fine
        /\ pem' = pem \cup Request[t].pem
        /\ Step(t, "custom", IF "cert" \in pem' THEN "append" ELSE "meta")
     \/ /\ \E written \in SUBSET Request[t].pem : pem' = pem \cup written
        /\ Ignored(t, "custom", "meta")
  /\ UNCHANGED <<todo, buffer, conf, meta, webroot, tarball, unpacked, fetched>>

(* configure_custom_cert, also for Cloudflare: each file that is given is  *)
(* written, and the block is added when both exist, maybe from before.     *)
CustomCert(t) ==
  /\ \/ /\ Fine
        /\ pem' = pem \cup Request[t].pem
        /\ Step(t, "custom", IF {"cert", "key"} \subseteq pem' THEN "append" ELSE "meta")
     \/ /\ \E written \in {{}, Request[t].pem \cap {"cert"}} : pem' = pem \cup written
        /\ Ignored(t, "custom", "meta")
  /\ UNCHANGED <<todo, buffer, conf, meta, webroot, tarball, unpacked, fetched>>

Tls(t) == IF Request[t].ssl = "custom" THEN "tls" ELSE "tls-certbot"

(* append_tls_block reads the file, nothing if there is none ...           *)
ReadConf(t) ==
  /\ Step(t, "append", "rewrite")
  /\ buffer' = [buffer EXCEPT ![t] = IF conf = {} THEN <<>> ELSE CHOOSE b \in conf : TRUE]
  /\ UNCHANGED <<todo, files, faults, clean, fetched>>

(* ... and writes it back with the block at its end.                       *)
RewriteConf(t) ==
  /\ \/ Step(t, "rewrite", "meta") /\ Fine /\ conf' = {Append(buffer[t], Tls(t))}
     \/ Ignored(t, "rewrite", "meta") /\ conf' \in {conf, {<<>>}}
  /\ UNCHANGED <<todo, buffer, meta, webroot, pem, tarball, unpacked, fetched>>

(* meta.json is written last, whatever becomes of it: a write that fails   *)
(* may have emptied or cut what was there.                                 *)
WriteMeta(t) ==
  /\ \/ Step(t, "meta", "ok") /\ Fine /\ meta' = IF meta = "none" THEN meta ELSE Request[t].type
     \/ Ignored(t, "meta", "ok") /\ meta' \in {meta, IF meta = "none" THEN meta ELSE "torn"}
  /\ UNCHANGED <<todo, buffer, conf, webroot, pem, tarball, unpacked, fetched>>

-----------------------------------------------------------------------------
(* delete_site: every error is ignored, and the answer is ok               *)

RemoveConf(t) ==
  /\ \/ Step(t, "rm_conf", "rm_meta") /\ Fine /\ conf' = {}
     \/ Ignored(t, "rm_conf", "rm_meta") /\ UNCHANGED conf
  /\ UNCHANGED <<todo, buffer, meta, webroot, pem, tarball, unpacked, fetched>>

(* Mutant of RemoveMeta: only the file is removed.                         *)
RemoveMeta_KeepsDir(t) ==
  /\ Step(t, "rm_meta", IF Request[t].delete_files THEN "rm_webroot" ELSE "ok")
  /\ Fine
  /\ meta' = IF meta = "none" THEN meta ELSE "dir"
  /\ UNCHANGED <<todo, buffer, conf, webroot, pem, tarball, unpacked, fetched>>

RemoveMeta(t) ==
  LET next == IF Request[t].delete_files THEN "rm_webroot" ELSE "ok" IN
  /\ \/ Step(t, "rm_meta", next) /\ Fine /\ meta' = "none"
     \/ Ignored(t, "rm_meta", next) /\ UNCHANGED meta
  /\ UNCHANGED <<todo, buffer, conf, webroot, pem, tarball, unpacked, fetched>>

RemoveWebroot(t) ==
  /\ \/ Step(t, "rm_webroot", "ok") /\ Fine /\ webroot' = {} /\ unpacked' = FALSE
     \/ Ignored(t, "rm_webroot", "ok") /\ UNCHANGED <<webroot, unpacked>>
  /\ UNCHANGED <<todo, buffer, conf, meta, pem, tarball, fetched>>

CreateStep(t) ==
  \/ MetaDir(t) \/ Webroot(t) \/ Index(t)
  \/ WgetStarts(t) \/ WgetEnds(t) \/ Untar(t) \/ CopyFiles(t) \/ Database(t)
  \/ OpenConf(t) \/ WriteConf(t)
  \/ LetsEncrypt(t) \/ CustomCert(t) \/ ReadConf(t) \/ RewriteConf(t)
  \/ WriteMeta(t)

DeleteStep(t) == RemoveConf(t) \/ RemoveMeta(t) \/ RemoveWebroot(t)

SitesNext ==
  \/ \E t \in SiteTasks : Arrive(t)
  \/ \E t \in {u \in SiteTasks : Request[u].op = "create"} : CreateStep(t)
  \/ \E t \in {u \in SiteTasks : Request[u].op = "delete"} : DeleteStep(t)

-----------------------------------------------------------------------------
(* Properties                                                              *)

Block == Types \cup {"redirect", "tls", "tls-certbot", "mixed"}
AtMostOne(S) == {{}} \cup {{x} : x \in S}

SitesTypeOK ==
  /\ todo \subseteq SiteTasks
  /\ DOMAIN at = SiteTasks
  /\ \A t \in SiteTasks : buffer[t] \in Seq(Block)
  /\ Cardinality(conf) <= 1 /\ \A b \in conf : b \in Seq(Block)
  /\ meta \in {"none", "dir", "torn"} \cup Types
  /\ webroot \in AtMostOne(SUBSET {"index", "wp", "wp-config"})
  /\ pem \subseteq {"cert", "key", "certbot"}
  /\ tarball \in {"none", "part", "whole"}
  /\ {unpacked, fetched} \subseteq BOOLEAN
  /\ faults \in 0..MaxFaults
  /\ last \in SiteTasks \cup {NoTask}
  /\ clean \in [SiteTasks -> BOOLEAN]

(* list_sites: the site is shown when its configuration exists, with the   *)
(* type in meta.json.                                                      *)
Listed ==
  IF conf = {} THEN "none" ELSE IF meta \in Types THEN meta ELSE "unknown"

(* What the answer to the request that came last says is so, when that     *)
(* request itself met no failure and no other one, however those before it *)
(* ended and whatever they left behind: a created site is listed with its  *)
(* type, its configuration is whole and its files are there, those of      *)
(* WordPress unless a download has failed before; a deleted one is gone.   *)
SiteIsAsAnswered ==
  last # NoTask /\ (\A t \in SiteTasks : ~Working(t)) =>
    LET req == Request[last] IN
    clean[last] /\ at[last] = "ok" =>
      IF req.op = "create"
      THEN /\ Listed = req.type
           /\ \E b \in conf : IsPrefix(Blocks(last), b)
           /\ \E fs \in webroot :
                CASE req.type \in {"static", "php"} -> "index" \in fs
                  [] req.type = "wordpress" -> fetched => "wp" \in fs
                  [] OTHER -> TRUE
      ELSE /\ Listed = "none" /\ meta = "none"
           /\ req.delete_files => webroot = {}

(* A TLS block is only ever in a configuration when its two files exist,   *)
(* with creations and deletions of the site under way in any overlap:      *)
(* without them Listener::run fails, and nobody listens on that address.   *)
TlsHasCertificate ==
  \A b \in conf :
    /\ Contains(b, "tls") => {"cert", "key"} \subseteq pem
    /\ Contains(b, "tls-certbot") => "certbot" \in pem
=============================================================================
