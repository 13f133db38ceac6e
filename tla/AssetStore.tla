------------------------------- MODULE AssetStore -------------------------------
(***************************************************************************)
(* internal/crawler assets.go, crawl_asset.go, js_deps.go and the font and *)
(* style part of capture.go, with internal/storage SaveFile: each          *)
(* goroutine saves one fetched body under its URL's path, or, when its     *)
(* hash is known, maps the URL to the file saved before.  The hash filter, *)
(* the hash cache, the files and the rewriter's mappings have a lock each  *)
(* and none is held from one to the next.                                  *)
(***************************************************************************)
EXTENDS Naturals, Sequences, SequencesExt

CONSTANTS
  Asset,         \* asset URLs
  Body,          \* contents, told apart by their hash
  BodyOf,        \* what each URL answers with
  PathOf,        \* storage.PathForURL: two URLs may share a path
  Collides,      \* hashes the content filter takes for seen
  Script,        \* assets that are scripts, or that one names
  MaxAgain,      \* bound: how often a script that was saved is fetched again
  MaxHashes,     \* capacity of the content hash cache
  NoFile         \* no path, the cache's placeholder, an absent file

ASSUME StoreAssumption == NoFile \notin {PathOf[u] : u \in Asset} /\ MaxHashes \in Nat

VARIABLES
  apc,           \* a URL: "new", "save", "filter", "cache", "map", "alias", "resave",
                 \* "direct", "directcache", "font", "done", "skipped"
  file,          \* path -> content
  mapping,       \* rewriter.mappings: URL -> path
  hashFilter,    \* contentHashBloom, without its false positives
  hashCache,     \* contentHashes: <<content, path>>, most recent first
  urlFilter,     \* bloomFilter, as far as fonts and styles enter it
  again,         \* how often scripts have led to a URL that was done
  evicted,       \* history: contents the cache has evicted
  unsaved,       \* history: contents of which a SaveFile failed
  between        \* history: contents found in the filter and not yet in the cache

savars == <<apc, file, mapping, hashFilter, hashCache, urlFilter, again, evicted, unsaved, between>>

StoreInit ==
  /\ apc = [u \in Asset |-> "new"] /\ file = [p \in {PathOf[u] : u \in Asset} |-> NoFile]
  /\ mapping = [u \in Asset |-> NoFile] /\ hashFilter = {} /\ hashCache = <<>>
  /\ urlFilter = {} /\ again = [u \in Asset |-> 0] /\ evicted = {} /\ unsaved = {} /\ between = {}

StepTo(u, from, to) == apc[u] = from /\ apc' = [apc EXCEPT ![u] = to]

(* LRUCache.Put and PutIfAbsent of an absent hash: in front, the last one out. *)
HashAt(b) == {i \in DOMAIN hashCache : hashCache[i][1] = b}
Others(b) == IF HashAt(b) = {} THEN hashCache ELSE RemoveAt(hashCache, CHOOSE i \in HashAt(b) : TRUE)

PutHash(b, p) ==
  LET new == <<<<b, p>>>> \o Others(b)
      kept == SubSeq(new, 1, IF Len(new) > MaxHashes THEN MaxHashes ELSE Len(new))
  IN /\ hashCache' = kept
     /\ evicted' = evicted \cup {e[1] : e \in ToSet(new) \ ToSet(kept)}

MapTo(u, p) == mapping' = [mapping EXCEPT ![u] = p]

(* SaveFile: the body overwrites what the path held; or the disk refuses.    *)
Write(u, from, to) ==
  \/ StepTo(u, from, to) /\ file' = [file EXCEPT ![PathOf[u]] = BodyOf[u]] /\ UNCHANGED unsaved
  \/ StepTo(u, from, "done") /\ unsaved' = unsaved \cup {BodyOf[u]} /\ UNCHANGED file

-----------------------------------------------------------------------------
(* saveCapturedResource, of a body the interceptor, a tag of the page or a   *)
(* script led to: is its hash in the filter?                                 *)
(* Fault: the filter takes the hash when it is asked. *)
HashSeen_Adds(u) ==
  /\ StepTo(u, "new", IF BodyOf[u] \in hashFilter \cup Collides THEN "alias" ELSE "save")
  /\ hashFilter' = hashFilter \cup {BodyOf[u]}
  /\ UNCHANGED <<file, mapping, hashCache, urlFilter, again, evicted, unsaved, between>>

HashSeen(u) ==
  /\ StepTo(u, "new", IF BodyOf[u] \in hashFilter \cup Collides THEN "alias" ELSE "save")
  /\ UNCHANGED <<file, mapping, hashFilter, hashCache, urlFilter, again, evicted, unsaved, between>>

(* A script that was saved is followed: what it names and the URL filter     *)
(* does not know (which no script enters) is fetched, the script itself once *)
(* more, and what is named again, four scripts deep, as often as it is named.*)
ByScript(u) == u \in Script /\ u \notin urlFilter /\ HashSeen(u)

ByScriptAgain(u) ==
  /\ u \in Script /\ u \notin urlFilter /\ again[u] < MaxAgain /\ again' = [again EXCEPT ![u] = @ + 1]
  /\ StepTo(u, "done", IF BodyOf[u] \in hashFilter \cup Collides THEN "alias" ELSE "save")
  /\ UNCHANGED <<file, mapping, hashFilter, hashCache, urlFilter, evicted, unsaved, between>>

SaveNew(u) ==
  /\ Write(u, "save", "filter") /\ UNCHANGED <<mapping, hashFilter, hashCache, urlFilter, again, evicted, between>>

AddHash(u) ==
  /\ StepTo(u, "filter", "cache") /\ hashFilter' = hashFilter \cup {BodyOf[u]}
  /\ UNCHANGED <<file, mapping, hashCache, urlFilter, again, evicted, unsaved, between>>

CachePath(u) ==
  /\ StepTo(u, "cache", "map") /\ PutHash(BodyOf[u], PathOf[u])
  /\ UNCHANGED <<file, mapping, hashFilter, urlFilter, again, unsaved, between>>

MapOwn(u) ==
  /\ StepTo(u, "map", "done") /\ MapTo(u, PathOf[u])
  /\ UNCHANGED <<file, hashFilter, hashCache, urlFilter, again, evicted, unsaved, between>>

(* PutIfAbsent finds the path of an equal body, to which the URL is mapped;  *)
(* a placeholder, in which case it is not mapped at all; or nothing, and     *)
(* leaves a placeholder while it saves.                                      *)
Alias(u) ==
  /\ \/ \E i \in DOMAIN hashCache :
          /\ hashCache[i][1] = BodyOf[u] /\ PutHash(BodyOf[u], hashCache[i][2])
          /\ StepTo(u, "alias", "done") /\ UNCHANGED between
          /\ IF hashCache[i][2] # NoFile THEN MapTo(u, hashCache[i][2]) ELSE UNCHANGED mapping
     \/ /\ \A i \in DOMAIN hashCache : hashCache[i][1] # BodyOf[u]
        /\ PutHash(BodyOf[u], NoFile) /\ StepTo(u, "alias", "resave") /\ UNCHANGED mapping
        /\ between' = IF \E v \in Asset : apc[v] = "cache" /\ BodyOf[v] = BodyOf[u]
                       THEN between \cup {BodyOf[u]} ELSE between
  /\ UNCHANGED <<file, hashFilter, urlFilter, again, unsaved>>

SaveAgain(u) ==
  /\ Write(u, "resave", "cache") /\ UNCHANGED <<mapping, hashFilter, hashCache, urlFilter, again, evicted, between>>

-----------------------------------------------------------------------------
(* crawlAsset, of a link to an asset: unless its path has a file already, it *)
(* is saved and mapped, and its hash cached; the filter is not told.         *)
CrawlAsset(u) ==
  /\ StepTo(u, "new", IF file[PathOf[u]] = NoFile THEN "direct" ELSE "skipped")
  /\ UNCHANGED <<file, mapping, hashFilter, hashCache, urlFilter, again, evicted, unsaved, between>>

SaveDirect(u) ==
  /\ Write(u, "direct", "directcache")
  /\ IF apc'[u] = "directcache" THEN MapTo(u, PathOf[u]) ELSE UNCHANGED mapping
  /\ UNCHANGED <<hashFilter, hashCache, urlFilter, again, evicted, between>>

CacheDirect(u) ==
  /\ StepTo(u, "directcache", "done") /\ PutHash(BodyOf[u], PathOf[u])
  /\ UNCHANGED <<file, mapping, hashFilter, urlFilter, again, unsaved, between>>

(* A font or style a style sheet names enters the URL filter before it is    *)
(* fetched, and is saved and mapped without a word to the hashes.            *)
FontSeen(u) ==
  /\ u \notin urlFilter /\ urlFilter' = urlFilter \cup {u} /\ StepTo(u, "new", "font")
  /\ UNCHANGED <<file, mapping, hashFilter, hashCache, again, evicted, unsaved, between>>

(* So is what the markup in a script names, of which the filter is not told. *)
InScriptMarkup(u) ==
  /\ StepTo(u, "new", "font")
  /\ UNCHANGED <<file, mapping, hashFilter, hashCache, urlFilter, again, evicted, unsaved, between>>

SaveFont(u) ==
  /\ Write(u, "font", "map") /\ UNCHANGED <<mapping, hashFilter, hashCache, urlFilter, again, evicted, between>>

(* The request fails, or the URL is in the filter, out of scope or known. *)
NotFetched(u) ==
  /\ \/ StepTo(u, "font", "skipped")
     \/ StepTo(u, "direct", "skipped")
     \/ StepTo(u, "new", "skipped")
  /\ UNCHANGED <<file, mapping, hashFilter, hashCache, urlFilter, again, evicted, unsaved, between>>

StoreNext ==
  \E u \in Asset :
    \/ HashSeen(u) \/ ByScript(u) \/ ByScriptAgain(u) \/ SaveNew(u) \/ AddHash(u) \/ CachePath(u) \/ MapOwn(u) \/ Alias(u)
    \/ SaveAgain(u) \/ CrawlAsset(u) \/ SaveDirect(u) \/ CacheDirect(u) \/ FontSeen(u)
    \/ InScriptMarkup(u) \/ SaveFont(u) \/ NotFetched(u)

-----------------------------------------------------------------------------
(* A body that was fetched is on disk under the path its URL is mapped to,   *)
(* its own or that of an equal body, whoever saved the same body meanwhile.  *)
(* What can come between: a placeholder in the cache, because it had evicted *)
(* the hash, the filter took another for it, or a goroutine was between its  *)
(* entering the filter and the cache; a SaveFile of the body that failed; or *)
(* another URL with the same path.                                           *)
StoredAndMapped ==
  \A u \in Asset : apc[u] = "done" =>
    \/ mapping[u] # NoFile /\ file[mapping[u]] = BodyOf[u]
    \/ BodyOf[u] \in evicted \cup unsaved \cup Collides \cup between
    \/ \E v, w \in Asset : v # w /\ PathOf[v] = PathOf[w] /\ BodyOf[v] # BodyOf[w]
                           /\ BodyOf[u] \in {BodyOf[v], BodyOf[w]}
=============================================================================
