------------------------------ MODULE OfflineTree ------------------------------
(***************************************************************************)
(* The passes over a finished clone: internal/repair downloads what its    *)
(* pages miss, internal/localize copies it and makes the copy's references *)
(* relative, and localize.Dedup exports one page for each document.  Repair *)
(* and Run are each begun on a clone as the crawl left it.                 *)
(***************************************************************************)
EXTENDS Naturals, FiniteSets, Functions

CONSTANTS
  PageFile, Sheet, Media,  \* URLs of pages, style sheets and the rest, each with its own file
  IndexPage,               \* pages saved as index.html, which repair scans
  Refs,                    \* what each page and sheet refers to
  Extends,                 \* <<u, v>>: the text of u begins with that of v
  ByQuery,                 \* URLs with a query, which their file's path does not give back
  DocOf, WeightOf,         \* canonicalKey and cleanWeight of each page
  NoisePage,               \* isNoisePath
  PathOrder                \* rank of each file's path

Saved == PageFile \cup Sheet \cup Media
TextFile == PageFile \cup Sheet
Reference == {r \in TextFile \X Saved : r[2] \in Refs[r[1]]}

ASSUME OfflineAssumption ==
  /\ {"absolute", "relative", "broken"} \cap Saved = {}
  /\ WeightOf \in [PageFile -> Nat]

VARIABLES
  pass,          \* "none", "download", "repair", "repaired", "copy", "map", "rewrite",
                 \* "panicked", "group", "export", "exported", "failed"
  clone,         \* files of the clone
  form,          \* form[<<f, u>>]: "absolute", "relative", "broken", or the file it names
  missing,       \* rep: assets the scan found no file for
  tried,         \* downloads that have ended
  repaired,      \* the URLs repair rewrites
  persisted,     \* .mapping.json and index.json: URL -> file
  localTree,     \* files of the localized copy
  skipped,       \* files copyTree could not read or write
  localForm,     \* form, in the copy
  urlToLocal,    \* URL -> file of the copy
  rewritten,     \* files a pass has rewritten or left
  tree,          \* files Dedup was given
  grouped,       \* pages Dedup has put into a group
  repFile,       \* groups: document -> its page
  export         \* files Dedup has copied

repairVars == <<missing, tried, repaired>>
localVars == <<localTree, skipped, localForm, urlToLocal>>
exportVars == <<tree, grouped, repFile, export>>
ovars == <<pass, clone, form, persisted, rewritten, repairVars, localVars, exportVars>>

Empty == [x \in {} |-> x]

(* filepath.Walk: f is the next of the files, after those that are done.     *)
Comes(f, files, over) == f \in files \ over /\ \A g \in files \ over : PathOrder[f] <= PathOrder[g]

(* Every page is there, and the assets that were saved; the mapping of the   *)
(* crawl names a file for some of the URLs, their own or that of an equal    *)
(* body.                                                                     *)
OfflineInit ==
  /\ pass = "none"
  /\ \E absent \in SUBSET Media : clone = Saved \ absent
  /\ form \in [Reference -> {"absolute", "relative"}]
  /\ \E known \in SUBSET Media : persisted \in [known -> clone \cap Media]
  /\ missing = {} /\ tried = {} /\ repaired = {} /\ rewritten = {}
  /\ localTree = {} /\ skipped = {} /\ localForm = Empty /\ urlToLocal = Empty
  /\ tree = {} /\ grouped = {} /\ repFile = Empty /\ export = {}

-----------------------------------------------------------------------------
(* repair.Run scans index.html pages and style sheets for the absolute URLs  *)
(* of assets: a link to a page is none.                                      *)
Scanned == (IndexPage \cup Sheet) \cap clone
Asked == {r[2] : r \in {x \in Reference : x[1] \in Scanned /\ x[2] \notin PageFile
                                          /\ form[x] = "absolute"}}

Repair ==
  /\ pass = "none" /\ pass' = "download" /\ missing' = Asked \ clone
  /\ UNCHANGED <<clone, form, persisted, rewritten, tried, repaired, localVars, exportVars>>

(* downloadOne: the request or SaveFile fails, or the file is there. *)
Download(u) ==
  /\ pass = "download" /\ u \in missing \ tried /\ tried' = tried \cup {u}
  /\ clone' \in {clone, clone \cup {u}}
  /\ UNCHANGED <<pass, form, persisted, rewritten, missing, repaired, localVars, exportVars>>

Downloaded ==
  /\ pass = "download" /\ tried = missing /\ pass' = "repair" /\ repaired' = Asked \cap clone
  /\ UNCHANGED <<clone, form, persisted, rewritten, missing, tried, localVars, exportVars>>

(* rewriteRepairedURLs replaces text, the longest URLs first: a URL that is  *)
(* not mapped and begins with one that is loses its beginning.  A file that  *)
(* cannot be written stays as it was.                                        *)
RepairText(f) ==
  /\ pass = "repair" /\ repaired # {} /\ Comes(f, Scanned, rewritten)
  /\ rewritten' = rewritten \cup {f}
  /\ \/ UNCHANGED form
     \/ form' = [r \in Reference |->
                   CASE r[1] # f \/ form[r] # "absolute" -> form[r]
                     [] r[2] \in repaired -> r[2]
                     [] \E v \in repaired : <<r[2], v>> \in Extends -> "broken"
                     [] OTHER -> "absolute"]
  /\ UNCHANGED <<pass, clone, persisted, repairVars, localVars, exportVars>>

RepairEnd ==
  /\ pass = "repair" /\ (repaired = {} \/ rewritten = Scanned) /\ pass' = "repaired"
  /\ UNCHANGED <<clone, form, persisted, rewritten, repairVars, localVars, exportVars>>

-----------------------------------------------------------------------------
(* localize.Run builds the copy anew.  It refuses to when the clone is not   *)
(* there, or lies in the directory it would empty.                           *)
Localize ==
  /\ pass \in {"none", "panicked"}
  /\ pass' = "copy" /\ localTree' = {} /\ skipped' = {} /\ localForm' = form
  /\ urlToLocal' = Empty /\ rewritten' = {}
  /\ UNCHANGED <<clone, form, persisted, repairVars, exportVars>>

(* copyTree goes on after a file it could not copy. *)
CopyFile(f) ==
  /\ pass = "copy" /\ Comes(f, clone, localTree \cup skipped)
  /\ \/ localTree' = localTree \cup {f} /\ UNCHANGED skipped
     \/ skipped' = skipped \cup {f} /\ UNCHANGED localTree
  /\ UNCHANGED <<pass, clone, form, persisted, rewritten, localForm, urlToLocal, repairVars, exportVars>>

(* The persisted mapping has the last word; the walk over the clone adds the *)
(* URL each file's path stands for.                                          *)
BuildMapping ==
  /\ pass = "copy" /\ clone = localTree \cup skipped /\ pass' = "rewrite"
  /\ urlToLocal' = [u \in DOMAIN persisted \cup (clone \ ByQuery) |->
                      IF u \in DOMAIN persisted THEN persisted[u] ELSE u]
  /\ UNCHANGED <<clone, form, persisted, rewritten, localTree, skipped, localForm, repairVars, exportVars>>

(* Rewriter.localize: the mapped file, or the one the URL's path leads to    *)
(* when there is one.  Fault: when there is none, too. *)
LocalOf_Unchecked(u) == IF u \in DOMAIN urlToLocal THEN urlToLocal[u] ELSE u

LocalOf(u) ==
  IF u \in DOMAIN urlToLocal THEN urlToLocal[u]
  ELSE IF u \in localTree THEN u ELSE "absolute"

(* RewriteHTML and RewriteCSS: what has a local form gets it, the rest stays. *)
RewriteText(f) ==
  [r \in Reference |->
     IF r[1] = f /\ LocalOf(r[2]) # "absolute" THEN LocalOf(r[2]) ELSE localForm[r]]

(* A page that looks binary, or cannot be written, stays as it was.          *)
RewriteFile(f) ==
  /\ pass = "rewrite" /\ Comes(f, localTree \cap TextFile, rewritten) /\ rewritten' = rewritten \cup {f}
  /\ localForm' \in {localForm, RewriteText(f)}
  /\ UNCHANGED <<pass, clone, form, persisted, localTree, skipped, urlToLocal, repairVars, exportVars>>

(* NewJSReWriter compiles an expression with a back reference, which the     *)
(* regexp package does not have: MustCompile panics, and no script is ever   *)
(* rewritten.                                                                *)
NewJSReWriter ==
  /\ pass = "rewrite" /\ rewritten = localTree \cap TextFile /\ pass' = "panicked"
  /\ UNCHANGED <<clone, form, persisted, rewritten, repairVars, localVars, exportVars>>

-----------------------------------------------------------------------------
(* Dedup of the clone, or of the copy. *)
Dedup ==
  /\ pass \in {"none", "panicked"} /\ pass' = "group"
  /\ tree' \in IF pass = "none" THEN {clone} ELSE {clone, localTree}
  /\ UNCHANGED <<clone, form, persisted, rewritten, repairVars, localVars, grouped, repFile, export>>

Lighter(p, q) ==
  \/ WeightOf[p] < WeightOf[q]
  \/ WeightOf[p] = WeightOf[q] /\ PathOrder[p] < PathOrder[q]

(* A page joins the group of its document, as its first or its lightest one, *)
(* in the order of the walk; noise joins none.                               *)
GroupPage(p) ==
  /\ pass = "group" /\ p \in (tree \cap PageFile) \ grouped /\ grouped' = grouped \cup {p}
  /\ LET d == DocOf[p]
     IN repFile' = IF p \in NoisePage \/ (d \in DOMAIN repFile /\ ~Lighter(p, repFile[d]))
                   THEN repFile
                   ELSE [e \in DOMAIN repFile \cup {d} |-> IF e = d THEN p ELSE repFile[e]]
  /\ UNCHANGED <<pass, clone, form, persisted, rewritten, repairVars, localVars, tree, export>>

Grouped ==
  /\ pass = "group" /\ tree \cap PageFile = grouped /\ pass' = "export"
  /\ UNCHANGED <<clone, form, persisted, rewritten, repairVars, localVars, exportVars>>

Exportable == (tree \ PageFile) \cup Range(repFile)

(* The first file that cannot be copied ends the export. *)
ExportFile(f) ==
  /\ pass = "export" /\ Comes(f, Exportable, export)
  /\ \/ export' = export \cup {f} /\ UNCHANGED pass
     \/ pass' = "failed" /\ UNCHANGED export
  /\ UNCHANGED <<clone, form, persisted, rewritten, repairVars, localVars, tree, grouped, repFile>>

ExportEnd ==
  /\ pass = "export" /\ export = Exportable /\ pass' = "exported"
  /\ UNCHANGED <<clone, form, persisted, rewritten, repairVars, localVars, exportVars>>

OfflineNext ==
  \/ Repair \/ Downloaded \/ RepairEnd \/ Localize \/ BuildMapping \/ NewJSReWriter
  \/ Dedup \/ Grouped \/ ExportEnd
  \/ \E f \in Saved : Download(f) \/ RepairText(f) \/ CopyFile(f) \/ RewriteFile(f)
                      \/ GroupPage(f) \/ ExportFile(f)

-----------------------------------------------------------------------------
(* What a pass leaves behind leads somewhere.  A reference repair or         *)
(* localize made relative names a file that is in its tree, unless copyTree  *)
(* skipped it; and once Dedup has ended, whatever the order of the walk,     *)
(* each file of its tree is in the export, or is noise, or has a page of its *)
(* document there that is no noisier.                                        *)
LinksLead ==
  /\ \A r \in Reference : form[r] \in Saved => form[r] \in clone
  /\ \A r \in DOMAIN localForm :
       r[1] \in localTree /\ localForm[r] \in Saved => localForm[r] \in localTree \cup skipped
  /\ pass = "exported" => \A f \in tree :
       \/ f \in export \cup NoisePage
       \/ f \in PageFile /\ \E p \in export \cap PageFile :
            DocOf[p] = DocOf[f] /\ WeightOf[p] <= WeightOf[f]
=============================================================================
