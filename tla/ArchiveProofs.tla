------------------------------ MODULE ArchiveProofs ------------------------------
(***************************************************************************)
(* Theorems about what a crawl leaves on disk.  Archive: what a writer     *)
(* accepted is in its archive once it is closed, or a file has failed; and *)
(* no change of the validation headers is lost between the steps of a      *)
(* save, for any records and any size of a file.  OfflineTree: what the    *)
(* passes over a finished clone leave leads somewhere, for any files and   *)
(* references.                                                             *)
(* ChangeDetector: the snapshots in memory are the newest on disk, for any *)
(* URLs, pages and limit.                                                  *)
(***************************************************************************)
EXTENDS Archive, OfflineTree, ChangeDetector, FiniteSetTheorems, SequenceTheorems, TLAPS

-----------------------------------------------------------------------------
(* Before the close, a record accepted is in the file or the stream that is  *)
(* set or in one ended before; a file that Close has ended takes nothing.    *)
WhereRecordsAre ==
  /\ archiveClosing \in {"no", "wacz", "done"}
  /\ warcTook \subseteq inFile \cup finished \cup torn
  /\ archiveClosing = "no" => warcFile # "closed"
  /\ archiveClosing # "no" => warcTook \subseteq finished \cup torn
  /\ archiveClosing # "done" => waczTook \subseteq inStream \cup inBuf
  /\ archiveClosing = "done" /\ ~zipFailed => waczTook \subseteq zipped

LEMMA WhereInit == ArchiveInit => WhereRecordsAre
  BY DEF ArchiveInit, WhereRecordsAre

LEMMA WhereStep ==
  WhereRecordsAre /\ [ArchiveNext]_<<avars, kvars>> => WhereRecordsAre'
<1> SUFFICES ASSUME WhereRecordsAre, [ArchiveNext]_<<avars, kvars>> PROVE WhereRecordsAre'
  OBVIOUS
<1>1. ASSUME NEW r \in Record, WriteWARC(r) PROVE WhereRecordsAre'
  BY <1>1 DEF WriteWARC, AcceptWARC, RefuseWARC, EndFile, waczVars, WhereRecordsAre
<1>2. ASSUME NEW r \in Record, WriteWACZ(r) PROVE WhereRecordsAre'
  <2>1. inStream \cup inBuf \cup {r} \subseteq (inStream \cup inBuf)'
    BY <1>2 DEF WriteWACZ
  <2> QED BY <1>2, <2>1 DEF WriteWACZ, warcVars, WhereRecordsAre
<1>3. CASE CloseWARC
  BY <1>3 DEF CloseWARC, EndFile, waczVars, WhereRecordsAre
<1>4. CASE CloseWACZ
  BY <1>4 DEF CloseWACZ, warcVars, WhereRecordsAre
<1>5. CASE UNCHANGED avars
  BY <1>5 DEF avars, warcVars, waczVars, WhereRecordsAre
<1>6. SaveCopy \/ SaveWrite \/ (\E u \in CacheURL : UpdateFromResponse(u)) => UNCHANGED avars
  BY DEF SaveCopy, SaveWrite, UpdateFromResponse
<1> QED BY <1>1, <1>2, <1>3, <1>4, <1>5, <1>6 DEF ArchiveNext, writeRecord, closeWriters

(* closeWriters, from any goroutine, at any record and between the two steps *)
(* of one, loses nothing the writers accepted before, unless a file fails:   *)
(* WARCWriter.Close and WACZWriter.Close end what is open.                   *)
THEOREM ArchiveIsComplete == ArchiveSpec => []ArchiveComplete
<1>1. WhereRecordsAre => ArchiveComplete
  BY DEF WhereRecordsAre, ArchiveComplete
<1> QED BY <1>1, WhereInit, WhereStep, PTL DEF ArchiveSpec

-----------------------------------------------------------------------------
(* While a save is under way and the cache is not dirty, what was copied is  *)
(* what the cache has: an update in between sets the flag again.             *)
CopyCurrent ==
  /\ onDisk = etag \/ dirty \/ saving = "write"
  /\ saving = "write" /\ ~dirty => copied = etag
  /\ dirty \in BOOLEAN

LEMMA CopyInit == ArchiveInit => CopyCurrent
  BY DEF ArchiveInit, CopyCurrent

LEMMA CopyStep == CopyCurrent /\ [ArchiveNext]_<<avars, kvars>> => CopyCurrent'
<1> SUFFICES ASSUME CopyCurrent, [ArchiveNext]_<<avars, kvars>> PROVE CopyCurrent'
  OBVIOUS
<1>1. CASE SaveCopy
  BY <1>1 DEF SaveCopy, CopyCurrent
<1>2. CASE SaveWrite
  BY <1>2 DEF SaveWrite, CopyCurrent
<1>3. ASSUME NEW u \in CacheURL, UpdateFromResponse(u) PROVE CopyCurrent'
  BY <1>3 DEF UpdateFromResponse, CopyCurrent
<1>4. CASE UNCHANGED kvars
  BY <1>4 DEF kvars, CopyCurrent
<1>5. closeWriters \/ (\E r \in Record : writeRecord(r)) => UNCHANGED kvars
  BY DEF closeWriters, writeRecord, CloseWARC, CloseWACZ, WriteWARC, WriteWACZ
<1> QED BY <1>1, <1>2, <1>3, <1>4, <1>5 DEF ArchiveNext

(* ResourceCache.Save resets dirty with the copy and sets it again when the  *)
(* write fails, so that the file is never behind without a save to come.     *)
THEOREM CacheIsNotStale == ArchiveSpec => []CacheNotStale
<1>1. CopyCurrent => CacheNotStale
  BY DEF CopyCurrent, CacheNotStale
<1> QED BY <1>1, CopyInit, CopyStep, PTL DEF ArchiveSpec

-----------------------------------------------------------------------------
(* The passes over a finished clone. *)

OfflineSpec == OfflineInit /\ [][OfflineNext]_ovars

(* The passes of repair, of Dedup, and all. *)
AtRepair == {"none", "download", "repair", "repaired"}
AtDedup == {"group", "export", "exported", "failed"}
Passes == AtRepair \cup AtDedup \cup {"copy", "rewrite", "panicked"}

(* What is copied is of the clone, all of it once the copy is mapped; what   *)
(* is mapped is there.                                                       *)
TreesOK ==
  /\ pass \in Passes
  /\ clone \subseteq Saved /\ repaired \subseteq clone /\ localTree \cup skipped \subseteq clone
  /\ \A u \in DOMAIN persisted : persisted[u] \in clone
  /\ \A u \in DOMAIN urlToLocal : urlToLocal[u] \in clone

(* Where repair has not been, no reference is a file's; where the copy's     *)
(* references have been rewritten, the copy is whole.                        *)
FormsOK ==
  /\ DOMAIN form = Reference
  /\ \A r \in Reference : form[r] \in Saved => form[r] \in clone
  /\ pass \notin {"repair", "repaired"} => \A r \in Reference : form[r] \notin Saved
  /\ pass \in AtRepair => localForm = Empty
  /\ pass \in {"copy", "rewrite", "panicked"} => DOMAIN localForm = Reference
  /\ pass = "copy" => \A r \in Reference : localForm[r] \notin Saved
  /\ pass \in {"rewrite", "panicked"} => clone = localTree \cup skipped
  /\ pass \in AtDedup => localForm = Empty \/ clone = localTree \cup skipped
  /\ \A r \in DOMAIN localForm : localForm[r] \in Saved => localForm[r] \in clone

(* Each page Dedup has seen is noise or has, in the group of its document, a *)
(* page that is no heavier.                                                  *)
GroupsOK ==
  /\ grouped \subseteq tree \cap PageFile
  /\ \A d \in DOMAIN repFile : repFile[d] \in grouped /\ DocOf[repFile[d]] = d
  /\ \A p \in grouped \ NoisePage :
       DocOf[p] \in DOMAIN repFile /\ WeightOf[repFile[DocOf[p]]] <= WeightOf[p]
  /\ pass \notin AtDedup => grouped = {} /\ repFile = Empty
  /\ pass \in AtDedup \ {"group"} => grouped = tree \cap PageFile
  /\ pass = "exported" => export = Exportable

OfflineInv == TreesOK /\ FormsOK /\ GroupsOK

(* The clone as the crawl left it. *)
LEMMA OfflineStart == OfflineInit => OfflineInv
<1> SUFFICES ASSUME OfflineInit PROVE OfflineInv
  OBVIOUS
<1>1. TreesOK
  BY DEF OfflineInit, TreesOK, Passes, AtRepair, Empty, Saved
<1>2. FormsOK
  BY OfflineAssumption DEF OfflineInit, FormsOK, AtRepair, AtDedup, Empty
<1>3. GroupsOK
  BY DEF OfflineInit, GroupsOK, AtDedup, Empty
<1> QED BY <1>1, <1>2, <1>3 DEF OfflineInv

(* Repair names a file only for a URL that is in the clone by then. *)
LEMMA RepairKeeps ==
  ASSUME OfflineInv, NEW f,
         Repair \/ Downloaded \/ RepairEnd \/ (f \in Saved /\ (Download(f) \/ RepairText(f)))
  PROVE  OfflineInv'
<1> USE DEF OfflineInv
<1>1. TreesOK'
  BY DEF TreesOK, Passes, AtRepair, Repair, Download, Downloaded, RepairText, RepairEnd, localVars, repairVars, exportVars
<1>2. GroupsOK'
  BY DEF GroupsOK, AtDedup, Repair, Download, Downloaded, RepairText, RepairEnd, localVars, repairVars, exportVars, Exportable
<1>3. localForm = Empty /\ localForm' = Empty /\ pass \in AtRepair /\ pass' \in AtRepair
  BY DEF FormsOK, AtRepair, AtDedup, Repair, Download, Downloaded, RepairText, RepairEnd, localVars
<1>g. SUFFICES FormsOK'
  BY <1>1, <1>2
<1>4. CASE Repair \/ Download(f) \/ Downloaded \/ RepairEnd
  BY <1>3, <1>4 DEF FormsOK, AtRepair, AtDedup, Repair, Download, Downloaded, RepairEnd, localVars, Empty
<1>5. CASE RepairText(f)
  <2>1. CASE form' = form
    BY <1>3, <1>5, <2>1 DEF FormsOK, AtRepair, AtDedup, RepairText, Empty
  <2>2. CASE form' # form
    <3>1. /\ DOMAIN form' = Reference
          /\ \A r \in Reference : form'[r] \in {form[r], "broken", "absolute"} \cup repaired
      BY <1>5, <2>2 DEF RepairText, Reference
    <3>2. \A r \in Reference : form'[r] \in Saved => form'[r] \in clone
      BY <3>1, OfflineAssumption DEF FormsOK, TreesOK
    <3> QED BY <1>3, <1>5, <3>1, <3>2 DEF FormsOK, AtRepair, AtDedup, RepairText, Empty
  <2> QED BY <2>1, <2>2
<1> QED BY <1>4, <1>5

(* The copy is whole before its references are rewritten, and the mapping    *)
(* names files of the clone only.                                            *)
LEMMA LocalizeKeeps ==
  ASSUME OfflineInv, NEW f,
         Localize \/ BuildMapping \/ NewJSReWriter \/ (f \in Saved /\ (CopyFile(f) \/ RewriteFile(f)))
  PROVE  OfflineInv'
<1> USE DEF OfflineInv
<1>1. TreesOK'
  BY DEF TreesOK, Passes, AtRepair, Localize, CopyFile, BuildMapping, RewriteFile, NewJSReWriter, Comes, Empty,
         localVars, repairVars, exportVars
<1>2. GroupsOK'
  BY DEF GroupsOK, AtDedup, Localize, CopyFile, BuildMapping, RewriteFile, NewJSReWriter, localVars, exportVars, Exportable
<1>g. SUFFICES FormsOK'
  BY <1>1, <1>2
<1>3. CASE Localize
  BY <1>3 DEF FormsOK, AtRepair, AtDedup, Localize
<1>4. CASE CopyFile(f) \/ BuildMapping \/ NewJSReWriter
  BY <1>4 DEF FormsOK, AtRepair, AtDedup, CopyFile, BuildMapping, NewJSReWriter, localVars
<1>5. CASE RewriteFile(f)
  <2>1. CASE localForm' = localForm
    BY <1>5, <2>1 DEF FormsOK, AtRepair, AtDedup, RewriteFile
  <2>2. CASE localForm' # localForm
    <3>1. localForm' = RewriteText(f)
      BY <1>5, <2>2 DEF RewriteFile
    <3>2. f \in localTree /\ pass = "rewrite"
      BY <1>5 DEF RewriteFile, Comes
    <3>3. ASSUME NEW u, LocalOf(u) \in Saved PROVE LocalOf(u) \in clone
      BY <3>3, OfflineAssumption DEF LocalOf, TreesOK
    <3> QED BY <1>5, <3>1, <3>2, <3>3 DEF FormsOK, AtRepair, AtDedup, RewriteFile, RewriteText
  <2> QED BY <2>1, <2>2
<1> QED BY <1>3, <1>4, <1>5

(* A page takes its group over only when it is no heavier than the page that *)
(* was there, so it is none of those the group has seen.                     *)
LEMMA DedupKeeps ==
  ASSUME OfflineInv, NEW f,
         Dedup \/ Grouped \/ ExportEnd \/ (f \in Saved /\ (GroupPage(f) \/ ExportFile(f)))
  PROVE  OfflineInv'
<1> USE DEF OfflineInv
<1>1. TreesOK'
  BY DEF TreesOK, Passes, AtRepair, AtDedup, Dedup, GroupPage, Grouped, ExportFile, ExportEnd,
         localVars, repairVars, exportVars
<1>2. FormsOK'
  BY DEF FormsOK, AtRepair, AtDedup, Dedup, GroupPage, Grouped, ExportFile, ExportEnd,
         localVars, repairVars, exportVars
<1>g. SUFFICES GroupsOK'
  BY <1>1, <1>2
<1>3. CASE Dedup
  BY <1>3 DEF GroupsOK, AtDedup, Dedup, Empty
<1>4. CASE GroupPage(f)
  <2> DEFINE d == DocOf[f]
  <2>1. /\ pass = "group" /\ pass' = "group" /\ tree' = tree /\ f \in tree \cap PageFile /\ f \notin grouped
        /\ grouped' = grouped \cup {f}
    BY <1>4 DEF GroupPage
  <2>w. \A p \in PageFile : WeightOf[p] \in Nat
    BY OfflineAssumption
  <2>2. CASE f \in NoisePage \/ (d \in DOMAIN repFile /\ ~Lighter(f, repFile[d]))
    <3>1. repFile' = repFile
      BY <1>4, <2>2 DEF GroupPage
    <3>2. f \notin NoisePage => d \in DOMAIN repFile /\ WeightOf[repFile[d]] <= WeightOf[f]
      BY <2>1, <2>2, <2>w DEF Lighter, GroupsOK
    <3> QED BY <2>1, <3>1, <3>2 DEF GroupsOK, AtDedup
  <2>3. CASE ~(f \in NoisePage \/ (d \in DOMAIN repFile /\ ~Lighter(f, repFile[d])))
    <3>1. repFile' = [e \in DOMAIN repFile \cup {d} |-> IF e = d THEN f ELSE repFile[e]]
      BY <1>4, <2>3 DEF GroupPage
    <3>2. d \in DOMAIN repFile => WeightOf[f] <= WeightOf[repFile[d]]
      BY <2>1, <2>3, <2>w DEF Lighter, GroupsOK
    <3>3. ASSUME NEW e \in DOMAIN repFile' PROVE repFile'[e] \in grouped' /\ DocOf[repFile'[e]] = e
      BY <2>1, <3>1 DEF GroupsOK
    <3>4. ASSUME NEW p \in grouped' \ NoisePage
          PROVE  DocOf[p] \in DOMAIN repFile' /\ WeightOf[repFile'[DocOf[p]]] <= WeightOf[p]
      <4>1. CASE p = f
        BY <4>1, <2>1, <2>w, <3>1
      <4>2. CASE p # f
        <5>1. /\ p \in grouped \ NoisePage /\ p \in PageFile /\ DocOf[p] \in DOMAIN repFile
              /\ repFile[DocOf[p]] \in PageFile /\ WeightOf[repFile[DocOf[p]]] <= WeightOf[p]
          BY <4>2, <3>4, <2>1 DEF GroupsOK
        <5>2. CASE DocOf[p] = d
          BY <5>1, <5>2, <3>1, <3>2, <2>1, <2>w
        <5>3. CASE DocOf[p] # d
          BY <5>1, <5>3, <3>1
        <5> QED BY <5>2, <5>3
      <4> QED BY <4>1, <4>2
    <3> QED BY <2>1, <3>3, <3>4 DEF GroupsOK, AtDedup
  <2> QED BY <2>2, <2>3
<1>5. CASE Grouped \/ ExportFile(f) \/ ExportEnd
  BY <1>5 DEF GroupsOK, AtDedup, Grouped, ExportFile, ExportEnd, exportVars, Exportable
<1> QED BY <1>3, <1>4, <1>5

(* LinksLead: a reference that repair or localize made relative names a file *)
(* of its tree, but for what copyTree skipped, and Dedup's export keeps a    *)
(* page for every document, whatever fails on the way and in whatever order  *)
(* the files come.                                                           *)
THEOREM OfflineLinksLead == OfflineSpec => []LinksLead
<1>1. OfflineInv /\ [OfflineNext]_ovars => OfflineInv'
  <2>1. CASE UNCHANGED ovars
    BY <2>1 DEF OfflineInv, TreesOK, FormsOK, GroupsOK, ovars, localVars, repairVars, exportVars, Exportable
  <2> QED BY <2>1, RepairKeeps, LocalizeKeeps, DedupKeeps DEF OfflineNext
<1>2. OfflineInv => LinksLead
  <2> SUFFICES ASSUME OfflineInv PROVE LinksLead
    OBVIOUS
  <2> USE DEF OfflineInv
  <2>1. ASSUME NEW r \in DOMAIN localForm, localForm[r] \in Saved PROVE localForm[r] \in localTree \cup skipped
    BY <2>1 DEF FormsOK, TreesOK, Passes, AtRepair, AtDedup, Empty
  <2>2. ASSUME pass = "exported", NEW f \in tree, f \notin export \cup NoisePage
        PROVE  f \in PageFile /\ \E p \in export \cap PageFile : DocOf[p] = DocOf[f] /\ WeightOf[p] <= WeightOf[f]
    <3>1. f \in grouped
      BY <2>2 DEF GroupsOK, AtDedup, Exportable
    <3>2. /\ DocOf[f] \in DOMAIN repFile /\ WeightOf[repFile[DocOf[f]]] <= WeightOf[f]
          /\ repFile[DocOf[f]] \in PageFile /\ DocOf[repFile[DocOf[f]]] = DocOf[f]
      BY <2>2, <3>1 DEF GroupsOK
    <3>3. repFile[DocOf[f]] \in export
      BY <2>2, <3>2 DEF GroupsOK, Exportable, Range
    <3> QED BY <3>1, <3>2, <3>3 DEF GroupsOK
  <2> QED BY <2>1, <2>2 DEF LinksLead, FormsOK
<1> QED BY <1>1, <1>2, OfflineStart, PTL DEF OfflineSpec

-----------------------------------------------------------------------------
(* The snapshots. *)

DetectorSpec == DetectorInit /\ [][DetectorNext]_dvars

(* A sequence, of whatever. *)
IsSeq(s) == s \in Seq({s[i] : i \in 1..Len(s)})

(* A file is of its URL and second, and of none to come. *)
FilesNamed ==
  /\ second \in Nat /\ IsFiniteSet(DOMAIN files) /\ files = [f \in DOMAIN files |-> files[f]]
  /\ \A f \in DOMAIN files : /\ f = <<SafeName[files[f].url], files[f].at>>
                             /\ files[f].at \in Nat /\ files[f].at <= second

(* The snapshots of u on disk, newest first. *)
OnDisk(u) == InOrder(OnFile(u))

(* What is in memory is what comes first on disk. *)
Leads(u) ==
  /\ Len(snapshots[u]) <= Len(OnDisk(u))
  /\ \A i \in 1..Len(snapshots[u]) : snapshots[u][i] = OnDisk(u)[i]

MemoryKept ==
  /\ DOMAIN snapshots = SnapURL
  /\ \A u \in SnapURL : IsSeq(snapshots[u]) /\ Len(snapshots[u]) <= MaxSnapshots
  /\ \A u \in SnapURL \ misfiled : Leads(u)

(* A load has read, or has still to read, all of a URL that is not misfiled. *)
LoadOK ==
  /\ IsFiniteSet(loaded)
  /\ loading => \A u \in SnapURL \ misfiled :
                  /\ Of(u, loaded) \subseteq OnFile(u)
                  /\ \A f \in DOMAIN files : files[f].url = u => f \in toRead \/ files[f] \in loaded

DetectorInv == FilesNamed /\ MemoryKept /\ LoadOK

(* A sequence is one of its own elements. *)
LEMMA OwnElements ==
  ASSUME NEW S, NEW s \in Seq(S)
  PROVE  IsSeq(s) /\ Len(s) \in Nat
<1>1. Len(s) \in Nat /\ s \in [1..Len(s) -> {s[i] : i \in 1..Len(s)}]
  OBVIOUS
<1> QED BY <1>1, SeqDef DEF IsSeq

(* So is the empty one. *)
LEMMA NothingIsSeq == IsSeq(<<>>) /\ Len(<<>>) = 0 /\ ToSet(<<>>) = {}
<1>1. <<>> \in Seq({}) /\ Len(<<>>) = 0 /\ 1..0 = {}
  OBVIOUS
<1>2. DOMAIN <<>> = {}
  OBVIOUS
<1>3. ToSet(<<>>) = {}
  BY <1>2 DEF ToSet
<1> QED BY <1>1, <1>3, OwnElements

(* Finitely many snapshots make a sequence of as many. *)
LEMMA OrderIsSeq ==
  ASSUME NEW T, IsFiniteSet(T)
  PROVE  IsSeq(InOrder(T)) /\ Len(InOrder(T)) = Cardinality(T) /\ Len(InOrder(T)) \in Nat
<1> DEFINE n == Cardinality(T)
           S == {InOrder(T)[i] : i \in 1..n}
<1>1. n \in Nat
  BY FS_CardinalityType
<1>2. InOrder(T) \in [1..n -> S]
  BY DEF InOrder
<1> HIDE DEF n, S
<1>3. InOrder(T) \in Seq(S) /\ Len(InOrder(T)) = n
  BY <1>1, <1>2
<1> QED BY <1>1, <1>3, OwnElements DEF n

(* A directory has finitely many files, and so many snapshots of each URL.   *)
LEMMA DiskIsSeq ==
  ASSUME FilesNamed, NEW u
  PROVE  /\ IsFiniteSet(OnFile(u)) /\ IsSeq(OnDisk(u)) /\ Len(OnDisk(u)) = Cardinality(OnFile(u))
         /\ Len(OnDisk(u)) \in Nat
<1> DEFINE G == {g \in DOMAIN files : files[g].url = u}
           h == [f \in G |-> files[f]]
<1>1. IsFiniteSet(OnFile(u)) /\ Cardinality(OnFile(u)) \in Nat
  <2>1. IsFiniteSet(G)
    BY FS_Subset DEF FilesNamed
  <2>2. h \in Surjection(G, OnFile(u))
    BY DEF Surjection, OnFile
  <2> QED BY <2>1, <2>2, FS_Surjection, FS_CardinalityType
<1> QED BY <1>1, OrderIsSeq DEF OnDisk

(* What the limit leaves of a sequence is its beginning. *)
LEMMA NewestCuts ==
  ASSUME NEW s, IsSeq(s), Len(s) \in Nat
  PROVE  /\ IsSeq(Newest(s)) /\ Len(Newest(s)) \in Nat /\ Len(Newest(s)) <= MaxSnapshots
         /\ Len(Newest(s)) = IF Len(s) < MaxSnapshots THEN Len(s) ELSE MaxSnapshots
         /\ \A i \in 1..Len(Newest(s)) : Newest(s)[i] = s[i]
<1> DEFINE n == IF Len(s) < MaxSnapshots THEN Len(s) ELSE MaxSnapshots
           S == {s[i] : i \in 1..Len(s)}
<1>1. n \in 0..Len(s) /\ n <= MaxSnapshots /\ Newest(s) = SubSeq(s, 1, n)
  BY DetectorAssumption DEF Newest
<1>2. s \in Seq(S)
  BY DEF IsSeq
<1>0. Len(s) \in Nat
  OBVIOUS
<1> HIDE DEF n, S
<1>3. SubSeq(s, 1, n) \in Seq(S) /\ Len(SubSeq(s, 1, n)) = n /\ \A i \in 1..n : SubSeq(s, 1, n)[i] = s[i]
  BY <1>0, <1>1, <1>2
<1>4. n \in Nat
  BY <1>0, <1>1
<1> QED BY <1>1, <1>3, <1>4, OwnElements DEF n

(* A snapshot put in front moves the others by one. *)
LEMMA InFront ==
  ASSUME NEW x, NEW s, IsSeq(s), Len(s) \in Nat
  PROVE  /\ IsSeq(<<x>> \o s) /\ Len(<<x>> \o s) = Len(s) + 1 /\ (<<x>> \o s)[1] = x
         /\ \A i \in 1..Len(s) : (<<x>> \o s)[i + 1] = s[i]
<1> DEFINE S == {s[i] : i \in 1..Len(s)} \cup {x}
<1>1. s \in Seq({s[i] : i \in 1..Len(s)})
  BY DEF IsSeq
<1>2. s \in Seq(S) /\ <<x>> \in Seq(S)
  <2>1. \A i \in 1..Len(s) : s[i] \in S
    OBVIOUS
  <2>2. x \in S
    OBVIOUS
  <2>3. DOMAIN s = 1..Len(s)
    BY <1>1
  <2>4. s \in [1..Len(s) -> S]
    BY <1>1, <2>1, <2>3
  <2> HIDE DEF S
  <2> QED BY <2>2, <2>4, SeqDef
<1> HIDE DEF S
<1>3. /\ <<x>> \o s \in Seq(S) /\ Len(<<x>> \o s) = Len(s) + 1 /\ (<<x>> \o s)[1] = x
      /\ \A i \in 1..Len(s) : (<<x>> \o s)[i + 1] = s[i]
  BY <1>2
<1> QED BY <1>3, OwnElements

(* A file newer than all there are of its URL comes first. *)
LEMMA NewestFirst ==
  ASSUME FilesNamed, NEW u, NEW snap, snap.at \in Nat, \A s \in OnFile(u) : s.at < snap.at,
         OnFile(u)' = OnFile(u) \cup {snap}
  PROVE  /\ Len(OnDisk(u)') = Len(OnDisk(u)) + 1 /\ OnDisk(u)'[1] = snap
         /\ \A i \in 1..Len(OnDisk(u)) : OnDisk(u)'[i + 1] = OnDisk(u)[i]
<1> DEFINE S == OnFile(u)
           T == S \cup {snap}
           n == Cardinality(S)
<1>1. IsFiniteSet(S) /\ n \in Nat /\ snap \notin S /\ Len(OnDisk(u)) = n
  BY DiskIsSeq, FS_CardinalityType
<1>2. \A s \in S : s.at \in Nat
  BY DEF FilesNamed, OnFile
<1>0. OnDisk(u) = [i \in 1..n |-> CHOOSE s \in Ranked(S, i) : TRUE]
  BY DEF OnDisk, InOrder
<1>3. Cardinality(T) = n + 1
  BY <1>1, FS_AddElement
<1>4. OnDisk(u)' = [i \in 1..n + 1 |-> CHOOSE s \in Ranked(T, i) : TRUE]
  BY <1>3 DEF OnDisk, InOrder
<1>s. \A s \in S : s.at < snap.at
  OBVIOUS
<1>n. snap.at \in Nat
  OBVIOUS
<1> HIDE DEF S
<1>5. Newer(snap, T) = {} /\ Cardinality(Newer(snap, T)) = 0
  <2>1. Newer(snap, T) = {}
    BY <1>2, <1>s, <1>n DEF Newer
  <2> QED BY <2>1, FS_EmptySet
<1>6. ASSUME NEW s \in S PROVE /\ Cardinality(Newer(s, T)) = Cardinality(Newer(s, S)) + 1
                               /\ Cardinality(Newer(s, S)) \in Nat
  <2>1. Newer(s, T) = Newer(s, S) \cup {snap} /\ snap \notin Newer(s, S)
    BY <1>1, <1>s, <1>2, <1>n DEF Newer
  <2>2. IsFiniteSet(Newer(s, S))
    BY <1>1, FS_Subset DEF Newer
  <2> QED BY <2>1, <2>2, FS_AddElement, FS_CardinalityType
<1>7. Ranked(T, 1) = {snap}
  <2>1. ASSUME NEW s \in S PROVE Cardinality(Newer(s, T)) # 1 - 1
    <3>1. \A c \in Nat : c + 1 # 1 - 1
      OBVIOUS
    <3> QED BY <1>6, <3>1
  <2>2. Cardinality(Newer(snap, T)) = 1 - 1
    BY <1>5
  <2> QED BY <2>1, <2>2 DEF Ranked
<1>8. ASSUME NEW i \in 1..n PROVE Ranked(T, i + 1) = Ranked(S, i)
  <2>1. i \in Nat /\ i >= 1
    BY <1>1
  <2>2. \A s \in S : Cardinality(Newer(s, T)) = (i + 1) - 1 <=> Cardinality(Newer(s, S)) = i - 1
    BY <1>6, <2>1
  <2>3. Cardinality(Newer(snap, T)) # (i + 1) - 1
    BY <1>5, <2>1
  <2> QED BY <2>2, <2>3 DEF Ranked
<1>9. OnDisk(u)'[1] = snap /\ Len(OnDisk(u)') = n + 1
  <2>1. 1 \in 1..n + 1
    BY <1>1
  <2>2. OnDisk(u)'[1] = CHOOSE s \in Ranked(T, 1) : TRUE
    BY <1>4, <2>1
  <2>3. OnDisk(u)'[1] = snap
    BY <1>7, <2>2
  <2>4. n + 1 \in Nat
    BY <1>1
  <2> DEFINE e(i) == CHOOSE s \in Ranked(T, i) : TRUE
             m == n + 1
  <2>5. OnDisk(u)' = [i \in 1..m |-> e(i)]
    BY <1>4
  <2> HIDE DEF e, m
  <2>6. m \in Nat => Len([i \in 1..m |-> e(i)]) = m
    OBVIOUS
  <2>7. Len(OnDisk(u)') = n + 1
    BY <2>4, <2>5, <2>6 DEF m
  <2> QED BY <2>3, <2>7
<1>10. ASSUME NEW i \in 1..n PROVE OnDisk(u)'[i + 1] = OnDisk(u)[i]
  <2>1. i + 1 \in 1..n + 1
    BY <1>1
  <2>2. OnDisk(u)'[i + 1] = CHOOSE s \in Ranked(T, i + 1) : TRUE
    BY <1>4, <2>1
  <2>3. OnDisk(u)[i] = CHOOSE s \in Ranked(S, i) : TRUE
    BY <1>0
  <2> QED BY <1>8, <2>2, <2>3
<1> QED BY <1>1, <1>9, <1>10

(* The files of a snapshot that is captured. *)
LEMMA FilesKept ==
  ASSUME FilesNamed, LoadOK, NEW u \in SnapURL, NEW snap, snap.url = u, snap.at \in 1..second,
         persistSnapshot(u, snap), second' = second, UNCHANGED loadVars
  PROVE  /\ FilesNamed' /\ LoadOK' /\ misfiled \subseteq misfiled'
         /\ \A v \in SnapURL \ misfiled' : v # u => OnFile(v)' = OnFile(v)
         /\ u \notin misfiled' => /\ OnFile(u)' = OnFile(u) \cup {snap}
                                  /\ \A s \in OnFile(u) : s.at < snap.at
<1> DEFINE f == <<SafeName[u], snap.at>>
           victim == IF f \in DOMAIN files THEN {files[f].url} ELSE {}
           late == IF loading \/ \E s \in OnFile(u) : s.at >= snap.at THEN {u} ELSE {}
<1>0. second \in Nat /\ snap.at \in Nat /\ snap.at <= second
  BY DEF FilesNamed
<1>l. UNCHANGED <<loading, toRead, loaded>>
  BY DEF loadVars
<1>1. CASE UNCHANGED files /\ misfiled' = misfiled \cup {u}
  <2>1. \A v : OnFile(v)' = OnFile(v)
    BY <1>1 DEF OnFile
  <2>2. FilesNamed'
    BY <1>1 DEF FilesNamed
  <2>3. LoadOK'
    BY <1>1, <1>l, <2>1 DEF LoadOK, Of
  <2> QED BY <1>1, <2>1, <2>2, <2>3
<1>2. CASE /\ files' = [g \in DOMAIN files \cup {f} |-> IF g = f THEN snap ELSE files[g]]
           /\ misfiled' = misfiled \cup victim \cup late
  <2>1. DOMAIN files' = DOMAIN files \cup {f} /\ files'[f] = snap
        /\ \A g \in DOMAIN files \ {f} : files'[g] = files[g]
    BY <1>2
  <2>2. FilesNamed'
    <3>1. IsFiniteSet(DOMAIN files')
      <4> DEFINE D == DOMAIN files
      <4>1. IsFiniteSet(D)
        BY DEF FilesNamed
      <4> HIDE DEF D, f
      <4>2. IsFiniteSet(D \cup {f})
        BY <4>1, FS_AddElement
      <4> QED BY <2>1, <4>2 DEF D
    <3>2. files' = [g \in DOMAIN files' |-> files'[g]]
      BY <1>2
    <3> QED BY <1>0, <2>1, <3>1, <3>2 DEF FilesNamed
  <2>3. ASSUME NEW v \in SnapURL \ misfiled', v # u
        PROVE  OnFile(v)' = OnFile(v) /\ (f \in DOMAIN files => files[f].url # v)
    <3>1. f \in DOMAIN files => files[f].url # v
      BY <1>2, <2>3
    <3> QED BY <2>1, <2>3, <3>1 DEF OnFile
  <2>4. ASSUME u \notin misfiled'
        PROVE  /\ OnFile(u)' = OnFile(u) \cup {snap} /\ \A s \in OnFile(u) : s.at < snap.at
               /\ ~loading
    <3>1. f \in DOMAIN files => files[f].url # u
      BY <1>2, <2>4
    <3>2. OnFile(u)' = OnFile(u) \cup {snap}
      BY <2>1, <3>1 DEF OnFile
    <3>3. ~loading /\ \A s \in OnFile(u) : ~(s.at >= snap.at)
      BY <1>2, <2>4
    <3>4. \A s \in OnFile(u) : s.at \in Nat
      BY DEF FilesNamed, OnFile
    <3> QED BY <1>0, <3>2, <3>3, <3>4
  <2>5. LoadOK'
    <3> SUFFICES ASSUME loading, NEW v \in SnapURL \ misfiled'
                 PROVE  /\ Of(v, loaded) \subseteq OnFile(v)'
                        /\ \A g \in DOMAIN files' : files'[g].url = v => g \in toRead \/ files'[g] \in loaded
      BY <1>l DEF LoadOK, Of
    <3>1. v # u /\ v \notin misfiled
      BY <1>2, <2>4
    <3>2. Of(v, loaded) \subseteq OnFile(v)'
      BY <2>3, <3>1 DEF LoadOK
    <3>3. ASSUME NEW g \in DOMAIN files', files'[g].url = v PROVE g \in toRead \/ files'[g] \in loaded
      <4>1. g # f
        BY <2>1, <3>1, <3>3
      <4> QED BY <2>1, <3>1, <3>3, <4>1 DEF LoadOK
    <3> QED BY <3>2, <3>3
  <2> HIDE DEF f, victim, late
  <2> QED BY <1>2, <2>2, <2>3, <2>4, <2>5
<1>3. CASE files' = [g \in DOMAIN files \ {f} |-> files[g]] /\ misfiled' = misfiled \cup victim \cup {u}
  <2>1. DOMAIN files' = DOMAIN files \ {f} /\ \A g \in DOMAIN files' : files'[g] = files[g]
    BY <1>3
  <2>2. FilesNamed'
    <3>1. IsFiniteSet(DOMAIN files')
      BY <2>1, FS_Subset DEF FilesNamed
    <3>2. files' = [g \in DOMAIN files' |-> files'[g]]
      BY <1>3
    <3> QED BY <1>0, <2>1, <3>1, <3>2 DEF FilesNamed
  <2>3. ASSUME NEW v \in SnapURL \ misfiled' PROVE v # u /\ v \notin misfiled /\ OnFile(v)' = OnFile(v)
    <3>1. v # u /\ v \notin misfiled /\ (f \in DOMAIN files => files[f].url # v)
      BY <1>3, <2>3
    <3> QED BY <2>1, <3>1 DEF OnFile
  <2>4. LoadOK'
    <3> SUFFICES ASSUME loading, NEW v \in SnapURL \ misfiled'
                 PROVE  /\ Of(v, loaded) \subseteq OnFile(v)'
                        /\ \A g \in DOMAIN files' : files'[g].url = v => g \in toRead \/ files'[g] \in loaded
      BY <1>l DEF LoadOK, Of
    <3> QED BY <2>1, <2>3 DEF LoadOK
  <2> HIDE DEF f, victim
  <2> QED BY <1>3, <2>2, <2>3, <2>4
<1> HIDE DEF f, victim, late
<1>4. \/ UNCHANGED files /\ misfiled' = misfiled \cup {u}
      \/ /\ files' = [g \in DOMAIN files \cup {f} |-> IF g = f THEN snap ELSE files[g]]
         /\ misfiled' = misfiled \cup victim \cup late
      \/ files' = [g \in DOMAIN files \ {f} |-> files[g]] /\ misfiled' = misfiled \cup victim \cup {u}
  BY DEF persistSnapshot, f, victim, late
<1> QED BY <1>1, <1>2, <1>3, <1>4

(* A snapshot captured is the first in memory and, unless misfiled, on disk. *)
LEMMA CaptureKeeps ==
  ASSUME DetectorInv, NEW u \in SnapURL, NEW page, CaptureSnapshot(u, page)
  PROVE  DetectorInv'
<1>0. second' = second /\ UNCHANGED <<loading, toRead, loaded>>
  BY DEF CaptureSnapshot, loadVars
<1>1. CASE UNCHANGED <<snapshots, files, misfiled>>
  <2>1. UNCHANGED <<snapshots, files, misfiled, second>>
    BY <1>0, <1>1
  <2>2. FilesNamed'
    BY <2>1 DEF DetectorInv, FilesNamed
  <2>3. \A v : OnDisk(v)' = OnDisk(v)
    BY <2>1 DEF OnDisk, OnFile
  <2>4. MemoryKept'
    BY <2>1, <2>3 DEF DetectorInv, MemoryKept, Leads, IsSeq
  <2>5. LoadOK'
    BY <1>0, <2>1 DEF DetectorInv, LoadOK, Of, OnFile
  <2> QED BY <2>2, <2>4, <2>5 DEF DetectorInv
<1>2. ASSUME NEW snap, snap.url = u, snap.at \in 1..second,
             snapshots' = [snapshots EXCEPT ![u] = Newest(<<snap>> \o @)], persistSnapshot(u, snap)
      PROVE  DetectorInv'
  <2> DEFINE more == <<snap>> \o snapshots[u]
  <2>1. snap.at \in Nat
    BY <1>2 DEF DetectorInv, FilesNamed
  <2>2. /\ FilesNamed' /\ LoadOK' /\ misfiled \subseteq misfiled'
        /\ \A v \in SnapURL \ misfiled' : v # u => OnFile(v)' = OnFile(v)
        /\ u \notin misfiled' => /\ OnFile(u)' = OnFile(u) \cup {snap}
                                 /\ \A s \in OnFile(u) : s.at < snap.at
    BY <1>0, <1>2, FilesKept DEF DetectorInv, loadVars
  <2>3. /\ DOMAIN snapshots = SnapURL /\ IsSeq(snapshots[u]) /\ Len(snapshots[u]) \in Nat
        /\ Len(snapshots[u]) <= MaxSnapshots /\ (u \notin misfiled => Leads(u))
    BY OwnElements DEF DetectorInv, MemoryKept, IsSeq
  <2>4. /\ snapshots'[u] = Newest(more) /\ DOMAIN snapshots' = SnapURL
        /\ \A v \in SnapURL \ {u} : snapshots'[v] = snapshots[v]
    BY <1>2, <2>3
  <2>5. /\ IsSeq(more) /\ Len(more) = Len(snapshots[u]) + 1 /\ more[1] = snap
        /\ \A i \in 1..Len(snapshots[u]) : more[i + 1] = snapshots[u][i]
    BY <2>3, InFront
  <2> HIDE DEF more
  <2>6. /\ IsSeq(Newest(more)) /\ Len(Newest(more)) <= MaxSnapshots /\ Len(Newest(more)) \in Nat
        /\ Len(Newest(more)) <= Len(snapshots[u]) + 1
        /\ \A i \in 1..Len(Newest(more)) : Newest(more)[i] = more[i]
    <3>1. Len(more) \in Nat
      BY <2>3, <2>5
    <3>2. /\ IsSeq(Newest(more)) /\ Len(Newest(more)) \in Nat /\ Len(Newest(more)) <= MaxSnapshots
          /\ Len(Newest(more)) = IF Len(more) < MaxSnapshots THEN Len(more) ELSE MaxSnapshots
          /\ \A i \in 1..Len(Newest(more)) : Newest(more)[i] = more[i]
      BY <3>1, <2>5, NewestCuts
    <3> QED BY <3>1, <3>2, <2>3, <2>5, DetectorAssumption
  <2>7. ASSUME NEW v \in SnapURL PROVE IsSeq(snapshots[v])' /\ Len(snapshots[v])' <= MaxSnapshots
    <3>1. CASE v = u
      BY <2>4, <2>6, <3>1 DEF IsSeq
    <3>2. CASE v # u
      BY <2>4, <3>2 DEF DetectorInv, MemoryKept, IsSeq
    <3> QED BY <3>1, <3>2
  <2>8. ASSUME NEW v \in SnapURL \ misfiled', v # u PROVE Leads(v)'
    <3>1. OnFile(v)' = OnFile(v)
      BY <2>2, <2>8
    <3>2. OnDisk(v)' = OnDisk(v)
      BY <3>1 DEF OnDisk
    <3>3. v \notin misfiled /\ Leads(v) /\ snapshots'[v] = snapshots[v]
      BY <2>2, <2>4, <2>8 DEF DetectorInv, MemoryKept
    <3> QED BY <3>2, <3>3 DEF Leads
  <2>9. ASSUME u \notin misfiled' PROVE Leads(u)'
    <3>1. /\ Len(OnDisk(u)') = Len(OnDisk(u)) + 1 /\ OnDisk(u)'[1] = snap
          /\ \A i \in 1..Len(OnDisk(u)) : OnDisk(u)'[i + 1] = OnDisk(u)[i]
      BY <2>1, <2>2, <2>9, NewestFirst DEF DetectorInv
    <3>2. Len(OnDisk(u)) \in Nat
      BY DiskIsSeq DEF DetectorInv
    <3>3. Len(snapshots[u]) <= Len(OnDisk(u)) /\ \A i \in 1..Len(snapshots[u]) : snapshots[u][i] = OnDisk(u)[i]
      BY <2>2, <2>3, <2>9 DEF Leads
    <3>4. Len(Newest(more)) <= Len(OnDisk(u)')
      BY <2>3, <2>6, <3>1, <3>2, <3>3
    <3>5. ASSUME NEW i \in 1..Len(Newest(more)) PROVE Newest(more)[i] = OnDisk(u)'[i]
      <4>1. CASE i = 1
        BY <2>5, <2>6, <3>1, <4>1
      <4>2. CASE i # 1
        <5> DEFINE j == i - 1
        <5>1. j \in 1..Len(snapshots[u]) /\ j \in 1..Len(OnDisk(u)) /\ i = j + 1
          BY <2>3, <2>6, <3>2, <3>3, <4>2
        <5> HIDE DEF j
        <5>2. Newest(more)[i] = more[j + 1] /\ more[j + 1] = snapshots[u][j]
          BY <2>5, <2>6, <5>1
        <5> QED BY <3>1, <3>3, <5>1, <5>2
      <4> QED BY <4>1, <4>2
    <3> QED BY <2>4, <3>4, <3>5 DEF Leads
  <2> QED BY <2>2, <2>4, <2>7, <2>8, <2>9 DEF MemoryKept, DetectorInv
<1>3. CASE ~UNCHANGED <<snapshots, files, misfiled>>
  <2>1. PICK at \in 1..second :
          LET snap == [url |-> u, at |-> at, page |-> page] IN
          /\ snapshots' = [snapshots EXCEPT ![u] = Newest(<<snap>> \o @)]
          /\ persistSnapshot(u, snap)
    BY <1>3 DEF CaptureSnapshot
  <2> DEFINE snap == [url |-> u, at |-> at, page |-> page]
  <2>2. snap.url = u /\ snap.at \in 1..second
    OBVIOUS
  <2>3. snapshots' = [snapshots EXCEPT ![u] = Newest(<<snap>> \o @)] /\ persistSnapshot(u, snap)
    BY <2>1
  <2> HIDE DEF snap
  <2> QED BY <1>2, <2>2, <2>3
<1> QED BY <1>1, <1>3

(* What is read back is what is there; a cleanup finds nothing beyond the    *)
(* limit, and removes no file.                                               *)
LEMMA LoadKeeps ==
  ASSUME DetectorInv, LoadEnds \/ NewDetector \/ CleanupOldSnapshots
  PROVE  DetectorInv'
<1> DEFINE Kept(u, s) == IsSeq(s) /\ Len(s) \in Nat /\ Len(s) <= MaxSnapshots
                         /\ (u \notin misfiled => /\ Len(s) <= Len(OnDisk(u))
                                                  /\ \A i \in 1..Len(s) : s[i] = OnDisk(u)[i])
<1>1. \A u \in SnapURL : Kept(u, snapshots[u])
  BY OwnElements DEF DetectorInv, MemoryKept, Leads, IsSeq
<1>2. ASSUME loading, toRead = {}, NEW u \in SnapURL PROVE Kept(u, Newest(InOrder(Of(u, loaded))))
  <2> DEFINE q == InOrder(Of(u, loaded))
  <2>1. IsSeq(q) /\ Len(q) \in Nat
    <3>1. IsFiniteSet(Of(u, loaded))
      BY FS_Subset DEF DetectorInv, LoadOK, Of
    <3> QED BY <3>1, OrderIsSeq
  <2>2. ASSUME u \notin misfiled PROVE q = OnDisk(u)
    <3>1. Of(u, loaded) = OnFile(u)
      BY <1>2, <2>2 DEF DetectorInv, LoadOK, Of, OnFile
    <3> QED BY <3>1 DEF OnDisk
  <2> HIDE DEF q
  <2>3. /\ IsSeq(Newest(q)) /\ Len(Newest(q)) \in Nat /\ Len(Newest(q)) <= MaxSnapshots
        /\ Len(Newest(q)) = IF Len(q) < MaxSnapshots THEN Len(q) ELSE MaxSnapshots
        /\ \A i \in 1..Len(Newest(q)) : Newest(q)[i] = q[i]
    BY <2>1, NewestCuts
  <2>4. Len(Newest(q)) <= Len(q)
    BY <2>1, <2>3, DetectorAssumption
  <2>5. Kept(u, Newest(q))
    BY <2>2, <2>3, <2>4
  <2> QED BY <2>5 DEF q
<1>3. \A u : Kept(u, <<>>)
  <2>1. IsSeq(<<>>) /\ Len(<<>>) = 0
    BY NothingIsSeq
  <2>2. \A u : Len(OnDisk(u)) \in Nat
    BY DiskIsSeq DEF DetectorInv
  <2> QED BY <2>1, <2>2, DetectorAssumption
<1>4. ASSUME UNCHANGED <<files, second, misfiled>>, DOMAIN snapshots' = SnapURL,
             UNCHANGED loadVars \/ (loading' = FALSE /\ loaded' = {}),
             \A u \in SnapURL : Kept(u, snapshots'[u])
      PROVE  DetectorInv'
  <2>1. FilesNamed'
    BY <1>4 DEF DetectorInv, FilesNamed
  <2>2. \A u : OnDisk(u)' = OnDisk(u)
    BY <1>4 DEF OnDisk, OnFile
  <2>3. ASSUME NEW u \in SnapURL
        PROVE  /\ IsSeq(snapshots[u])' /\ Len(snapshots[u])' <= MaxSnapshots
               /\ (u \notin misfiled' => Leads(u)')
    BY <1>4, <2>2 DEF Leads, IsSeq
  <2>4. LoadOK'
    <3>1. CASE UNCHANGED loadVars
      BY <1>4, <3>1 DEF loadVars, DetectorInv, LoadOK, Of, OnFile
    <3>2. CASE loading' = FALSE /\ loaded' = {}
      BY <3>2, FS_EmptySet DEF LoadOK
    <3> QED BY <1>4, <3>1, <3>2
  <2> QED BY <1>4, <2>1, <2>3, <2>4 DEF MemoryKept, DetectorInv
<1>5. CASE LoadEnds
  <2>1. /\ DOMAIN snapshots' = SnapURL /\ UNCHANGED <<files, second, misfiled>>
        /\ loading /\ toRead = {} /\ loading' = FALSE /\ loaded' = {}
    BY <1>5 DEF LoadEnds
  <2>2. ASSUME NEW u \in SnapURL PROVE snapshots'[u] \in {snapshots[u], Newest(InOrder(Of(u, loaded)))}
    BY <1>5 DEF LoadEnds
  <2> HIDE DEF Kept
  <2>3. \A u \in SnapURL : Kept(u, snapshots'[u])
    BY <1>1, <1>2, <2>1, <2>2
  <2> QED BY <1>4, <2>1, <2>3
<1>6. CASE NewDetector
  <2>1. /\ DOMAIN snapshots' = SnapURL /\ UNCHANGED <<files, second, misfiled>>
        /\ loading' = FALSE /\ loaded' = {} /\ \A u \in SnapURL : snapshots'[u] = <<>>
    BY <1>6 DEF NewDetector
  <2> HIDE DEF Kept
  <2>2. \A u \in SnapURL : Kept(u, snapshots'[u])
    BY <1>3, <2>1
  <2> QED BY <1>4, <2>1, <2>2
<1>7. CASE CleanupOldSnapshots
  <2>1. ASSUME NEW u \in SnapURL
        PROVE  ToSet(SubSeq(snapshots[u], MaxSnapshots + 1, Len(snapshots[u]))) = {}
    <3>1. Len(snapshots[u]) \in Nat /\ Len(snapshots[u]) <= MaxSnapshots /\ MaxSnapshots \in Nat
      BY <1>1, DetectorAssumption
    <3>2. snapshots[u] \in Seq({snapshots[u][i] : i \in 1..Len(snapshots[u])})
      BY <1>1 DEF IsSeq
    <3>3. Len(SubSeq(snapshots[u], MaxSnapshots + 1, Len(snapshots[u]))) = 0
      BY <3>1, <3>2
    <3>4. SubSeq(snapshots[u], MaxSnapshots + 1, Len(snapshots[u])) = <<>>
      BY <3>1, <3>2, <3>3
    <3> QED BY <3>4, NothingIsSeq
  <2>2. UNCHANGED files
    <3> DEFINE beyond(u) == SubSeq(snapshots[u], MaxSnapshots + 1, Len(snapshots[u]))
               gone == UNION {{<<SafeName[u], s.at>> : s \in ToSet(beyond(u))} : u \in SnapURL}
    <3>1. gone = {}
      BY <2>1
    <3>2. files' = [f \in DOMAIN files \ gone |-> files[f]]
      BY <1>7 DEF CleanupOldSnapshots
    <3> HIDE DEF gone
    <3>3. files' = [f \in DOMAIN files |-> files[f]]
      BY <3>1, <3>2
    <3> QED BY <3>3 DEF DetectorInv, FilesNamed
  <2>3. /\ DOMAIN snapshots' = SnapURL /\ UNCHANGED <<second, misfiled, loadVars>>
        /\ \A u \in SnapURL : snapshots'[u] = Newest(snapshots[u])
    BY <1>7 DEF CleanupOldSnapshots
  <2>4. ASSUME NEW u \in SnapURL PROVE Kept(u, Newest(snapshots[u]))
    <3>1. /\ IsSeq(Newest(snapshots[u])) /\ Len(Newest(snapshots[u])) \in Nat
          /\ Len(Newest(snapshots[u])) <= MaxSnapshots
          /\ Len(Newest(snapshots[u])) =
               IF Len(snapshots[u]) < MaxSnapshots THEN Len(snapshots[u]) ELSE MaxSnapshots
          /\ \A i \in 1..Len(Newest(snapshots[u])) : Newest(snapshots[u])[i] = snapshots[u][i]
      BY <1>1, NewestCuts
    <3>2. Len(Newest(snapshots[u])) <= Len(snapshots[u])
      BY <1>1, <3>1, DetectorAssumption
    <3>3. u \notin misfiled => Len(OnDisk(u)) \in Nat
      BY DiskIsSeq DEF DetectorInv
    <3> QED BY <1>1, <3>1, <3>2, <3>3
  <2> HIDE DEF Kept
  <2>5. \A u \in SnapURL : Kept(u, snapshots'[u])
    BY <2>3, <2>4
  <2> QED BY <1>4, <2>2, <2>3, <2>5
<1> QED BY <1>5, <1>6, <1>7

(* The steps of a load that leave the memory alone. *)
LEMMA ReadKeeps ==
  ASSUME DetectorInv, LoadBegins \/ \E f \in toRead : LoadReads(f)
  PROVE  DetectorInv'
<1>1. /\ UNCHANGED <<snapshots, files, second>> /\ misfiled \subseteq misfiled'
      /\ FilesNamed' /\ \A u : OnFile(u)' = OnFile(u) /\ OnDisk(u)' = OnDisk(u)
  BY DEF LoadBegins, LoadReads, DetectorInv, FilesNamed, OnFile, OnDisk
<1>2. MemoryKept'
  BY <1>1 DEF DetectorInv, MemoryKept, Leads, IsSeq
<1>3. CASE LoadBegins
  <2>1. LoadOK'
    BY <1>1, <1>3, FS_EmptySet DEF LoadBegins, LoadOK, Of
  <2> QED BY <1>1, <1>2, <2>1 DEF DetectorInv
<1>4. ASSUME NEW f \in toRead, LoadReads(f) PROVE DetectorInv'
  <2> DEFINE there == {files[g] : g \in {f} \cap DOMAIN files}
  <2>1. /\ loading /\ loading' = loading /\ toRead' = toRead \ {f}
        /\ \/ loaded' = loaded \cup there /\ misfiled' = misfiled
           \/ misfiled' = misfiled \cup {s.url : s \in there} /\ loaded' = loaded
    BY <1>4 DEF LoadReads
  <2>2. IsFiniteSet(loaded')
    <3>1. there = {} \/ there = {files[f]}
      OBVIOUS
    <3>2. IsFiniteSet(loaded)
      BY DEF DetectorInv, LoadOK
    <3> HIDE DEF there
    <3>3. IsFiniteSet(loaded \cup {files[f]})
      BY <3>2, FS_AddElement
    <3>4. IsFiniteSet(loaded \cup there)
      <4>1. CASE there = {}
        <5>1. loaded \cup there = loaded
          BY <4>1
        <5> QED BY <3>2, <5>1
      <4>2. CASE there = {files[f]}
        BY <3>3, <4>2
      <4> QED BY <3>1, <4>1, <4>2
    <3> QED BY <2>1, <3>2, <3>4
  <2>3. ASSUME NEW u \in SnapURL \ misfiled'
        PROVE  /\ Of(u, loaded') \subseteq OnFile(u)
               /\ \A g \in DOMAIN files : files[g].url = u => g \in toRead' \/ files[g] \in loaded'
    <3>1. u \notin misfiled
      BY <1>1, <2>3
    <3>2. Of(u, there) \subseteq OnFile(u)
      BY DEF Of, OnFile
    <3>3. Of(u, loaded') \subseteq OnFile(u)
      BY <2>1, <3>1, <3>2 DEF DetectorInv, LoadOK, Of
    <3>4. ASSUME f \in DOMAIN files, files[f].url = u PROVE files[f] \in loaded'
      BY <2>1, <2>3, <3>4
    <3> QED BY <2>1, <3>1, <3>3, <3>4 DEF DetectorInv, LoadOK
  <2>4. LoadOK'
    BY <1>1, <2>2, <2>3 DEF LoadOK, Of
  <2> QED BY <1>1, <1>2, <2>4 DEF DetectorInv
<1> QED BY <1>3, <1>4

(* HistoryTrue: whatever captures, loads, restarts and cleanups come in which *)
(* seconds and in between one another, and whichever files of other URLs are  *)
(* overwritten, not written or skipped (changedetection/detector.go:          *)
(* CaptureSnapshot, persistSnapshot, LoadSnapshots).                          *)
THEOREM DetectorHistoryTrue == DetectorSpec => []HistoryTrue
<1>1. DetectorInit => DetectorInv
  <2> SUFFICES ASSUME DetectorInit PROVE DetectorInv
    OBVIOUS
  <2>1. FilesNamed
    <3>1. DOMAIN files = {} /\ files = <<>> /\ second = 1
      BY DEF DetectorInit
    <3>2. files = [f \in DOMAIN files |-> files[f]]
      BY <3>1
    <3> QED BY <3>1, <3>2, FS_EmptySet DEF FilesNamed
  <2>2. ASSUME NEW u \in SnapURL PROVE IsSeq(snapshots[u]) /\ Len(snapshots[u]) <= MaxSnapshots /\ Leads(u)
    <3>1. snapshots[u] = <<>> /\ IsSeq(<<>>) /\ Len(<<>>) = 0
      BY NothingIsSeq DEF DetectorInit
    <3>2. Len(OnDisk(u)) \in Nat
      BY <2>1, DiskIsSeq
    <3> QED BY <3>1, <3>2, DetectorAssumption DEF Leads
  <2> QED BY <2>1, <2>2, FS_EmptySet DEF DetectorInit, DetectorInv, MemoryKept, LoadOK
<1>2. DetectorInv /\ [DetectorNext]_dvars => DetectorInv'
  <2> SUFFICES ASSUME DetectorInv, [DetectorNext]_dvars PROVE DetectorInv'
    OBVIOUS
  <2>1. ASSUME UNCHANGED <<snapshots, files, misfiled, loadVars>>, second' \in {second, second + 1}
        PROVE  DetectorInv'
    <3>1. FilesNamed'
      <4>1. second \in Nat /\ second' \in Nat /\ second <= second'
        BY <2>1 DEF DetectorInv, FilesNamed
      <4> QED BY <2>1, <4>1 DEF DetectorInv, FilesNamed
    <3>2. \A u : OnFile(u)' = OnFile(u) /\ OnDisk(u)' = OnDisk(u)
      BY <2>1 DEF OnDisk, OnFile
    <3>3. MemoryKept'
      BY <2>1, <3>2 DEF DetectorInv, MemoryKept, Leads, IsSeq
    <3>4. LoadOK'
      BY <2>1, <3>2 DEF DetectorInv, LoadOK, loadVars, Of
    <3> QED BY <3>1, <3>3, <3>4 DEF DetectorInv
  <2>2. CASE NextSecond \/ UNCHANGED dvars
    BY <2>1, <2>2 DEF NextSecond, dvars, loadVars
  <2> QED BY <2>2, CaptureKeeps, LoadKeeps, ReadKeeps DEF DetectorNext
<1>3. DetectorInv => HistoryTrue
  <2> SUFFICES ASSUME DetectorInv, NEW u \in SnapURL \ misfiled
               PROVE  LET disk == Newest(InOrder(OnFile(u)))
                      IN Len(snapshots[u]) <= Len(disk) /\ SubSeq(disk, 1, Len(snapshots[u])) = snapshots[u]
    BY DEF HistoryTrue
  <2> DEFINE s == snapshots[u]
             d == Newest(OnDisk(u))
  <2>1. IsSeq(s) /\ Len(s) \in Nat /\ Len(s) <= MaxSnapshots /\ Leads(u)
    BY OwnElements DEF DetectorInv, MemoryKept, IsSeq
  <2>2. IsSeq(OnDisk(u)) /\ Len(OnDisk(u)) \in Nat
    BY DiskIsSeq DEF DetectorInv
  <2>3. /\ IsSeq(d) /\ Len(d) \in Nat
        /\ Len(d) = IF Len(OnDisk(u)) < MaxSnapshots THEN Len(OnDisk(u)) ELSE MaxSnapshots
        /\ \A i \in 1..Len(d) : d[i] = OnDisk(u)[i]
    BY <2>2, NewestCuts
  <2>4. Len(s) <= Len(d) /\ \A i \in 1..Len(s) : s[i] = d[i]
    <3>1. Len(s) <= Len(OnDisk(u)) /\ \A i \in 1..Len(s) : s[i] = OnDisk(u)[i]
      BY <2>1 DEF Leads
    <3>2. Len(s) <= Len(d)
      BY <2>1, <2>2, <2>3, <3>1, DetectorAssumption
    <3> QED BY <2>1, <2>3, <3>1, <3>2
  <2> HIDE DEF s, d
  <2>5. SubSeq(d, 1, Len(s)) = s
    <3> DEFINE e == SubSeq(d, 1, Len(s))
               S == {d[i] : i \in 1..Len(d)}
    <3>1. d \in Seq(S)
      BY <2>3 DEF IsSeq
    <3> HIDE DEF S
    <3>2. e \in Seq(S) /\ Len(e) = Len(s) /\ \A i \in 1..Len(s) : e[i] = d[i]
      BY <2>1, <2>3, <2>4, <3>1
    <3>3. s \in Seq({s[i] : i \in 1..Len(s)})
      BY <2>1 DEF IsSeq
    <3> HIDE DEF e
    <3>4. e = [i \in 1..Len(s) |-> e[i]] /\ s = [i \in 1..Len(s) |-> s[i]]
      BY <3>2, <3>3
    <3>5. e = s
      BY <2>4, <3>2, <3>4
    <3> QED BY <3>5 DEF e
  <2> QED BY <2>4, <2>5 DEF s, d, OnDisk
<1> QED BY <1>1, <1>2, <1>3, PTL DEF DetectorSpec

=============================================================================
