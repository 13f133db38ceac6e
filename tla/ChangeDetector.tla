----------------------------- MODULE ChangeDetector -----------------------------
(***************************************************************************)
(* internal/changedetection: snapshots of pages, the newest few per URL in *)
(* memory and one file each on disk, named by the URL with its separators  *)
(* replaced and by the second.  Captures come from any goroutine and take  *)
(* the time before they take the lock; a load reads the files without it.  *)
(* Comparing two snapshots changes nothing and is left out.                *)
(***************************************************************************)
EXTENDS Naturals, Sequences, SequencesExt, FiniteSets

CONSTANTS
  SnapURL,       \* page URLs
  SafeName,      \* SafeName[u]: the name persistSnapshot makes of u; may repeat
  HTML,          \* what a page may be, as its hash tells it
  MaxSnapshots,  \* config.MaxSnapshots
  MaxSecond      \* bound of the clock

ASSUME DetectorAssumption == MaxSnapshots \in Nat

VARIABLES
  snapshots,     \* d.snapshots[u], newest first
  files,         \* files[n]: the snapshot in each file of SnapshotDir that can be parsed
  second,        \* the clock, in the seconds that name files
  loading,       \* LoadSnapshots is going on
  toRead,        \* the names it has listed and not read
  loaded,        \* the snapshots it has read
  misfiled       \* history: URLs with a snapshot that was not written, was overwritten or
                 \* skipped by a load, overtook an older one, or came during a load

loadVars == <<loading, toRead, loaded>>
dvars == <<snapshots, files, second, loadVars, misfiled>>

Newest(s) == SubSeq(s, 1, IF Len(s) < MaxSnapshots THEN Len(s) ELSE MaxSnapshots)
OnFile(u) == {files[f] : f \in {g \in DOMAIN files : files[g].url = u}}

DetectorInit ==
  /\ snapshots = [u \in SnapURL |-> <<>>] /\ files = <<>> /\ second = 1
  /\ loading = FALSE /\ toRead = {} /\ loaded = {} /\ misfiled = {}

NextSecond ==
  /\ second < MaxSecond /\ second' = second + 1
  /\ UNCHANGED <<snapshots, files, loadVars, misfiled>>

-----------------------------------------------------------------------------
(* persistSnapshot: the file may exist, for a second snapshot in a second or *)
(* for another URL; and the write may fail, which is logged, before or after *)
(* it has emptied the file.                                                  *)
persistSnapshot(u, snap) ==
  LET f == <<SafeName[u], snap.at>>
      known == DOMAIN files
      victim == IF f \in known THEN {files[f].url} ELSE {}
      late == IF loading \/ \E s \in OnFile(u) : s.at >= snap.at THEN {u} ELSE {} IN
  \/ /\ files' = [g \in known \cup {f} |-> IF g = f THEN snap ELSE files[g]]
     /\ misfiled' = misfiled \cup victim \cup late
  \/ UNCHANGED files /\ misfiled' = misfiled \cup {u}
  \/ files' = [g \in known \ {f} |-> files[g]] /\ misfiled' = misfiled \cup victim \cup {u}

(* CaptureSnapshot: a page that has not changed is not captured again.       *)
CaptureSnapshot(u, page) ==
  /\ IF snapshots[u] # <<>> /\ Head(snapshots[u]).page = page
       THEN UNCHANGED <<snapshots, files, misfiled>>
       ELSE \E at \in 1..second :
            LET snap == [url |-> u, at |-> at, page |-> page] IN
            /\ snapshots' = [snapshots EXCEPT ![u] = Newest(<<snap>> \o @)]
            /\ persistSnapshot(u, snap)
  /\ UNCHANGED <<second, loadVars>>

-----------------------------------------------------------------------------
(* Snapshots in their order, newest first: the i-th is the one that i - 1    *)
(* are newer than.                                                           *)
Newer(s, S) == {t \in S : t.at > s.at}
Ranked(S, i) == {s \in S : Cardinality(Newer(s, S)) = i - 1}
InOrder(S) == [i \in 1..Cardinality(S) |-> CHOOSE s \in Ranked(S, i) : TRUE]
Of(u, S) == {s \in S : s.url = u}

(* LoadSnapshots lists the directory, ... *)
LoadBegins ==
  /\ ~loading /\ loading' = TRUE /\ toRead' = DOMAIN files /\ loaded' = {}
  /\ UNCHANGED <<snapshots, files, second, misfiled>>

(* ... reads the files one by one, as they are by then, and skips those it   *)
(* cannot read or parse ...                                                  *)
LoadReads(f) ==
  LET there == {files[g] : g \in {f} \cap DOMAIN files} IN
  /\ loading /\ f \in toRead /\ toRead' = toRead \ {f}
  /\ \/ loaded' = loaded \cup there /\ UNCHANGED misfiled
     \/ misfiled' = misfiled \cup {s.url : s \in there} /\ UNCHANGED loaded
  /\ UNCHANGED <<snapshots, files, second, loading>>

(* Fault: the oldest of the files are kept. *)
LoadEnds_Oldest ==
  /\ loading /\ toRead = {} /\ loading' = FALSE /\ loaded' = {}
  /\ snapshots' = [u \in SnapURL |->
       IF Of(u, loaded) = {} THEN snapshots[u] ELSE Newest(Reverse(InOrder(Of(u, loaded))))]
  /\ UNCHANGED <<files, second, toRead, misfiled>>

(* ... and replaces by them what is in memory.                               *)
LoadEnds ==
  /\ loading /\ toRead = {} /\ loading' = FALSE /\ loaded' = {}
  /\ snapshots' = [u \in SnapURL |->
       IF Of(u, loaded) = {} THEN snapshots[u] ELSE Newest(InOrder(Of(u, loaded)))]
  /\ UNCHANGED <<files, second, toRead, misfiled>>

(* Another run starts with an empty detector. *)
NewDetector ==
  /\ snapshots' = [u \in SnapURL |-> <<>>] /\ loading' = FALSE /\ toRead' = {} /\ loaded' = {}
  /\ UNCHANGED <<files, second, misfiled>>

(* CleanupOldSnapshots removes the files of the snapshots beyond the limit   *)
(* that are in memory, where the other operations leave none.                *)
CleanupOldSnapshots ==
  LET beyond(u) == SubSeq(snapshots[u], MaxSnapshots + 1, Len(snapshots[u]))
      gone == UNION {{<<SafeName[u], s.at>> : s \in ToSet(beyond(u))} : u \in SnapURL} IN
  /\ files' = [f \in DOMAIN files \ gone |-> files[f]]
  /\ snapshots' = [u \in SnapURL |-> Newest(snapshots[u])]
  /\ UNCHANGED <<second, loadVars, misfiled>>

DetectorNext ==
  \/ NextSecond \/ LoadBegins \/ LoadEnds \/ NewDetector \/ CleanupOldSnapshots
  \/ \E f \in toRead : LoadReads(f)
  \/ \E u \in SnapURL, page \in HTML : CaptureSnapshot(u, page)

-----------------------------------------------------------------------------
(* The snapshots in memory are the newest ones on disk, in their order, for  *)
(* a URL none of whose snapshots was misfiled: what a later run loads and    *)
(* compares with is what this run would have compared with.                  *)
HistoryTrue ==
  \A u \in SnapURL \ misfiled :
    snapshots[u] = <<>> \/ LET disk == Newest(InOrder(OnFile(u)))
                           IN Len(snapshots[u]) <= Len(disk)
                              /\ SubSeq(disk, 1, Len(snapshots[u])) = snapshots[u]
=============================================================================
