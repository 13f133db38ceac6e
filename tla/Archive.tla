-------------------------------- MODULE Archive --------------------------------
(***************************************************************************)
(* What a crawl archives: the WARC and WACZ writers every page goroutine   *)
(* and every API callback writes to (writeRecord), one after the other,    *)
(* until closeWriters, which closes one after the other and ignores what   *)
(* they return; and the cache of validation headers, saved in two steps at *)
(* the end.                                                                *)
(***************************************************************************)
EXTENDS Naturals, FiniteSets

CONSTANTS
  Record,        \* captured responses
  MaxRecords,    \* maxSize of both writers, counted in records of size 1
  CacheURL,      \* URLs with validation headers
  MaxETag        \* bound: changes of the headers

VARIABLES
  stage,         \* stage[r]: writeRecord: "new", "wacz" when the WARC writer is through, "done"
  warcTook,      \* history: records WARCWriter.WriteRecord accepted before its Close
  warcFile,      \* WARC: "none", "open", "bad" once its gzip stream has failed, which
                 \* then refuses everything, or "closed" by Close and still set
  inFile,        \* records accepted for the file that is set
  finished,      \* records in files whose stream was ended
  torn,          \* records in files whose stream failed, or could not be ended
  waczTook,      \* history: records WACZWriter.WriteRecord accepted before its Close
  stream,        \* WACZ: w.gzipW is set
  inStream,      \* records in the gzip stream being written to w.buf
  inBuf,         \* records in ended streams of w.buf
  zipped,        \* records in the .wacz file
  zipFailed,     \* WACZWriter.Close failed, or the zip or the file it defers to close
  archiveClosing, \* closeWriters: "no", "wacz" when the WARC writer is closed, "done"
  etag,          \* entries[u] of the resource cache: a version of the headers
  dirty,         \* c.dirty
  saving,        \* Save: "idle", or "write" once it has copied the entries
  copied,        \* the entries it has copied
  onDisk         \* the entries in the cache file

warcVars == <<warcTook, warcFile, inFile, finished, torn>>
waczVars == <<waczTook, stream, inStream, inBuf, zipped, zipFailed>>
avars == <<stage, archiveClosing, warcVars, waczVars>>
kvars == <<etag, dirty, saving, copied, onDisk>>

ArchiveInit ==
  /\ stage = [r \in Record |-> "new"] /\ archiveClosing = "no"
  /\ warcTook = {} /\ warcFile = "none" /\ inFile = {} /\ finished = {} /\ torn = {}
  /\ waczTook = {} /\ stream = FALSE /\ inStream = {} /\ inBuf = {} /\ zipped = {}
  /\ zipFailed = FALSE
  /\ etag = [u \in CacheURL |-> 0] /\ onDisk = etag /\ copied = etag
  /\ dirty = FALSE /\ saving = "idle"

-----------------------------------------------------------------------------
(* A file's stream and the file itself are closed; errors are not looked at. *)
EndFile(in) ==
  /\ inFile' = {}
  /\ \/ finished' = finished \cup in /\ UNCHANGED torn
     \/ torn' = torn \cup in /\ UNCHANGED finished

(* WARCWriter.WriteRecord opens a file if none is set and ends it when it is *)
(* full; a file it opens after Close is never ended.                         *)
AcceptWARC(r) ==
  LET in == inFile \cup {r} IN
  /\ warcFile \in {"none", "open"}
  /\ warcTook' = IF archiveClosing = "no" THEN warcTook \cup {r} ELSE warcTook
  /\ IF Cardinality(in) >= MaxRecords
       THEN warcFile' = "none" /\ EndFile(in)
       ELSE warcFile' = "open" /\ inFile' = in /\ UNCHANGED <<finished, torn>>

(* The file cannot be opened; its stream fails, and is never replaced; or    *)
(* Close has ended it.                                                       *)
RefuseWARC ==
  /\ warcFile' \in CASE warcFile = "none" -> {"none", "bad"} [] warcFile = "open" -> {"bad"}
                     [] OTHER -> {warcFile}
  /\ UNCHANGED <<warcTook, inFile, finished, torn>>

WriteWARC(r) ==
  /\ stage[r] = "new" /\ stage' = [stage EXCEPT ![r] = "wacz"]
  /\ AcceptWARC(r) \/ RefuseWARC
  /\ UNCHANGED <<archiveClosing, waczVars, kvars>>

(* WACZWriter.WriteRecord, whose stream goes to memory and does not fail;    *)
(* w.records is what the two sets hold.                                      *)
WriteWACZ(r) ==
  LET in == inStream \cup {r} IN
  /\ stage[r] = "wacz" /\ stage' = [stage EXCEPT ![r] = "done"]
  /\ stream' = TRUE /\ waczTook' = IF archiveClosing = "done" THEN waczTook ELSE waczTook \cup {r}
  /\ IF Cardinality(in) >= MaxRecords THEN inStream' = {} /\ inBuf' = inBuf \cup in
     ELSE inStream' = in /\ UNCHANGED inBuf
  /\ UNCHANGED <<archiveClosing, warcVars, zipped, zipFailed, kvars>>

writeRecord(r) == WriteWARC(r) \/ WriteWACZ(r)

(* WARCWriter.Close ends the stream but keeps both pointers.                 *)
CloseWARC ==
  /\ archiveClosing = "no" /\ archiveClosing' = "wacz"
  /\ warcFile' = IF warcFile = "none" THEN "none" ELSE "closed"
  /\ IF warcFile = "bad" THEN torn' = torn \cup inFile /\ inFile' = {} /\ UNCHANGED finished
     ELSE EndFile(inFile)
  /\ UNCHANGED <<stage, warcTook, waczVars, kvars>>

(* Fault: Close writes the archive before it ends the stream. *)
CloseWACZ_Unended ==
  /\ archiveClosing = "wacz" /\ archiveClosing' = "done"
  /\ stream' = FALSE /\ zipped' = inBuf
  /\ inBuf' = inBuf \cup inStream /\ inStream' = {}
  /\ UNCHANGED <<stage, warcVars, waczTook, zipFailed, kvars>>

(* WACZWriter.Close ends the stream and writes buffer, index and metadata; a *)
(* failure leaves no archive, or one that cannot be read.                    *)
CloseWACZ ==
  /\ archiveClosing = "wacz" /\ archiveClosing' = "done"
  /\ stream' = FALSE /\ inBuf' = inBuf \cup inStream /\ inStream' = {}
  /\ \/ zipped' = inBuf' /\ UNCHANGED zipFailed
     \/ zipFailed' = TRUE /\ UNCHANGED zipped
  /\ UNCHANGED <<stage, warcVars, waczTook, kvars>>

closeWriters == CloseWARC \/ CloseWACZ

-----------------------------------------------------------------------------
(* UpdateFromResponse changes the entry in place, so that a copy of the map  *)
(* that has it shows the change until it is encoded.                         *)
UpdateFromResponse(u) ==
  /\ etag[u] < MaxETag
  /\ etag' = [etag EXCEPT ![u] = @ + 1] /\ dirty' = TRUE
  /\ IF saving = "write" /\ copied[u] = etag[u] /\ etag[u] > 0
       THEN copied' \in {copied, [copied EXCEPT ![u] = @ + 1]}
       ELSE UNCHANGED copied
  /\ UNCHANGED <<saving, onDisk, avars>>

(* Fault: dirty is reset once the file is written. *)
SaveWrite_ResetsDirty ==
  /\ saving = "write" /\ saving' = "idle" /\ dirty' = FALSE /\ onDisk' = copied
  /\ UNCHANGED <<etag, copied, avars>>

SaveCopy ==
  /\ saving = "idle" /\ dirty /\ dirty' = FALSE
  /\ copied' = etag /\ saving' = "write"
  /\ UNCHANGED <<etag, onDisk, avars>>

SaveWrite ==
  /\ saving = "write" /\ saving' = "idle"
  /\ \/ onDisk' = copied /\ UNCHANGED dirty
     \/ dirty' = TRUE /\ UNCHANGED onDisk
  /\ UNCHANGED <<etag, copied, avars>>

ArchiveNext ==
  \/ \E r \in Record : writeRecord(r)
  \/ closeWriters \/ SaveCopy \/ SaveWrite
  \/ \E u \in CacheURL : UpdateFromResponse(u)

ArchiveSpec == ArchiveInit /\ [][ArchiveNext]_<<avars, kvars>>

-----------------------------------------------------------------------------
(* Each writer, once it is closed, has let go of nothing it accepted: what    *)
(* the WARC writer accepted before is in a file that ends properly, unless a   *)
(* write to that file or its end failed; what the WACZ writer accepted before  *)
(* is in the archive, unless writing the archive failed.  Nobody is told of a  *)
(* failure, and what comes after the close may be in neither.                  *)
ArchiveComplete ==
  /\ archiveClosing # "no" => warcTook \subseteq finished \cup torn
  /\ archiveClosing = "done" /\ ~zipFailed => waczTook \subseteq zipped

(* The cache on disk is behind the one in memory only while a save is under  *)
(* way or the cache is marked as dirty: no update is lost between the copy   *)
(* and the write of a save, nor by a write that fails.                       *)
CacheNotStale == onDisk = etag \/ dirty \/ saving = "write"
=============================================================================
