---------------------------- MODULE AssetDownloader ----------------------------
(***************************************************************************)
(* internal/crawler/asset_downloader.go: workers between two bounded       *)
(* channels, and Execute, which starts them, submits every request of a    *)
(* page, then collects as many results, and stops them when it returns.    *)
(***************************************************************************)
EXTENDS Naturals, Sequences, FiniteSets, SequencesExt

CONSTANTS
  Request,       \* requests of the page
  Downloader,    \* workers
  ChanSize,      \* capacity of each channel: four times the workers
  NoRequest

ASSUME DownloaderAssumption == IsFiniteSet(Request) /\ NoRequest \notin Request

VARIABLES
  xpc,           \* Execute: "idle", "submit", "collect", "stop", "ok", "failed", "panic"
  toSubmit,      \* requests not submitted
  queueChan, resultChan,   \* b.queue, b.results
  open,          \* the channels are not closed
  stopDone,      \* b.ctx is done
  wpc, has,      \* a worker: "none", "idle", "work", "send"; its request
  answers,       \* p.results: the requests that have one
  completed,     \* results collected by Execute
  withError      \* Execute returns its context's error

xvars == <<xpc, toSubmit, queueChan, resultChan, open, stopDone, wpc, has, answers, completed, withError>>

DownloaderInit ==
  /\ xpc = "idle" /\ toSubmit = {} /\ queueChan = <<>> /\ resultChan = <<>> /\ open = TRUE
  /\ stopDone = FALSE /\ wpc = [w \in Downloader |-> "none"]
  /\ has = [w \in Downloader |-> NoRequest] /\ answers = {} /\ completed = 0 /\ withError = FALSE

ExecuteGoes(from, to) == xpc \in from /\ xpc' = to

-----------------------------------------------------------------------------
(* Execute of the first page, then of others on the same downloader: what    *)
(* the manager's loop over pages does.                                       *)
StartWorkers ==
  /\ ExecuteGoes({"idle", "ok", "failed"}, "submit") /\ toSubmit' = Request /\ completed' = 0
  /\ wpc' = [w \in Downloader |-> "idle"] /\ withError' = FALSE
  /\ UNCHANGED <<queueChan, resultChan, open, stopDone, has, answers>>

(* A send on a closed channel panics, in a select as well. *)
SubmitOne(r) ==
  /\ xpc = "submit" /\ r \in toSubmit
  /\ \/ open /\ Len(queueChan) < ChanSize /\ queueChan' = Append(queueChan, r)
        /\ toSubmit' = toSubmit \ {r} /\ UNCHANGED xpc
     \/ ~open /\ xpc' = "panic" /\ UNCHANGED <<queueChan, toSubmit>>
  /\ UNCHANGED <<resultChan, open, stopDone, wpc, has, answers, completed, withError>>

AllSubmitted ==
  /\ toSubmit = {} /\ ExecuteGoes({"submit"}, "collect")
  /\ UNCHANGED <<toSubmit, queueChan, resultChan, open, stopDone, wpc, has, answers, completed, withError>>

CollectOne ==
  /\ xpc = "collect" /\ completed < Cardinality(Request) /\ resultChan # <<>>
  /\ answers' = answers \cup {Head(resultChan)} /\ resultChan' = Tail(resultChan)
  /\ completed' = completed + 1
  /\ UNCHANGED <<xpc, toSubmit, queueChan, open, stopDone, wpc, has, withError>>

(* All collected, or the caller's context ends; the deferred Stop cancels.   *)
Finish ==
  /\ \/ completed = Cardinality(Request) /\ ExecuteGoes({"collect"}, "stop") /\ withError' = FALSE
     \/ ExecuteGoes({"submit", "collect"}, "stop") /\ withError' = TRUE
  /\ stopDone' = TRUE
  /\ UNCHANGED <<toSubmit, queueChan, resultChan, open, wpc, has, answers, completed>>

(* Stop waits for the workers and closes the channels. *)
StopDownloader ==
  /\ \A w \in Downloader : wpc[w] = "none"
  /\ ExecuteGoes({"stop"}, IF open THEN (IF withError THEN "failed" ELSE "ok") ELSE "panic")
  /\ open' = FALSE
  /\ UNCHANGED <<toSubmit, queueChan, resultChan, stopDone, wpc, has, answers, completed, withError>>

WorkerGoes(w, from, to) == wpc[w] \in from /\ wpc' = [wpc EXCEPT ![w] = to]

Receive(w) ==
  /\ queueChan # <<>> /\ WorkerGoes(w, {"idle"}, "work")
  /\ has' = [has EXCEPT ![w] = Head(queueChan)] /\ queueChan' = Tail(queueChan)
  /\ UNCHANGED <<xpc, toSubmit, resultChan, open, stopDone, answers, completed, withError>>

(* A body or an error: a result either way. *)
DownloadAsset(w) ==
  /\ WorkerGoes(w, {"work"}, "send")
  /\ UNCHANGED <<xpc, toSubmit, queueChan, resultChan, open, stopDone, has, answers, completed, withError>>

(* Fault: the result is dropped when the channel is full, as the comment     *)
(* says ("non-blocking with select").                                        *)
SendResult_NonBlocking(w) ==
  /\ WorkerGoes(w, {"send"}, "idle") /\ has' = [has EXCEPT ![w] = NoRequest]
  /\ resultChan' = IF Len(resultChan) < ChanSize THEN Append(resultChan, has[w]) ELSE resultChan
  /\ UNCHANGED <<xpc, toSubmit, queueChan, open, stopDone, answers, completed, withError>>

SendResult(w) ==
  /\ Len(resultChan) < ChanSize /\ WorkerGoes(w, {"send"}, "idle")
  /\ has' = [has EXCEPT ![w] = NoRequest] /\ resultChan' = Append(resultChan, has[w])
  /\ UNCHANGED <<xpc, toSubmit, queueChan, open, stopDone, answers, completed, withError>>

WorkerStops(w) ==
  /\ (stopDone \/ ~open) /\ WorkerGoes(w, {"idle", "send"}, "none")
  /\ has' = [has EXCEPT ![w] = NoRequest]
  /\ UNCHANGED <<xpc, toSubmit, queueChan, resultChan, open, stopDone, answers, completed, withError>>

DownloaderNext ==
  \/ StartWorkers \/ AllSubmitted \/ CollectOne \/ Finish \/ StopDownloader
  \/ \E r \in Request : SubmitOne(r)
  \/ \E w \in Downloader : Receive(w) \/ DownloadAsset(w) \/ SendResult(w) \/ WorkerStops(w)

-----------------------------------------------------------------------------
(* Until Execute gives up, every request is somewhere: not submitted, in a   *)
(* channel, with a worker or answered.  So collecting as many results as     *)
(* there are requests is answering each, in whatever order they come.        *)
NoRequestLost ==
  /\ xpc \in {"submit", "collect"} /\ open =>
       Request \subseteq toSubmit \cup answers \cup {has[w] : w \in Downloader}
                           \cup ToSet(queueChan) \cup ToSet(resultChan)
  /\ xpc = "ok" => answers = Request
=============================================================================
