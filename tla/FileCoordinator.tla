--------------------------- MODULE FileCoordinator ---------------------------
(***************************************************************************)
(* internal/coordinator/file_coordinator.go: leader election among the     *)
(* crawler processes of one machine by flock on the file leader.lock.      *)
(*                                                                         *)
(* A lock belongs to a file, not to its name: a process that has opened    *)
(* leader.lock holds or waits for the lock of that file also after the     *)
(* name was removed, while the next process that opens the name creates    *)
(* another file.  The kernel releases the locks of a process that dies.    *)
(***************************************************************************)
EXTENDS Naturals, FiniteSets

CONSTANTS
  Process,    \* crawler processes, each with a worker ID of its own
  File,       \* files leader.lock may name; bound: how many exist at once
  Nil        \* no file, no process

ASSUME FileCoordinatorAssumption == Nil \notin Process \cup File

VARIABLES
  phase,      \* phase[p]: the life of the process
  pc,         \* pc[p]: where its heartbeat loop is
  fd,         \* fd[p]: the file AcquireLock has opened, or Nil
  held,       \* held[p]: the file in fc.lockFiles["leader"], or Nil
  leaderID,   \* leaderID[p]: fc.leaderID
  name,       \* the file that leader.lock names, or Nil
  flock,      \* flock[f]: the process that has the lock of file f, or Nil
  content,    \* content[f]: the worker ID written in file f, or Nil
  removed     \* history: a process has removed the name leader.lock

cvars == <<phase, pc, fd, held, leaderID, name, flock, content, removed>>
files == <<name, flock, content, removed>>

CoordinatorInit ==
  /\ phase = [p \in Process |-> "new"] /\ pc = [p \in Process |-> "idle"]
  /\ fd = [p \in Process |-> Nil] /\ held = [p \in Process |-> Nil]
  /\ leaderID = [p \in Process |-> Nil]
  /\ name = Nil
  /\ flock = [f \in File |-> Nil] /\ content = [f \in File |-> Nil]
  /\ removed = FALSE

StartCoordinator(p) ==
  /\ phase[p] = "new" /\ phase' = [phase EXCEPT ![p] = "run"]
  /\ UNCHANGED <<pc, fd, held, leaderID, files>>

-----------------------------------------------------------------------------
(* The heartbeat loop: checkLeader, and AcquireLock inside it. *)

Alive(p) == phase[p] \in {"run", "cancelled", "stopping"}

(* Process p goes on from step l of the loop to step m. *)
Beat(p, l, m) ==
  /\ Alive(p) /\ pc[p] = l
  /\ pc' = [pc EXCEPT ![p] = m]
  /\ UNCHANGED phase

(* A select with the ticker and a closed channel ready takes either. *)
TickHeld(p) ==
  /\ held[p] # Nil
  /\ Beat(p, "idle", "lead")
  /\ UNCHANGED <<fd, held, leaderID, files>>

TickFree(p) ==
  /\ held[p] = Nil
  /\ Beat(p, "idle", "open")
  /\ UNCHANGED <<fd, held, leaderID, files>>

OpenFails(p) ==
  /\ Beat(p, "open", "idle")
  /\ UNCHANGED <<fd, held, leaderID, files>>

(* A file nobody refers to is a new, empty one. *)
Fresh(f) == f # name /\ \A p \in Process : fd[p] # f /\ held[p] # f

Open(p, f) ==
  /\ Beat(p, "open", "flock")
  /\ IF name # Nil
       THEN f = name /\ UNCHANGED files
       ELSE /\ Fresh(f) /\ name' = f
            /\ content' = [content EXCEPT ![f] = Nil] /\ UNCHANGED <<flock, removed>>
  /\ fd' = [fd EXCEPT ![p] = f]
  /\ UNCHANGED <<held, leaderID>>

(* Fault: a shared lock, LOCK_SH. *)
Flock_Shared(p) ==
  /\ Beat(p, "flock", "truncate")
  /\ flock' = [flock EXCEPT ![fd[p]] = p]
  /\ UNCHANGED <<fd, held, leaderID, name, content, removed>>

Flock(p) ==
  /\ Beat(p, "flock", "truncate") /\ flock[fd[p]] = Nil
  /\ flock' = [flock EXCEPT ![fd[p]] = p]
  /\ UNCHANGED <<fd, held, leaderID, name, content, removed>>

(* Fault: the file that is not locked is not closed. *)
WouldBlock_LeavesOpen(p) ==
  /\ Beat(p, "flock", "follow") /\ flock[fd[p]] # Nil
  /\ UNCHANGED <<fd, held, leaderID, files>>

WouldBlock(p) ==
  /\ Beat(p, "flock", "follow") /\ flock[fd[p]] # Nil
  /\ fd' = [fd EXCEPT ![p] = Nil]
  /\ UNCHANGED <<held, leaderID, files>>

FlockFails(p) ==
  /\ Beat(p, "flock", "idle")
  /\ fd' = [fd EXCEPT ![p] = Nil]
  /\ UNCHANGED <<held, leaderID, files>>

Truncate(p) ==
  /\ Beat(p, "truncate", "write")
  /\ content' = [content EXCEPT ![fd[p]] = Nil]
  /\ UNCHANGED <<fd, held, leaderID, name, flock, removed>>

(* Fault: the lock is not given back, and the file not closed. *)
WriteFails_KeepsLock(p) ==
  /\ Beat(p, "write", "idle")
  /\ fd' = [fd EXCEPT ![p] = Nil]
  /\ UNCHANGED <<held, leaderID, name, flock, content, removed>>

(* Truncate or WriteString fails: the lock is given back. *)
WriteFails(p) ==
  /\ \E l \in {"truncate", "write"} : Beat(p, l, "idle")
  /\ flock' = [flock EXCEPT ![fd[p]] = Nil]
  /\ fd' = [fd EXCEPT ![p] = Nil]
  /\ UNCHANGED <<held, leaderID, name, content, removed>>

Write(p) ==
  /\ Beat(p, "write", "record")
  /\ content' = [content EXCEPT ![fd[p]] = p]
  /\ UNCHANGED <<fd, held, leaderID, name, flock, removed>>

Record(p) ==
  /\ Beat(p, "record", "lead")
  /\ held' = [held EXCEPT ![p] = fd[p]] /\ fd' = [fd EXCEPT ![p] = Nil]
  /\ UNCHANGED <<leaderID, files>>

Lead(p) ==
  /\ Beat(p, "lead", "idle")
  /\ leaderID' = [leaderID EXCEPT ![p] = p]
  /\ UNCHANGED <<fd, held, files>>

(* The leader's ID is read from the name, which may be another file by now, *)
(* or an empty one.                                                         *)
Follow(p) ==
  /\ Beat(p, "follow", "idle")
  /\ leaderID' = IF name = Nil THEN leaderID ELSE [leaderID EXCEPT ![p] = content[name]]
  /\ UNCHANGED <<fd, held, files>>

-----------------------------------------------------------------------------
(* The end of a process. *)

(* Start has returned and its context is cancelled; the lock is kept. *)
Cancel(p) ==
  /\ phase[p] = "run" /\ phase' = [phase EXCEPT ![p] = "cancelled"]
  /\ UNCHANGED <<pc, fd, held, leaderID, files>>

(* Stop closes stopCh and waits for the goroutines. *)
CloseStopCh(p) ==
  /\ phase[p] \in {"run", "cancelled"}
  /\ phase' = [phase EXCEPT ![p] = "stopping"]
  /\ UNCHANGED <<pc, fd, held, leaderID, files>>

(* They have returned; the lock is given back and the file closed ... *)
Unlock(p) ==
  /\ phase[p] = "stopping"
  /\ Beat(p, "idle", "remove")
  /\ flock' = IF held[p] = Nil THEN flock ELSE [flock EXCEPT ![held[p]] = Nil]
  /\ UNCHANGED <<fd, held, leaderID, name, content, removed>>

(* ... and then the name is removed, whatever file it names by now. *)
RemoveName(p) ==
  /\ phase[p] = "stopping" /\ pc[p] = "remove"
  /\ phase' = [phase EXCEPT ![p] = "stopped"] /\ pc' = [pc EXCEPT ![p] = "idle"]
  /\ IF held[p] = Nil THEN UNCHANGED <<name, removed>> ELSE name' = Nil /\ removed' = TRUE
  /\ held' = [held EXCEPT ![p] = Nil]
  /\ UNCHANGED <<fd, leaderID, flock, content>>

(* A crash, a kill or the exit: the kernel closes the files of the process. *)
Die(p) ==
  /\ phase[p] \notin {"new", "dead"} /\ phase' = [phase EXCEPT ![p] = "dead"]
  /\ pc' = [pc EXCEPT ![p] = "idle"]
  /\ fd' = [fd EXCEPT ![p] = Nil] /\ held' = [held EXCEPT ![p] = Nil]
  /\ flock' = [f \in File |-> IF flock[f] = p THEN Nil ELSE flock[f]]
  /\ UNCHANGED <<leaderID, name, content, removed>>
-----------------------------------------------------------------------------
Heartbeat(p) ==
  \/ TickHeld(p) \/ TickFree(p) \/ OpenFails(p) \/ (\E f \in File : Open(p, f))
  \/ Flock(p) \/ WouldBlock(p) \/ FlockFails(p) \/ Truncate(p) \/ WriteFails(p) \/ Write(p)
  \/ Record(p) \/ Lead(p) \/ Follow(p)

Shutdown(p) == Cancel(p) \/ CloseStopCh(p) \/ Unlock(p) \/ RemoveName(p) \/ Die(p)

(* All processes are gone. *)
AllDead == (\A p \in Process : phase[p] = "dead") /\ UNCHANGED cvars

CoordinatorNext ==
  (\E p \in Process : StartCoordinator(p) \/ Heartbeat(p) \/ Shutdown(p)) \/ AllDead

CoordinatorSpec == CoordinatorInit /\ [][CoordinatorNext]_cvars

(* The ticker fires, the file system does not fail for ever, a select that  *)
(* may take the closed channel does so some day, and a process exits once   *)
(* its crawl is over.                                                       *)
CoordinatorFairness ==
  \A p \in Process :
    /\ WF_cvars(Heartbeat(p)) /\ SF_cvars(\E f \in File : Open(p, f))
    /\ SF_cvars(Flock(p) \/ WouldBlock(p)) /\ SF_cvars(Truncate(p)) /\ SF_cvars(Write(p))
    /\ SF_cvars(Unlock(p)) /\ WF_cvars(RemoveName(p))
    /\ WF_cvars(phase[p] = "cancelled" /\ Die(p))

CoordinatorFairSpec == CoordinatorSpec /\ CoordinatorFairness

-----------------------------------------------------------------------------
(* Types of the variables of FileCoordinator; AcquireLock closes the file it *)
(* has opened on every path that does not keep it.                           *)
CoordinatorTypeOK ==
  /\ phase \in [Process -> {"new", "run", "cancelled", "stopping", "stopped", "dead"}]
  /\ pc \in [Process -> {"idle", "open", "flock", "truncate", "write", "record", "lead",
                         "follow", "remove"}]
  /\ fd \in [Process -> File \cup {Nil}] /\ held \in [Process -> File \cup {Nil}]
  /\ leaderID \in [Process -> Process \cup {Nil}]
  /\ name \in File \cup {Nil}
  /\ flock \in [File -> Process \cup {Nil}] /\ content \in [File -> Process \cup {Nil}]
  /\ removed \in BOOLEAN
  /\ \A p \in Process : fd[p] # Nil <=> pc[p] \in {"flock", "truncate", "write", "record"}

Working == {p \in Process : phase[p] = "run"}

IsLeader(p) == leaderID[p] = p

(* checkLeader elects with a lock: of the processes at work at most one      *)
(* takes itself for the leader, whatever file each of them has opened and    *)
(* whoever dies, as long as none of them has removed the name of the lock.   *)
OneLeaderByLock ==
  ~removed => \A p, q \in Working : IsLeader(p) /\ IsLeader(q) => p = q

(* The processes that are left in the end agree on one of them as leader,    *)
(* although leaders die before, while or after they write their ID.          *)
Agreement ==
  <>[](~removed => \A p \in Working : /\ leaderID[p] \in Working
                                     /\ \A q \in Working : leaderID[p] = leaderID[q])

-----------------------------------------------------------------------------
(* What a comment says, and the code does not do.                           *)

(* file_coordinator.go:227: checkLeader "performs leader election using a    *)
(* lock"; so there is at most one leader also after a leader's Stop.         *)
OneLeader == \A p, q \in Working : IsLeader(p) /\ IsLeader(q) => p = q
=============================================================================
