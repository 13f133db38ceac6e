---------------------------- MODULE SharedFrontier ----------------------------
(***************************************************************************)
(* What a frontier that several crawler processes share promises, URL by   *)
(* URL, until a process dies.  A process that finds a URL enters it once:  *)
(* either the URL joins those that wait, or somebody has cared for it      *)
(* already, or a failure is on record.  Nothing waits that was not added,  *)
(* and what waits is given out once or lost to a failure on record.  With  *)
(* a set of the URLs seen that all share, a URL is added once; without, a  *)
(* failure on record may add it again.                                     *)
(* DistributedQueue is shown to implement this with each of its backends.  *)
(***************************************************************************)
EXTENDS Naturals

CONSTANTS Client,    \* crawler processes
          Url        \* normalised URLs

VARIABLES
  found,    \* found[w]: the URLs process w has found
  coming,   \* coming[u]: the processes about to add u
  added,    \* added[u]: how often u was added
  waiting,  \* waiting[u]: how many of those wait
  given,    \* given[u]: how often u was given out
  failed,   \* the URLs hit by a failure
  once,     \* the processes share what they have seen
  sound     \* no process has died

sfvars == <<found, coming, added, waiting, given, failed, once, sound>>

SharedInit ==
  /\ found = [w \in Client |-> {}] /\ coming = [u \in Url |-> {}]
  /\ added = [u \in Url |-> 0] /\ waiting = [u \in Url |-> 0] /\ given = [u \in Url |-> 0]
  /\ failed = {} /\ once \in BOOLEAN /\ sound = TRUE

Find(w, u) == /\ u \notin found[w]
              /\ found' = [found EXCEPT ![w] = @ \cup {u}]
              /\ coming' = [coming EXCEPT ![u] = @ \cup {w}]
              /\ UNCHANGED <<added, waiting, given, failed>>

(* Process w is done with u in one of three ways.                            *)
Leaves(w, u) == /\ w \in coming[u] /\ coming' = [coming EXCEPT ![u] = @ \ {w}]
                /\ UNCHANGED <<found, given>>

Add(w, u) == /\ Leaves(w, u) /\ (once => added[u] = 0)
             /\ added' = [added EXCEPT ![u] = @ + 1]
             /\ waiting' = [waiting EXCEPT ![u] = @ + 1]
             /\ failed' \in {failed, failed \cup {u}}

(* A failure adds u once more: its sender sends again, or it is taken back.  *)
Repeat(u) == /\ ~once
             /\ coming[u] # {} \/ added[u] > 0
             /\ added' = [added EXCEPT ![u] = @ + 1]
             /\ waiting' = [waiting EXCEPT ![u] = @ + 1]
             /\ failed' = failed \cup {u}
             /\ UNCHANGED <<found, coming, given>>

Skip(w, u) == /\ Leaves(w, u)
              /\ u \in failed \/ waiting[u] > 0 \/ given[u] > 0 \/ coming[u] # {w}
              /\ UNCHANGED <<added, waiting, failed>>

Refuse(w, u) == /\ Leaves(w, u)
                /\ failed' = failed \cup {u}
                /\ UNCHANGED <<added, waiting>>

(* One that waits goes, to a process or to nobody.                           *)
Goes(u) == /\ waiting[u] > 0 /\ waiting' = [waiting EXCEPT ![u] = @ - 1]
           /\ UNCHANGED <<found, coming, added>>

Give(u) == Goes(u) /\ given' = [given EXCEPT ![u] = @ + 1] /\ UNCHANGED failed

Lose(u) == Goes(u) /\ failed' = failed \cup {u} /\ UNCHANGED given

SharedStep == \E u \in Url : \/ Give(u) \/ Lose(u) \/ Repeat(u)
                             \/ \E w \in Client : Find(w, u) \/ Add(w, u) \/ Skip(w, u) \/ Refuse(w, u)

SharedNext == \/ sound /\ sound' /\ SharedStep /\ UNCHANGED once
              \/ ~sound'

SharedSpec == SharedInit /\ [][SharedNext]_sfvars
=============================================================================
