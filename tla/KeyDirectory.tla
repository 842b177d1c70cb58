----------------------------- MODULE KeyDirectory -----------------------------
(***************************************************************************)
(* What the verifiable key directory promises, whatever tree, wires and    *)
(* subcircuits it is made of.                                              *)
(*                                                                         *)
(* A directory gives a user a version number and a key.  A new user starts *)
(* at version 0; a user's next key has the next version.  Every change     *)
(* extends the history of digests.  The proof links the history, one       *)
(* change after the other, from its first digest to its last, and only     *)
(* when all of it is linked is it certified.  Vkd implements it.           *)
(***************************************************************************)
EXTENDS Naturals, Sequences

CONSTANTS
  Users, Keys,
  Digest(_),    \* of a directory
  None          \* not in the directory

VARIABLES
  dir,          \* the version and the key of each user
  history,      \* the digests of all directories so far
  links,        \* the changes proved, as pairs of digests
  certified     \* is there a proof from the first digest to the last

vars == <<dir, history, links, certified>>

Init ==
  /\ dir \in [Users -> ({0} \X Keys) \cup {None}]
  /\ history = <<Digest(dir)>>
  /\ links = <<>> /\ certified = FALSE

\* A user's entry becomes e; nothing changes any more once the proof has begun.
Change(u, e) ==
  /\ links = <<>>
  /\ dir' = [dir EXCEPT ![u] = e]
  /\ history' = Append(history, Digest(dir'))
  /\ UNCHANGED <<links, certified>>

AppendUser(u, k) == dir[u] = None /\ Change(u, <<0, k>>)

UpdateUser(u, k) == dir[u] # None /\ Change(u, <<dir[u][1] + 1, k>>)

Link ==
  LET n == Len(links) + 1 IN
  /\ n < Len(history)
  /\ links' = Append(links, <<history[n], history[n + 1]>>)
  /\ UNCHANGED <<dir, history, certified>>

Certify ==
  /\ ~certified /\ Len(links) = Len(history) - 1
  /\ certified' = TRUE
  /\ UNCHANGED <<dir, history, links>>

Next ==
  \/ \E u \in Users, k \in Keys : AppendUser(u, k) \/ UpdateUser(u, k)
  \/ Link \/ Certify

Spec == Init /\ [][Next]_vars
=============================================================================
