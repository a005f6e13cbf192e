----------------------------- MODULE BlockStore -----------------------------
(***************************************************************************)
(* What bio.c promises its callers: every disk block has one content, and  *)
(* one process at a time owns the block, from the return of bread to the   *)
(* call of brelse.  Caching, recycling and the disk queue are not visible. *)
(***************************************************************************)
CONSTANTS Proc, Sector, Val, NoProc

VARIABLES content,   \* the current contents of each block
          owner      \* the process that holds the block, or NoProc

Init ==
  /\ content \in [Sector -> Val]
  /\ owner = [s \in Sector |-> NoProc]

\* bread returns block s to p.
Acquire(p, s) ==
  /\ owner[s] = NoProc
  /\ owner' = [owner EXCEPT ![s] = p]
  /\ UNCHANGED content

\* The owner changes the block.
Update(p, s, v) ==
  /\ owner[s] = p
  /\ content' = [content EXCEPT ![s] = v]
  /\ UNCHANGED owner

\* brelse.
Release(p, s) ==
  /\ owner[s] = p
  /\ owner' = [owner EXCEPT ![s] = NoProc]
  /\ UNCHANGED content

Next == \E p \in Proc, s \in Sector :
          \/ Acquire(p, s)
          \/ \E v \in Val : Update(p, s, v)
          \/ Release(p, s)

Spec == Init /\ [][Next]_<<content, owner>>
=============================================================================
