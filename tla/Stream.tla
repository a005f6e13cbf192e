------------------------------- MODULE Stream -------------------------------
(***************************************************************************)
(* What a pipe promises: bytes come out in the order in which they went    *)
(* in, each once; a read that returns nothing is the end of the stream,    *)
(* after which nobody can write.                                           *)
(***************************************************************************)
EXTENDS Integers, SequencesExt

CONSTANTS Page, PIPESIZE

VARIABLES ends,     \* which ends of a pipe some descriptor still refers to
          queue,    \* bytes written and not yet read
          taken     \* what the last read returned

vars == <<ends, queue, taken>>

Init == /\ ends = [pp \in Page |-> {}]
        /\ queue = [pp \in Page |-> <<>>]
        /\ taken = [pp \in Page |-> <<>>]

Create(pp) ==
  /\ ends[pp] = {}
  /\ ends' = [ends EXCEPT ![pp] = {"r", "w"}]
  /\ taken' = [taken EXCEPT ![pp] = <<>>]
  /\ UNCHANGED queue

\* A write goes in piece by piece, as there is room.
Put(pp) ==
  /\ "w" \in ends[pp]
  /\ Len(queue'[pp]) <= PIPESIZE /\ IsPrefix(queue[pp], queue'[pp])
  /\ queue' = [queue EXCEPT ![pp] = queue'[pp]]
  /\ UNCHANGED <<ends, taken>>

\* A read takes some bytes, or finds that the stream has ended.
Get(pp) ==
  /\ "r" \in ends[pp]
  /\ taken'[pp] = <<>> => queue[pp] = <<>> /\ "w" \notin ends[pp]
  /\ queue[pp] = taken'[pp] \o queue'[pp]
  /\ taken' = [taken EXCEPT ![pp] = taken'[pp]]
  /\ queue' = [queue EXCEPT ![pp] = queue'[pp]]
  /\ UNCHANGED ends

\* When the last reference to an end goes; the bytes go with the last end.
CloseEnd(pp, e) ==
  /\ e \in ends[pp]
  /\ ends' = [ends EXCEPT ![pp] = @ \ {e}]
  /\ queue' = IF ends[pp] = {e} THEN [queue EXCEPT ![pp] = <<>>] ELSE queue
  /\ UNCHANGED taken

Next == \E pp \in Page : Create(pp) \/ Put(pp) \/ Get(pp) \/ \E e \in {"r", "w"} : CloseEnd(pp, e)

Spec == Init /\ [][Next]_vars

=============================================================================
