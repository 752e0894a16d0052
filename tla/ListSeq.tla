------------------------------ MODULE ListSeq ------------------------------
(***************************************************************************)
(* What the list library promises its callers: a list is a sequence of     *)
(* values.  Nodes, links, lengths, iterators and the loops of the long     *)
(* calls are not visible; a call happens at once.  AdlistCalls implements  *)
(* this specification.                                                     *)
(***************************************************************************)
EXTENDS Sequences, SequencesExt

CONSTANTS
  List,         \* the lists callers may hold
  Value,        \* the values a node may hold, NULL included
  Same(_, _),   \* a dup method may return the second for the first
  Absent        \* marks a list that is not allocated

VARIABLE seqs   \* the sequence behind each list, or Absent

Present == {l \in List : seqs[l] # Absent}

Init == seqs = [l \in List |-> Absent]

Create(l) == l \notin Present /\ seqs' = [seqs EXCEPT ![l] = <<>>]

AddHead(l, v) == seqs' = [seqs EXCEPT ![l] = <<v>> \o @]

AddTail(l, v) == seqs' = [seqs EXCEPT ![l] = Append(@, v)]

Delete(l, k) == seqs' = [seqs EXCEPT ![l] = RemoveAt(@, k)]

\* The copy holds, in order, each value or what the dup method made of it.
Dup(l, c) ==
  /\ c \notin Present
  /\ \E s \in [DOMAIN seqs[l] -> Value] :
        /\ \A k \in DOMAIN s : Same(seqs[l][k], s[k])
        /\ seqs' = [seqs EXCEPT ![c] = s]

Release(l) == seqs' = [seqs EXCEPT ![l] = Absent]

Next ==
  \/ \E l \in List : Create(l)
  \/ \E l \in Present, v \in Value : AddHead(l, v) \/ AddTail(l, v)
  \/ \E l \in Present : \E k \in DOMAIN seqs[l] : Delete(l, k)
  \/ \E l \in Present, c \in List : Dup(l, c)
  \/ \E l \in Present : Release(l)

Spec == Init /\ [][Next]_seqs
=============================================================================
