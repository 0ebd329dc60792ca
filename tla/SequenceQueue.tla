--------------------------- MODULE SequenceQueue ---------------------------
(***************************************************************************)
(* What lib/bluez/queue.h promises: a queue is a sequence of data, of      *)
(* which the first element that matches is found and removed, and the      *)
(* order of the others never changes.                                      *)
(***************************************************************************)
EXTENDS Naturals, Sequences, SequencesExt

CONSTANT Data

VARIABLE contents

Init == contents = <<>>

PushTail(d) == contents' = Append(contents, d)
PushHead(d) == contents' = <<d>> \o contents

(* After the first element that equals a.                                  *)
PushAfter(a, d) ==
  LET k == SelectInSeq(contents, LAMBDA x : x = a) IN
  k # 0 /\ contents' = InsertAt(contents, k + 1, d)

PopHead == contents # <<>> /\ contents' = Tail(contents)

(* The first element in S, S being what a match function accepts.          *)
RemoveMatch(S) ==
  LET k == SelectInSeq(contents, LAMBDA x : x \in S) IN
  k # 0 /\ contents' = RemoveAt(contents, k)

Clear == contents' = <<>>

Next ==
  \/ \E d \in Data : PushTail(d) \/ PushHead(d) \/ RemoveMatch({d})
  \/ \E a, d \in Data : PushAfter(a, d)
  \/ PopHead
  \/ Clear

Spec == Init /\ [][Next]_contents

=============================================================================
