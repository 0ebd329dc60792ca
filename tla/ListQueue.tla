----------------------------- MODULE ListQueue -----------------------------
(***************************************************************************)
(* lib/bluez/queue.c: the singly linked list behind every queue of the     *)
(* ATT and GATT layers.  queue_foreach and queue_remove_all call functions *)
(* of the user, which may call the queue again: each such call in progress *)
(* is a frame of stack, and between a call and its return everything else  *)
(* in the API is possible.  One thread.                                    *)
(*                                                                         *)
(* An entry that was freed is never allocated again, so that using one     *)
(* shows; a reuse would only hide it.                                      *)
(***************************************************************************)
EXTENDS Naturals, Sequences, SequencesExt, FiniteSets, FiniteSetsExt

CONSTANTS
  Entries,    (* addresses of struct queue_entry; bounds the pushes        *)
  Data,
  Null,
  MaxDepth,   (* bound: user functions within user functions               *)
  Usages      (* what the user functions may do, see usage                 *)

QueueConstantsOK ==
  /\ IsFiniteSet(Entries) /\ Null \notin Entries
  /\ MaxDepth \in Nat
  /\ Usages \subseteq SUBSET {"removeTwo", "refill", "destroyInside"}

VARIABLES
  usage,        (* "removeTwo": a function called for an entry removes it  *)
                (* and then others; "refill": ... clears the queue and     *)
                (* pushes again; "destroyInside": the queue is destroyed   *)
                (* by the destroy function of queue_remove_all             *)
  head, tail, entries,
  next, data,
  refs,         (* ref_count of each entry, 0: free                        *)
  used,         (* entries that have been allocated                        *)
  ref_count,    (* of the queue, 0: free                                   *)
  owned,        (* queue_destroy has not been called                       *)
  stack,        (* the calls in progress, innermost last                   *)
  fault         (* "entry", "queue": freed memory has been used            *)

list == <<head, tail, entries, next, data, used>>
vars == <<usage, list, refs, ref_count, owned, stack, fault>>

(* The entries from e on, in order; two links too many show a cycle.       *)
From(e) ==
  LET link[k \in 1 .. Cardinality(Entries) + 1] ==
        IF k = 1 THEN e
        ELSE IF link[k - 1] = Null THEN Null ELSE next[link[k - 1]]
  IN SelectSeq(link, LAMBDA x : x # Null)
Chain == From(head)

Frames == ToSet(stack)
FrameKinds == {"foreach", "clear", "match"}

TypeOK ==
  /\ usage \in Usages
  /\ {head, tail} \subseteq Entries \union {Null}
  /\ entries \in 0 .. Cardinality(Entries)
  /\ next \in [Entries -> Entries \union {Null}]
  /\ data \in [Entries -> Data]
  /\ refs \in [Entries -> Nat]
  /\ used \subseteq Entries
  /\ ref_count \in 0 .. MaxDepth + 1
  /\ owned \in BOOLEAN
  /\ Len(stack) <= MaxDepth /\ \A f \in Frames : f.kind \in FrameKinds
  /\ fault \in {"none", "entry", "queue"}

(* queue_new *)
Init ==
  /\ usage \in Usages
  /\ head = Null /\ tail = Null /\ entries = 0
  /\ next = [e \in Entries |-> Null]
  /\ data = [e \in Entries |-> CHOOSE d \in Data : TRUE]
  /\ refs = [e \in Entries |-> 0]
  /\ used = {}
  /\ ref_count = 1 /\ owned = TRUE
  /\ stack = <<>>
  /\ fault = "none"

-----------------------------------------------------------------------------
(* What the user may do, and when.                                         *)

MayCall == owned /\ fault = "none"
MayNest == MayCall /\ Len(stack) < MaxDepth

Visited == {f \in Frames : f.kind = "foreach"}
Visiting(es) == \E f \in Visited : f.entry \in es
Orphan == \E f \in Visited : f.entry \notin ToSet(Chain)

Matching == \E f \in Frames : f.kind = "match"
MayRemove ==
  "removeTwo" \in usage \/ (~ Orphan /\ (Visited = {} \/ ~ Matching))
MayPush == "refill" \in usage \/ \A f \in Visited : ~ f.emptied

-----------------------------------------------------------------------------
(* Operations that call nobody.                                            *)

(* Entries are alike, so which one malloc returns does not matter.         *)
New(e) == used # Entries /\ e = CHOOSE x \in Entries : x \notin used
Allocated(e, d) ==
  /\ used' = used \union {e}
  /\ data' = [data EXCEPT ![e] = d]
  /\ refs' = [refs EXCEPT ![e] = 1]
  /\ entries' = entries + 1
  /\ UNCHANGED <<usage, ref_count, owned, stack, fault>>

(* Mutant of PushTail: the tail is found by walking, and not remembered.    *)
PushTail_TailLeft(e, d) ==
  /\ MayCall /\ MayPush /\ New(e)
  /\ next' = IF tail # Null THEN [next EXCEPT ![tail] = e] ELSE next
  /\ tail' = IF tail = Null THEN e ELSE tail
  /\ head' = IF head = Null THEN e ELSE head
  /\ Allocated(e, d)

PushTail(e, d) ==
  /\ MayCall /\ MayPush /\ New(e)
  /\ next' = IF tail # Null THEN [next EXCEPT ![tail] = e] ELSE next
  /\ tail' = e
  /\ head' = IF head = Null THEN e ELSE head
  /\ Allocated(e, d)

PushHead(e, d) ==
  /\ MayCall /\ MayPush /\ New(e)
  /\ next' = [next EXCEPT ![e] = head]
  /\ head' = e
  /\ tail' = IF tail = Null THEN e ELSE tail
  /\ Allocated(e, d)

(* The position of the first entry whose data are in S, 0 without one.     *)
FirstIn(S) == SelectInSeq(Chain, LAMBDA e : data[e] \in S)

PushAfter(e, a, d) ==
  LET k == FirstIn({a})
      q == Chain[k]
  IN
  /\ MayCall /\ MayPush /\ New(e)
  /\ k # 0
  /\ next' = [next EXCEPT ![e] = next[q], ![q] = e]
  /\ tail' = IF next[q] = Null THEN e ELSE tail
  /\ UNCHANGED head
  /\ Allocated(e, d)

PopHead ==
  /\ MayCall /\ MayRemove
  /\ head # Null
  /\ head' = next[head]
  /\ tail' = IF next[head] = Null THEN Null ELSE tail
  /\ refs' = [refs EXCEPT ![head] = @ - 1]
  /\ entries' = entries - 1
  /\ UNCHANGED <<usage, next, data, used, ref_count, owned, stack, fault>>

(* The common part of queue_remove and queue_remove_if, at position k.     *)
Unlink(k) ==
  LET e == Chain[k] IN
  /\ IF k > 1
     THEN next' = [next EXCEPT ![Chain[k - 1]] = next[e]] /\ UNCHANGED head
     ELSE head' = next[e] /\ UNCHANGED next
  /\ tail' = IF next[e] # Null THEN tail
             ELSE IF k > 1 THEN Chain[k - 1] ELSE Null
  /\ entries' = entries - 1
  /\ refs' = [refs EXCEPT ![e] = @ - 1]

(* queue_remove, and queue_remove_if with a function that accepts S.       *)
Unqueue(S) ==
  /\ MayCall /\ MayRemove
  /\ FirstIn(S) # 0
  /\ Unlink(FirstIn(S))
  /\ UNCHANGED <<usage, data, used, ref_count, owned, stack, fault>>

-----------------------------------------------------------------------------
(* queue_foreach.  A frame remembers what was in the queue at the start    *)
(* and which entries the function has been called for.                     *)

Push(f) == stack' = Append(stack, f)
Replace(f) == stack' = Append(Front(stack), f)
Pop == stack' = Front(stack)

Foreach ==
  /\ MayNest
  /\ head # Null
  /\ ref_count' = ref_count + 1
  /\ refs' = [refs EXCEPT ![head] = @ + 1]
  /\ Push([kind |-> "foreach", entry |-> head, emptied |-> FALSE,
           start |-> Chain, seen |-> <<head>>])
  /\ UNCHANGED <<usage, list, owned, fault>>

(* The function has returned: on to the next entry, or the end.            *)
ForeachStep ==
  LET f == Last(stack)
      n == next[f.entry]
      more == n # Null /\ head # Null /\ ref_count > 1
  IN
  /\ fault = "none"
  /\ stack # <<>> /\ f.kind = "foreach"
  /\ \/ /\ more /\ refs[n] # 0
        /\ refs' = [refs EXCEPT ![f.entry] = @ - 1, ![n] = @ + 1]
        /\ Replace([f EXCEPT !.entry = n, !.seen = Append(@, n)])
        /\ UNCHANGED <<ref_count, fault>>
     \/ /\ more /\ refs[n] = 0
        /\ fault' = "entry"
        /\ UNCHANGED <<refs, ref_count, stack>>
     \/ /\ ~ more
        /\ refs' = [refs EXCEPT ![f.entry] = @ - 1]
        /\ ref_count' = ref_count - 1
        /\ Pop
        /\ UNCHANGED fault
  /\ UNCHANGED <<usage, list, owned>>

-----------------------------------------------------------------------------
(* queue_remove_all.                                                       *)

(* Mutant of Clear: the entries are freed before they leave the queue.      *)
Clear_HeadLeft(final) ==
  /\ owned' = ~ final
  /\ stack' = Append([k \in DOMAIN stack |->
                        IF stack[k].kind = "foreach"
                        THEN [stack[k] EXCEPT !.emptied = TRUE] ELSE stack[k]],
                     [kind |-> "clear", tmp |-> head, rest |-> next[head],
                      final |-> final])
  /\ UNCHANGED <<usage, list, refs, ref_count, fault>>

(* Without a match function, and queue_destroy (final): the list is taken  *)
(* off the queue, and destroy called for each entry.                       *)
Clear(final) ==
  /\ head' = Null /\ tail' = Null /\ entries' = 0
  /\ owned' = ~ final
  /\ stack' = Append([k \in DOMAIN stack |->
                        IF stack[k].kind = "foreach"
                        THEN [stack[k] EXCEPT !.emptied = TRUE] ELSE stack[k]],
                     [kind |-> "clear", tmp |-> head, rest |-> next[head],
                      final |-> final])
  /\ UNCHANGED <<usage, next, data, used, refs, ref_count, fault>>

RemoveAll == MayNest /\ head # Null /\ Clear(FALSE)

Destroy ==
  /\ MayNest
  /\ "destroyInside" \in usage \/ \A f \in Frames : f.kind # "match"
  /\ \/ head # Null /\ Clear(TRUE)
     \/ /\ head = Null
        /\ owned' = FALSE
        /\ ref_count' = ref_count - 1
        /\ UNCHANGED <<usage, list, refs, stack, fault>>

ClearStep ==
  LET f == Last(stack) IN
  /\ fault = "none"
  /\ stack # <<>> /\ f.kind = "clear"
  /\ refs' = [refs EXCEPT ![f.tmp] = @ - 1]
  /\ \/ /\ f.rest # Null
        /\ Replace([f EXCEPT !.tmp = f.rest, !.rest = next[f.rest]])
        /\ UNCHANGED ref_count
     \/ /\ f.rest = Null
        /\ ref_count' = IF f.final THEN ref_count - 1 ELSE ref_count
        /\ Pop
  /\ UNCHANGED <<usage, list, owned, fault>>

(* With a function that accepts S: one entry after the other.              *)
RemoveAllMatching(S) ==
  /\ MayNest /\ MayRemove
  /\ FirstIn(S) # 0
  /\ "removeTwo" \in usage \/ \A f \in Visited : data[f.entry] \notin S
  /\ Unlink(FirstIn(S))
  /\ Push([kind |-> "match", accepts |-> S])
  /\ UNCHANGED <<usage, data, used, ref_count, owned, fault>>

(* ... after destroy has returned.  The queue is not referenced here.      *)
MatchStep ==
  LET f == Last(stack)
      k == FirstIn(f.accepts)
  IN
  /\ fault = "none"
  /\ stack # <<>> /\ f.kind = "match"
  /\ \/ /\ ref_count = 0
        /\ fault' = "queue"
        /\ UNCHANGED <<list, refs, stack>>
     \/ /\ ref_count # 0 /\ k # 0
        /\ Unlink(k)
        /\ UNCHANGED <<data, used, stack, fault>>
     \/ /\ ref_count # 0 /\ k = 0
        /\ Pop
        /\ UNCHANGED <<list, refs, fault>>
  /\ UNCHANGED <<usage, ref_count, owned>>

-----------------------------------------------------------------------------
Calls ==
  \/ \E e \in Entries, d \in Data : PushTail(e, d) \/ PushHead(e, d)
  \/ \E e \in Entries, a, d \in Data : PushAfter(e, a, d)
  \/ PopHead
  \/ \E d \in Data : Unqueue({d}) \/ RemoveAllMatching({d})
  \/ Foreach \/ RemoveAll \/ Destroy

Returns == ForeachStep \/ ClearStep \/ MatchStep

Next == Calls \/ Returns

Spec == Init /\ [][Next]_vars

-----------------------------------------------------------------------------
(* Properties.                                                             *)

(* queue_length, queue_peek_tail and queue_isempty, which trust entries    *)
(* and tail, agree with the list, and the list has no cycle.               *)
WellFormed ==
  /\ ref_count # 0 => entries = Len(Chain)
  /\ ref_count # 0 => tail = IF Chain = <<>> THEN Null ELSE Last(Chain)
  /\ IsInjective(Chain)

(* An entry is referenced by the list and by the calls in progress, and by *)
(* nothing else: none is freed while in use, none is leaked.               *)
Holds(f, e) ==
  \/ f.kind = "foreach" /\ f.entry = e
  \/ f.kind = "clear" /\ (f.tmp = e \/ e \in ToSet(From(f.rest)))
RefsExact ==
  \A e \in used :
    refs[e] = (IF e \in ToSet(Chain) THEN 1 ELSE 0)
                + Cardinality({k \in DOMAIN stack : Holds(stack[k], e)})

(* Functions that remove the entry they are called for, or others, but not *)
(* both, and do not destroy the queue under queue_remove_all, never make   *)
(* the iteration touch freed memory.                                       *)
NoUseAfterFree == usage = {} => fault = "none"

Inv == TypeOK /\ WellFormed /\ RefsExact /\ NoUseAfterFree

(* What stays in the queue while it is walked is visited, once, in order.  *)
VisitsAll ==
  \A k \in DOMAIN stack :
    stack[k].kind = "foreach" /\ Len(stack') < k /\ Len(stack) = k =>
      \A e \in ToSet(stack[k].start) \intersect ToSet(Chain') :
        Cardinality({j \in DOMAIN stack[k].seen : stack[k].seen[j] = e}) = 1
AllVisited == [][VisitsAll]_vars

(* The list implements the sequence that queue.h promises.                 *)
Contents == [k \in DOMAIN Chain |-> data[Chain[k]]]
Sequence == INSTANCE SequenceQueue WITH contents <- Contents
ImplementsSequence == Sequence!Spec

=============================================================================
