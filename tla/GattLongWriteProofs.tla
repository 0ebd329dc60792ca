------------------------ MODULE GattLongWriteProofs ------------------------
(***************************************************************************)
(* Proofs about GattLongWrite, for any number of long writes and sessions, *)
(* each of any length: requests are counted and used as what they are, and *)
(* the writes of a program that keeps to one kind do not mix.  And about   *)
(* GattCallers: its programs take GattLongWrite's steps, so what holds of  *)
(* these holds of them, and they do not lose their sessions.               *)
(***************************************************************************)
EXTENDS GattCallers, QueueLemmas

-----------------------------------------------------------------------------
(* The inductive invariant of every usage.                                 *)

HandlersOf(r) ==
  IF r \in Long
  THEN {"prepare_write_cb", "execute_write_cb", "cancel_long_write_cb"}
  ELSE {"prep_write_cb", "exec_write_cb", "cancel_prep_write_cb"}

Patient == "impatient" \notin usage

(* A PDU goes to a handler of its kind of write, and the request it has a  *)
(* reference of, or that its patient caller waits with, is as the handler  *)
(* expects it.                                                             *)
EntryOK(e) ==
  /\ e.req \in started
  /\ e.cb \in HandlersOf(e.req)
  /\ e.pdu = "PREP" <=> e.cb \in {"prepare_write_cb", "prep_write_cb"}
  /\ e.owns <=> e.cb \notin {"prep_write_cb", "cancel_long_write_cb"}
  /\ e.req \in Long /\ e.owns => refs[e.req] = 1 /\ data[e.req] = "long_write_op"
  /\ e.req \in Session /\ Patient => refs[e.req] = 1 /\ data[e.req] \in Expects(e.cb)

(* Two PDUs of the same write: at most one of a long write has a handler   *)
(* that goes on with it, and a patient caller has one on the line.         *)
Apart(e, f) ==
  e.req = f.req => IF e.req \in Long THEN ~ (e.owns /\ f.owns) ELSE ~ Patient

LineOK ==
  /\ \A i \in DOMAIN line : EntryOK(line[i])
  /\ \A i, j \in DOMAIN line : i # j => Apart(line[i], line[j])

(* A long write that waits has not started.                                *)
Waits(r) ==
  /\ r \in created \ started
  /\ refs[r] = 1 /\ data[r] = "long_write_op" /\ chunk[r] = 1

QueueOK ==
  /\ \A i \in DOMAIN long_write_queue : Waits(long_write_queue[i])
  /\ \A i, j \in DOMAIN long_write_queue :
       i # j => long_write_queue[i] # long_write_queue[j]

CallbackOK ==
  in_callback =>
    /\ line # <<>>
    /\ line[1].cb \in {"execute_write_cb", "exec_write_cb"}
    /\ refs[line[1].req] = 1

Counted == \A r \in Writes : refs[r] \in {0, 1}

(* A request that was made has an op, and a session has a PDU of its own.  *)
Opened ==
  /\ created \intersect Session \subseteq started
  /\ \A r \in created : data[r] # "none"

Base == TypeOK /\ LineOK /\ QueueOK /\ CallbackOK /\ Counted /\ Opened

-----------------------------------------------------------------------------
(* The line and the queue.                                                 *)

(* Which op each handler casts user_data to.                               *)
LEMMA Expectations ==
  /\ Expects("prepare_write_cb") = {"long_write_op"}
  /\ Expects("execute_write_cb") = {"long_write_op"}
  /\ Expects("prep_write_cb") = {"prep_write_op"}
  /\ Expects("exec_write_cb") = {"write_op"}
  /\ Expects("cancel_prep_write_cb") = {"long_write_op", "prep_write_op", "write_op"}
BY DEF Expects

(* A PDU whose request stays what it is, or whose caller waits for nothing *)
(* and has no other claim on it, is as it should be.                       *)
LEMMA EntrySame ==
  ASSUME NEW x \in Entry, EntryOK(x), x.req \in started', usage' = usage,
         \/ refs'[x.req] = refs[x.req] /\ data'[x.req] = data[x.req]
         \/ x.req \in Long /\ ~ x.owns /\ x.req \notin Session
         \/ x.req \notin Long /\ ~ Patient
  PROVE  EntryOK(x)'
BY DEF EntryOK, Patient

(* The PDUs that stay on the line when the first d are done with.          *)
Kept(d) == {line[i] : i \in {j \in DOMAIN line : j > d}}

(* What is on the line is as it should be if what has stayed still is and  *)
(* what is new is.                                                         *)
LEMMA LineKept ==
  ASSUME TypeOK, LineOK, usage' = usage, line' \in Seq(Entry),
         NEW d \in {0, 1}, NEW E \in SUBSET Entry, Moved(line', line, d, E),
         NEW K \in SUBSET Entry, K = Kept(d),
         \A x \in K \union E : EntryOK(x)',
         \A e \in E, x \in K : Apart(e, x)
  PROVE  LineOK'
<1>1. /\ DOMAIN line = 1 .. Len(line) /\ Len(line) \in Nat
      /\ DOMAIN line' = 1 .. Len(line') /\ Len(line') \in Nat
  BY QueueEntries DEF TypeOK
<1>2. \A i \in DOMAIN line' : line'[i] \in K \union E
  <2> TAKE i \in DOMAIN line'
  <2>1. i + d > d
    BY <1>1
  <2> QED BY <2>1 DEF Moved, Kept
<1>3. \A i \in DOMAIN line' : EntryOK(line[i])'
  <2> SUFFICES ASSUME NEW i \in DOMAIN line' PROVE EntryOK(line[i])'
    OBVIOUS
  <2>1. PICK x \in K \union E : x = line'[i]
    BY <1>2
  <2>2. EntryOK(x)'
    OBVIOUS
  <2> QED BY <2>1, <2>2 DEF EntryOK
<1>4. \A e, x \in Entry : Apart(e, x) => Apart(x, e) /\ Apart(e, x)' /\ Apart(x, e)'
  BY DEF Apart, Patient
<1>5. ASSUME NEW i \in DOMAIN line', NEW j \in DOMAIN line', i # j
      PROVE  Apart(line'[i], line'[j])
  <2>1. i \in Nat /\ j \in Nat /\ i + d # j + d /\ i + d > d /\ j + d > d
    BY <1>1, <1>5
  <2>2. CASE i + d \in DOMAIN line /\ line'[i] = line[i + d]
    <3>1. CASE j + d \in DOMAIN line /\ line'[j] = line[j + d]
      BY <2>1, <2>2, <3>1 DEF LineOK
    <3>2. CASE j = Len(line) + 1 - d /\ line'[j] \in E
      <4>1. line'[i] \in K
        BY <2>1, <2>2 DEF Kept
      <4> QED BY <1>4, <3>2, <4>1
    <3> QED BY <3>1, <3>2 DEF Moved
  <2>3. CASE i = Len(line) + 1 - d /\ line'[i] \in E
    <3>1. j + d \in DOMAIN line /\ line'[j] = line[j + d]
      BY <1>5, <2>3 DEF Moved
    <3>2. line'[j] \in K
      BY <2>1, <3>1 DEF Kept
    <3> QED BY <2>3, <3>2
  <2> QED BY <2>2, <2>3 DEF Moved
<1>6. \A i, j \in DOMAIN line' : i # j => Apart(line[i], line[j])'
  <2> SUFFICES ASSUME NEW i \in DOMAIN line', NEW j \in DOMAIN line', i # j
               PROVE  Apart(line[i], line[j])'
    OBVIOUS
  <2>1. PICK x \in Entry : x = line'[i]
    BY <1>2
  <2>2. PICK y \in Entry : y = line'[j]
    BY <1>2
  <2>3. Apart(x, y)'
    BY <1>4, <1>5, <2>1, <2>2
  <2> QED BY <2>1, <2>2, <2>3 DEF Apart
<1> QED BY <1>3, <1>6 DEF LineOK

(* What has stayed on the line, the head done with or not.                 *)
LEMMA KeptFacts ==
  ASSUME Base, NEW d \in {0, 1}
  PROVE  /\ Kept(d) \in SUBSET Entry
         /\ \A x \in Kept(d) : EntryOK(x)
         /\ \A x \in Kept(d) : x.req \in Writes /\ x.req \in created
         /\ d = 1 => \A x \in Kept(d) : Apart(line[1], x)
<1>1. \A i \in DOMAIN line : i \in Nat /\ line[i] \in Entry
  BY QueueEntries DEF Base, TypeOK
<1>2. Kept(d) \in SUBSET Entry
  BY <1>1 DEF Kept
<1>3. \A x \in Kept(d) : EntryOK(x)
  BY DEF Kept, Base, LineOK
<1>4. \A x \in Kept(d) : x.req \in Writes /\ x.req \in created
  BY <1>2, <1>3 DEF Entry, EntryOK, Base, TypeOK
<1>5. ASSUME d = 1, NEW x \in Kept(d) PROVE Apart(line[1], x)
  <2>1. PICK i \in DOMAIN line : i > 1 /\ x = line[i]
    BY <1>5 DEF Kept
  <2>2. 1 \in DOMAIN line /\ i # 1
    <3>1. DOMAIN line = 1 .. Len(line) /\ Len(line) \in Nat
      BY QueueEntries DEF Base, TypeOK
    <3> QED BY <2>1, <3>1
  <2> QED BY <2>1, <2>2 DEF Base, LineOK
<1> QED BY <1>2, <1>3, <1>4, <1>5

(* The head of the line, and what Handling says of it.                     *)
LEMMA HeadFacts ==
  ASSUME Base, line # <<>>
  PROVE  /\ line[1] \in Entry /\ Head(line) = line[1] /\ EntryOK(line[1])
         /\ line[1].req \in Writes /\ line[1].req \in created
         /\ \A x \in Kept(1) : Apart(line[1], x)
<1>1. line \in Seq(Entry)
  BY DEF Base, TypeOK
<1>2. line[1] \in Entry /\ Head(line) = line[1] /\ 1 \in DOMAIN line
  BY <1>1, Popped
<1>3. EntryOK(line[1])
  BY <1>2 DEF Base, LineOK
<1> QED BY <1>2, <1>3, KeptFacts DEF Entry, EntryOK, Base, TypeOK

(* The queue of long writes does not change its entries' state.            *)
LEMMA QueueKept ==
  ASSUME Base, \A r \in Long : Waits(r) => Waits(r)',
         long_write_queue' \in Seq(Long), NEW d \in {0, 1},
         Moved(long_write_queue', long_write_queue, d, {})
  PROVE  QueueOK'
<1>1. /\ \A i \in DOMAIN long_write_queue : long_write_queue[i] \in Long
      /\ \A i \in DOMAIN long_write_queue' : i \in Nat
  BY QueueEntries DEF Base, TypeOK
<1>2. \A i \in DOMAIN long_write_queue' :
        i + d \in DOMAIN long_write_queue
        /\ long_write_queue'[i] = long_write_queue[i + d]
  BY DEF Moved
<1>3. \A i \in DOMAIN long_write_queue' : Waits(long_write_queue[i])'
  <2> SUFFICES ASSUME NEW i \in DOMAIN long_write_queue'
               PROVE  Waits(long_write_queue[i])'
    OBVIOUS
  <2>1. PICK r \in Long : r = long_write_queue'[i]
    BY <1>1, <1>2
  <2>2. Waits(r)
    BY <1>2, <2>1 DEF Base, QueueOK
  <2>3. Waits(r)'
    BY <2>2
  <2> QED BY <2>1, <2>3 DEF Waits
<1>4. \A i, j \in DOMAIN long_write_queue' : i # j => i + d # j + d
  BY <1>1
<1>5. \A i, j \in DOMAIN long_write_queue' :
        i # j => long_write_queue'[i] # long_write_queue'[j]
  BY <1>2, <1>4 DEF Base, QueueOK
<1> QED BY <1>3, <1>5 DEF QueueOK

-----------------------------------------------------------------------------
(* API calls.                                                              *)

(* What TypeOK says of the variables that lemmas below use.                *)
LEMMA Types ==
  ASSUME GattConstantsOK, TypeOK
  PROVE  /\ line \in Seq(Entry) /\ long_write_queue \in Seq(Long)
         /\ refs \in [Writes -> Nat] /\ chunk \in [Writes -> Nat]
         /\ Chunks \in [Writes -> Nat \ {0}]
         /\ created \subseteq Writes /\ started \subseteq created /\ removed \subseteq created
         /\ Long \subseteq Writes /\ Session \subseteq Writes
         /\ Long \intersect Session = {}
BY DEF TypeOK, GattConstantsOK, Writes

(* An operation that has just been made is not anywhere yet.               *)
LEMMA Fresh ==
  ASSUME GattConstantsOK, Base, NEW r \in Writes, Create(r)
  PROVE  /\ refs' \in [Writes -> Nat] /\ created' \subseteq Writes /\ created \subseteq created'
         /\ \A x \in Writes : refs'[x] = IF x = r THEN 1 ELSE refs[x]
         /\ Counted'
         /\ \A x \in Kept(0) : x.req # r
         /\ \A i \in DOMAIN long_write_queue : long_write_queue[i] # r
<1>1. refs' \in [Writes -> Nat] /\ \A x \in Writes : refs'[x] = IF x = r THEN 1 ELSE refs[x]
  BY Types DEF Base, Create
<1>2. Counted'
  BY <1>1 DEF Base, Counted
<1>3. created' \subseteq Writes /\ created \subseteq created' /\ r \notin created
  BY Types DEF Base, Create
<1>4. \A x \in Kept(0) : x.req # r
  BY <1>3, KeptFacts
<1>5. \A i \in DOMAIN long_write_queue : long_write_queue[i] # r
  BY <1>3 DEF Base, QueueOK, Waits
<1> QED BY <1>1, <1>2, <1>3, <1>4, <1>5

(* A long write is queued, or its first PDU put on the line.               *)
LEMMA WriteLongBase ==
  ASSUME GattConstantsOK, Base, NEW r \in Long, WriteLong(r)
  PROVE  Base'
<1>0. /\ Create(r)
      /\ data' = [data EXCEPT ![r] = "long_write_op"] /\ chunk' = [chunk EXCEPT ![r] = 1]
      /\ UNCHANGED <<usage, session, removed, in_callback, ended, prepared, commit>>
      /\ \/ /\ long_write_queue' = Append(long_write_queue, r)
            /\ UNCHANGED <<in_long_write, started, line>>
         \/ /\ in_long_write' = TRUE /\ line' = Append(line, FirstPrep(r))
            /\ started' = started \union {r}
            /\ UNCHANGED long_write_queue
  BY DEF WriteLong, server
<1> DEFINE e == FirstPrep(r)
<1>1. /\ r \in Writes /\ r \notin created /\ created' = created \union {r}
      /\ started \subseteq created
      /\ Long \intersect Session = {}
  BY <1>0, Types DEF Create, Base
<1>2. /\ refs' \in [Writes -> Nat] /\ Counted'
      /\ \A x \in Writes : refs'[x] = IF x = r THEN 1 ELSE refs[x]
      /\ \A x \in Kept(0) : x.req # r
      /\ \A i \in DOMAIN long_write_queue : long_write_queue[i] # r
  BY <1>0, <1>1, Fresh
<1>3. /\ data' \in [Writes -> {"none", "long_write_op", "prep_write_op", "write_op"}]
      /\ \A x \in Writes : data'[x] = IF x = r THEN "long_write_op" ELSE data[x]
      /\ chunk' \in [Writes -> Nat]
      /\ \A x \in Writes : chunk'[x] = IF x = r THEN 1 ELSE chunk[x]
  BY <1>0, <1>1 DEF Base, TypeOK
<1>4. e \in Entry /\ e.req = r /\ e.cb = "prepare_write_cb" /\ e.pdu = "PREP" /\ e.owns
  BY <1>1 DEF FirstPrep, Prep, Entry
<1> HIDE DEF e
<1>5. line \in Seq(Entry) /\ long_write_queue \in Seq(Long)
  BY DEF Base, TypeOK
<1>6. line' \in Seq(Entry) /\ long_write_queue' \in Seq(Long)
  <2>1. Append(line, e) \in Seq(Entry)
    BY <1>4, <1>5, Pushed
  <2>2. Append(long_write_queue, r) \in Seq(Long)
    BY <1>5, Pushed
  <2> QED BY <1>0, <1>5, <2>1, <2>2 DEF e
<1>7. started' \subseteq created' /\ started \subseteq started'
  BY <1>0, <1>1
<1>8. TypeOK'
  BY <1>0, <1>1, <1>2, <1>3, <1>6, <1>7 DEF Base, TypeOK
<1>9. \A x \in Entry : x.req # r /\ EntryOK(x) => EntryOK(x)'
  <2> SUFFICES ASSUME NEW x \in Entry, x.req # r, EntryOK(x) PROVE EntryOK(x)'
    OBVIOUS
  <2>1. x.req \in Writes /\ x.req \in started'
    BY <1>7 DEF Entry, EntryOK
  <2> QED BY <1>0, <1>2, <1>3, <2>1, EntrySame
<1>10. \A x \in Kept(0) : x \in Entry /\ EntryOK(x)'
  BY <1>2, <1>9, KeptFacts
<1>11. \A x \in Long : x # r /\ Waits(x) /\ x \notin started' => Waits(x)'
  BY <1>1, <1>2, <1>3 DEF Waits, Writes
<1>12. CallbackOK'
  <2>1. CASE line = <<>>
    BY <1>0, <2>1 DEF Base, CallbackOK
  <2>2. CASE line # <<>>
    <3>1. line'[1] = line[1] /\ line' # <<>>
      <4>1. 1 \in DOMAIN line
        BY <1>5, <2>2, Popped
      <4>2. Append(line, e)[1] = line[1] /\ Append(line, e) # <<>>
        BY <1>4, <1>5, <4>1, Pushed
      <4> QED BY <1>0, <2>2, <4>2 DEF e
    <3>2. line[1].req \in Writes /\ line[1].req # r
      BY <1>1, <2>2, HeadFacts
    <3> QED BY <1>0, <1>2, <2>2, <3>1, <3>2 DEF Base, CallbackOK
  <2> QED BY <2>1, <2>2
<1>13. Opened'
  BY <1>1, <1>3, <1>7 DEF Base, Opened, TypeOK
<1>14. CASE long_write_queue' = Append(long_write_queue, r)
            /\ UNCHANGED <<in_long_write, started, line>>
  <2>1. LineOK'
    <3>1. Moved(line', line, 0, {})
      BY <1>5, <1>14, QueueEntries
    <3>2. Kept(0) \in SUBSET Entry
      BY KeptFacts
    <3> QED BY <1>0, <1>6, <1>10, <3>1, <3>2, LineKept DEF Base
  <2>2. Waits(r)'
    BY <1>1, <1>2, <1>3, <1>14 DEF Waits
  <2>3. QueueOK'
    <3>1. \A i \in DOMAIN long_write_queue' :
            \/ i \in DOMAIN long_write_queue /\ long_write_queue'[i] = long_write_queue[i]
            \/ /\ i = Len(long_write_queue) + 1 /\ i \notin DOMAIN long_write_queue
               /\ long_write_queue'[i] = r
      BY <1>5, <1>14, Pushed
    <3>2. ASSUME NEW i \in DOMAIN long_write_queue' PROVE Waits(long_write_queue[i])'
      <4>1. PICK x \in Long : x = long_write_queue'[i]
        BY <1>6, QueueEntries
      <4>2. Waits(x)'
        <5>1. CASE x = r
          BY <2>2, <5>1
        <5>2. CASE x # r
          <6>1. Waits(x) /\ x \notin started'
            BY <1>14, <3>1, <4>1, <5>2 DEF Base, QueueOK, Waits
          <6> QED BY <1>11, <5>2, <6>1
        <5> QED BY <5>1, <5>2
      <4> QED BY <4>1, <4>2 DEF Waits
    <3>3. \A i, j \in DOMAIN long_write_queue' :
            i # j => long_write_queue'[i] # long_write_queue'[j]
      BY <1>2, <3>1 DEF Base, QueueOK
    <3> QED BY <3>2, <3>3 DEF QueueOK
  <2> QED BY <1>2, <1>8, <1>12, <1>13, <2>1, <2>3 DEF Base
<1>15. CASE /\ line' = Append(line, e) /\ started' = started \union {r}
            /\ UNCHANGED long_write_queue
  <2>1. EntryOK(e)'
    BY <1>1, <1>2, <1>3, <1>4, <1>15 DEF EntryOK, HandlersOf
  <2>2. LineOK'
    <3>1. Moved(line', line, 0, {e})
      BY <1>4, <1>5, <1>15, Pushed
    <3>2. Kept(0) \in SUBSET Entry
      BY KeptFacts
    <3>3. \A x \in Kept(0) : Apart(e, x)
      BY <1>2, <1>4 DEF Apart
    <3> QED BY <1>0, <1>4, <1>6, <1>10, <2>1, <3>1, <3>2, <3>3, LineKept DEF Base
  <2>3. QueueOK'
    <3>1. \A i \in DOMAIN long_write_queue : Waits(long_write_queue[i])'
      <4> SUFFICES ASSUME NEW i \in DOMAIN long_write_queue
                   PROVE  Waits(long_write_queue[i])'
        OBVIOUS
      <4>1. PICK x \in Long : x = long_write_queue[i]
        BY <1>5, QueueEntries
      <4>2. Waits(x) /\ x # r
        BY <1>2, <4>1 DEF Base, QueueOK
      <4>3. x \notin started'
        BY <1>15, <4>2 DEF Waits
      <4>4. Waits(x)'
        BY <1>11, <4>2, <4>3
      <4> QED BY <1>15, <4>1, <4>4 DEF Waits
    <3> QED BY <1>15, <3>1 DEF QueueOK, Base
  <2> QED BY <1>2, <1>8, <1>12, <1>13, <2>2, <2>3 DEF Base
<1> QED BY <1>0, <1>14, <1>15 DEF e

(* A PDU is put on the line behind the others.                             *)
LEMMA PushedBase ==
  ASSUME GattConstantsOK, Base, NEW e \in Entry, line' = Append(line, e),
         UNCHANGED <<usage, long_write_queue, in_callback>>,
         EntryOK(e)', \A x \in Kept(0) : EntryOK(x)' /\ Apart(e, x),
         \A x \in Long : Waits(x) => Waits(x)',
         \A x \in Writes : refs[x] = 1 => refs'[x] = 1,
         line' \in Seq(Entry) => TypeOK', Counted', Opened'
  PROVE  Base'
<1>1. line \in Seq(Entry) /\ long_write_queue \in Seq(Long)
  BY DEF Base, TypeOK
<1>2. line' \in Seq(Entry) /\ Moved(line', line, 0, {e}) /\ line' # <<>>
      /\ \A i \in DOMAIN line : line'[i] = line[i]
  BY <1>1, Pushed
<1>3. LineOK'
  <2>1. Kept(0) \in SUBSET Entry
    BY KeptFacts
  <2> QED BY <1>2, <2>1, LineKept DEF Base
<1>4. QueueOK'
  <2>1. Moved(long_write_queue', long_write_queue, 0, {})
    BY <1>1, QueueEntries
  <2> QED BY <1>1, <2>1, QueueKept
<1>5. CallbackOK'
  <2>1. line # <<>> => line'[1] = line[1] /\ line[1].req \in Writes
    BY <1>1, <1>2, Popped, HeadFacts
  <2> QED BY <1>2, <2>1 DEF Base, CallbackOK
<1> QED BY <1>2, <1>3, <1>4, <1>5 DEF Base

(* The head of the line is done with.                                      *)
LEMMA HandledBase ==
  ASSUME GattConstantsOK, Base, line # <<>>, line' \in Seq(Entry),
         NEW E \in SUBSET Entry, Moved(line', line, 1, E),
         \A x \in Kept(1) : EntryOK(x)', \A e \in E : EntryOK(e)',
         \A e \in E, x \in Kept(1) : Apart(e, x),
         usage' = usage, in_callback' = FALSE,
         TypeOK', QueueOK', Counted', Opened'
  PROVE  Base'
<1>1. LineOK'
  <2>1. Kept(1) \in SUBSET Entry
    BY KeptFacts
  <2> QED BY <2>1, LineKept DEF Base
<1> QED BY <1>1 DEF Base, CallbackOK

(* A PDU of a session, new or going on.                                    *)
LEMMA PrepareWriteBase ==
  ASSUME GattConstantsOK, Base, NEW r \in Session, PrepareWrite(r)
  PROVE  Base'
<1>0. r \in Writes /\ chunk[r] + 1 \in Nat
  BY Types DEF Base
<1>e. PICK e \in Entry : e = Prep(r, chunk[r] + 1, "prep_write_cb", FALSE)
  BY <1>0 DEF Prep, Entry
<1>1. /\ Patient => Of(r) = {}
      /\ \/ session = None /\ Create(r)
         \/ session = r /\ PendingRequest(r) /\ UNCHANGED <<created, refs>>
      /\ session' = r
      /\ data' = [data EXCEPT ![r] = "prep_write_op"]
      /\ chunk' = [chunk EXCEPT ![r] = @ + 1]
      /\ line' = Append(line, e)
      /\ started' = started \union {r}
      /\ UNCHANGED <<usage, in_long_write, long_write_queue, removed, in_callback,
                     ended, prepared, commit>>
  BY <1>e DEF PrepareWrite, Patient, server
<1>2. /\ r \in Writes /\ r \notin Long /\ started \subseteq created /\ removed \subseteq created
      /\ refs \in [Writes -> Nat] /\ chunk \in [Writes -> Nat]
  BY Types DEF Base, TypeOK
<1>3. /\ refs' \in [Writes -> Nat] /\ Counted' /\ refs'[r] = 1
      /\ created' = created \union {r}
      /\ \A x \in Writes : x # r => refs'[x] = refs[x]
  <2>1. CASE Create(r)
    <3>1. created' = created \union {r}
      BY <2>1 DEF Create
    <3> QED BY <1>2, <2>1, <3>1, Fresh
  <2>2. CASE PendingRequest(r) /\ UNCHANGED <<created, refs>>
    BY <1>2, <2>2 DEF PendingRequest, Base, Counted
  <2> QED BY <1>1, <2>1, <2>2
<1>4. /\ data' \in [Writes -> {"none", "long_write_op", "prep_write_op", "write_op"}]
      /\ \A x \in Writes : data'[x] = IF x = r THEN "prep_write_op" ELSE data[x]
      /\ chunk' \in [Writes -> Nat]
      /\ \A x \in Writes : x # r => chunk'[x] = chunk[x]
  BY <1>1, <1>2 DEF Base, TypeOK
<1>5. e \in Entry /\ e.req = r /\ e.cb = "prep_write_cb" /\ e.pdu = "PREP" /\ e.owns = FALSE
  BY <1>e DEF Prep
<1>6. line' \in Seq(Entry) => TypeOK'
  BY <1>1, <1>2, <1>3, <1>4 DEF Base, TypeOK
<1>7. EntryOK(e)'
  <2>1. e.req \in started' /\ e.cb \in HandlersOf(e.req)
    BY <1>1, <1>2, <1>5 DEF HandlersOf
  <2>2. refs'[e.req] = 1 /\ data'[e.req] \in Expects(e.cb)
    BY <1>2, <1>3, <1>4, <1>5, Expectations
  <2> QED BY <1>2, <1>5, <2>1, <2>2 DEF EntryOK
<1>8. \A x \in Kept(0) : x \in Entry /\ EntryOK(x) /\ x.req \in Writes
  BY KeptFacts
<1>9. \A x \in Kept(0) : x.req = r => ~ Patient
  BY <1>1 DEF Kept, Of
<1>10. ASSUME NEW x \in Kept(0) PROVE EntryOK(x)' /\ Apart(e, x)
  <2>1. Apart(e, x)
    BY <1>2, <1>5, <1>9 DEF Apart
  <2>2. CASE x.req = r
    BY <1>1, <1>2, <1>8, <1>9, <2>1, <2>2, EntrySame
  <2>3. CASE x.req # r
    <3>1. x.req \in started' /\ x.req \in Writes /\ x \in Entry /\ EntryOK(x)
      BY <1>1, <1>8 DEF EntryOK
    <3> QED BY <1>1, <1>3, <1>4, <2>1, <2>3, <3>1, EntrySame
  <2> QED BY <2>1, <2>2, <2>3
<1>11. \A x \in Long : Waits(x) => Waits(x)'
  BY <1>1, <1>2, <1>3, <1>4 DEF Waits, Writes
<1>12. \A x \in Writes : refs[x] = 1 => refs'[x] = 1
  BY <1>3
<1>13. Opened'
  BY <1>1, <1>2, <1>3, <1>4 DEF Base, Opened, TypeOK
<1>14. line' = Append(line, e) /\ UNCHANGED <<usage, long_write_queue, in_callback>>
  BY <1>1
<1> QED BY <1>3, <1>5, <1>6, <1>7, <1>10, <1>11, <1>12, <1>13, <1>14, PushedBase

(* The PDU that ends a write, when its request stays what it is or becomes *)
(* the op of an EXECUTE WRITE.                                             *)
LEMMA EndingBase ==
  ASSUME GattConstantsOK, Base, NEW r \in Writes, PendingRequest(r), r \in started,
         NEW pdu \in {"COMMIT", "CANCEL"},
         NEW cb \in {"exec_write_cb", "cancel_long_write_cb", "cancel_prep_write_cb"},
         cb \in HandlersOf(r), line' = Append(line, Exec(pdu, r, cb, cb # "cancel_long_write_cb")),
         r \in Session /\ Patient => Of(r) = {},
         UNCHANGED <<usage, in_long_write, session, long_write_queue, created, refs, started,
                     chunk, in_callback, ended, prepared, commit>>,
         \/ cb = "exec_write_cb" /\ data' = [data EXCEPT ![r] = "write_op"]
         \/ cb # "exec_write_cb" /\ data' = data,
         removed' \subseteq created, Opened
  PROVE  Base'
<1> DEFINE e == Exec(pdu, r, cb, cb # "cancel_long_write_cb")
<1>1. /\ refs[r] = 1 /\ started \subseteq created /\ refs \in [Writes -> Nat]
      /\ r \in Long => r \notin Session
      /\ r \in Long => cb = "cancel_long_write_cb"
      /\ r \in Session => r \notin Long /\ cb \in {"exec_write_cb", "cancel_prep_write_cb"}
      /\ r \in Long \/ r \in Session
  BY Types DEF PendingRequest, Base, Counted, HandlersOf, Writes
<1>2. e \in Entry /\ e.req = r /\ e.cb = cb /\ e.pdu = pdu /\ e.owns = (cb # "cancel_long_write_cb")
  BY DEF Exec, Entry
<1> HIDE DEF e
<1>3. /\ data' \in [Writes -> {"none", "long_write_op", "prep_write_op", "write_op"}]
      /\ \A x \in Writes : x # r \/ r \in Long => data'[x] = data[x]
      /\ cb = "exec_write_cb" => data'[r] = "write_op"
      /\ cb # "exec_write_cb" => data'[r] = data[r]
  BY <1>1 DEF Base, TypeOK
<1>4. line' \in Seq(Entry) => TypeOK'
  BY <1>3 DEF Base, TypeOK
<1>5. r \in Session => data'[r] \in Expects(cb)
  <2>1. r \in created /\ data[r] \in {"long_write_op", "prep_write_op", "write_op"}
    BY DEF PendingRequest, Opened, Base, TypeOK
  <2> QED BY <1>1, <1>3, <2>1, Expectations
<1>6. EntryOK(e)'
  BY <1>1, <1>2, <1>5 DEF EntryOK, Patient
<1>7. \A x \in Kept(0) : x \in Entry /\ EntryOK(x) /\ x.req \in Writes
  BY KeptFacts
<1>8. \A x \in Kept(0) : x.req = r => r \in Long \/ ~ Patient
  BY <1>1 DEF Kept, Of
<1>9. ASSUME NEW x \in Kept(0) PROVE EntryOK(x)' /\ Apart(e, x)
  <2>1. Apart(e, x)
    BY <1>1, <1>2, <1>8 DEF Apart
  <2>2. x \in Entry /\ EntryOK(x) /\ x.req \in Writes /\ x.req \in started'
    BY <1>7 DEF EntryOK
  <2>3. CASE x.req = r /\ r \notin Long
    BY <1>8, <2>1, <2>2, <2>3, EntrySame
  <2>4. CASE x.req # r \/ r \in Long
    BY <1>3, <2>1, <2>2, <2>4, EntrySame
  <2> QED BY <2>1, <2>3, <2>4
<1>10. \A x \in Long : Waits(x) => Waits(x)'
  BY <1>3 DEF Waits, Writes
<1>11. Counted' /\ Opened'
  BY <1>1, <1>3 DEF Base, Counted, Opened, TypeOK
<1>12. line' = Append(line, e)
  BY DEF e
<1> QED BY <1>2, <1>4, <1>6, <1>9, <1>10, <1>11, <1>12, PushedBase

(* Executing and cancelling.                                               *)
LEMMA EndsBase ==
  ASSUME GattConstantsOK, Base
  PROVE  /\ \A r \in Session : WriteExecute(r) \/ CancelSession(r) => Base'
         /\ \A r \in Long : CancelLong(r) => Base'
<1>1. ASSUME NEW r \in Session, WriteExecute(r) PROVE Base'
  <2>1. r \in Writes /\ r \notin Long /\ r \in started /\ removed' \subseteq created
    BY <1>1, Types DEF Base, Opened, PendingRequest, WriteExecute
  <2>2. "exec_write_cb" \in HandlersOf(r) /\ ("exec_write_cb" # "cancel_long_write_cb") = TRUE
    BY <2>1 DEF HandlersOf
  <2> QED BY <1>1, <2>1, <2>2, EndingBase DEF WriteExecute, client, server, Patient, Base
<1>2. ASSUME NEW r \in Session, CancelSession(r) PROVE Base'
  <2>1. r \in Writes /\ r \notin Long /\ r \in started /\ removed' \subseteq created
    BY <1>2, Types DEF Base, Opened, PendingRequest, CancelSession
  <2>2. "cancel_prep_write_cb" \in HandlersOf(r)
        /\ ("cancel_prep_write_cb" # "cancel_long_write_cb") = TRUE
    BY <2>1 DEF HandlersOf
  <2> QED BY <1>2, <2>1, <2>2, EndingBase DEF CancelSession, client, server, Patient, Base
<1>3. ASSUME NEW r \in Long, CancelLong(r) PROVE Base'
  <2>1. r \in Writes /\ r \notin Session /\ removed' \subseteq created
        /\ UNCHANGED <<usage, in_long_write, session, created, refs, started, data,
                       chunk, in_callback, ended, prepared, commit>>
    BY <1>3, Types DEF Base, PendingRequest, CancelLong, server
  <2>2. CASE r \in started
    <3>1. "cancel_long_write_cb" \in HandlersOf(r)
          /\ ("cancel_long_write_cb" # "cancel_long_write_cb") = FALSE
      BY DEF HandlersOf
    <3> QED BY <1>3, <2>1, <2>2, <3>1, EndingBase DEF CancelLong, Patient, Base
  <2>3. CASE r \notin started
    <3> DEFINE q == long_write_queue
    <3>1. line' = line /\ q' = RemoveFirst(q, r)
      BY <1>3, <2>3 DEF CancelLong
    <3>2. line \in Seq(Entry) /\ q \in Seq(Long)
      BY Types DEF Base
    <3> HIDE DEF q
    <3>3. q' = q \/ \E k \in DOMAIN q : q' = RemoveAt(q, k)
      BY <3>1, <3>2, FirstRemoved
    <3>4. /\ q' \in Seq(Long)
          /\ \A i \in DOMAIN q' : \E j \in DOMAIN q : q'[i] = q[j]
          /\ \A i, j \in DOMAIN q' : i # j => q'[i] # q'[j]
      <4>1. \A i, j \in DOMAIN q : i # j => q[i] # q[j]
        BY DEF q, Base, QueueOK
      <4>2. CASE q' = q
        BY <3>2, <4>1, <4>2
      <4>3. CASE q' # q
        <5>1. PICK k \in DOMAIN q : q' = RemoveAt(q, k)
          BY <3>3, <4>3
        <5>2. k \in Nat /\ DOMAIN q' = 1 .. Len(q') /\ q' \in Seq(Long)
          BY <3>2, <5>1, RemovedAt, QueueEntries
        <5>3. \A i \in DOMAIN q' :
                LET j == IF i < k THEN i ELSE i + 1 IN j \in DOMAIN q /\ q'[i] = q[j]
          <6> DEFINE p == RemoveAt(q, k)
          <6>1. \A i \in DOMAIN p :
                  LET j == IF i < k THEN i ELSE i + 1 IN j \in DOMAIN q /\ p[i] = q[j]
            BY <3>2, RemovedAt
          <6> HIDE DEF p
          <6>2. q' = p
            BY <5>1 DEF p
          <6> QED BY <6>1, <6>2
        <5>4. \A i, j \in DOMAIN q' :
                i # j => (IF i < k THEN i ELSE i + 1) # (IF j < k THEN j ELSE j + 1)
          BY <5>2
        <5>5. \A i, j \in DOMAIN q' : i # j => q'[i] # q'[j]
          BY <4>1, <5>3, <5>4
        <5> QED BY <5>2, <5>3, <5>5
      <4> QED BY <4>2, <4>3
    <3>5. \A x \in Writes : Waits(x) => Waits(x)'
      BY <2>1 DEF Waits
    <3>6. QueueOK'
      <4>1. ASSUME NEW i \in DOMAIN q' PROVE Waits(long_write_queue[i])'
        <5>1. PICK j \in DOMAIN q : q'[i] = q[j]
          BY <3>4
        <5>2. q[j] \in Writes /\ Waits(q[j])
          BY <3>2, QueueEntries DEF q, Base, QueueOK, Writes
        <5>3. PICK x \in Writes : x = q[j]
          BY <5>2
        <5>4. Waits(x)'
          BY <3>5, <5>2, <5>3
        <5> QED BY <5>1, <5>3, <5>4 DEF Waits, q
      <4> QED BY <3>4, <4>1 DEF QueueOK, q
    <3>7. TypeOK'
      BY <2>1, <3>1, <3>2, <3>4 DEF TypeOK, Base, q
    <3>8. LineOK' /\ CallbackOK' /\ Counted' /\ Opened'
      BY <2>1, <3>1 DEF Base, LineOK, EntryOK, Patient, Apart, CallbackOK, Counted, Opened
    <3> QED BY <3>6, <3>7, <3>8 DEF Base
  <2> QED BY <2>2, <2>3
<1> QED BY <1>1, <1>2, <1>3

-----------------------------------------------------------------------------
(* Answers.                                                                *)

(* HandledBase, with nothing new on the line and with one PDU.             *)
LEMMA TakenBase ==
  ASSUME GattConstantsOK, Base, line # <<>>, line' \in Seq(Entry),
         Moved(line', line, 1, {}), \A x \in Kept(1) : EntryOK(x)',
         usage' = usage, in_callback' = FALSE, TypeOK', QueueOK', Counted', Opened'
  PROVE  Base'
<1> DEFINE E == {}
<1>1. E \in SUBSET Entry /\ Moved(line', line, 1, E)
      /\ (\A e \in E : EntryOK(e)') /\ \A e \in E, x \in Kept(1) : Apart(e, x)
  OBVIOUS
<1> HIDE DEF E
<1> QED BY <1>1, HandledBase

(* (The PDU is behind the others, and the head is gone.)                   *)
LEMMA TradedBase ==
  ASSUME GattConstantsOK, Base, line # <<>>, line' \in Seq(Entry),
         NEW e \in Entry, Moved(line', line, 1, {e}),
         \A x \in Kept(1) : EntryOK(x)' /\ Apart(e, x), EntryOK(e)',
         usage' = usage, in_callback' = FALSE, TypeOK', QueueOK', Counted', Opened'
  PROVE  Base'
<1> DEFINE E == {e}
<1>1. E \in SUBSET Entry /\ Moved(line', line, 1, E)
      /\ \A x \in Kept(1) : EntryOK(x)'
  OBVIOUS
<1>2. \A y \in E, x \in Kept(1) : Apart(y, x)
  OBVIOUS
<1>3. \A y \in E : EntryOK(y)'
  <2> SUFFICES ASSUME NEW y \in E PROVE EntryOK(y)'
    OBVIOUS
  <2>1. y = e
    OBVIOUS
  <2> QED BY <2>1 DEF EntryOK
<1> HIDE DEF E
<1> QED BY <1>1, <1>2, <1>3, HandledBase

(* What Handling says of the head of the line, and Executes and Prepares   *)
(* of the server's queue.                                                  *)
LEMMA HandlingFacts ==
  ASSUME GattConstantsOK, Base, NEW cb, Handling(cb)
  PROVE  /\ line # <<>> /\ ~ in_callback /\ Head(line) = line[1] /\ line[1].cb = cb
         /\ line[1] \in Entry /\ EntryOK(line[1]) /\ cb \in HandlersOf(line[1].req)
         /\ line[1].req \in Writes
         /\ cb # "cancel_long_write_cb" => refs[line[1].req] = 1
<1>1. /\ line # <<>> /\ ~ in_callback /\ Head(line).cb = cb /\ Sound(Head(line))
  BY DEF Handling
<1>2. /\ Head(line) = line[1] /\ line[1] \in Entry /\ EntryOK(line[1]) /\ line[1].req \in Writes
  BY <1>1, HeadFacts
<1>3. cb # "cancel_long_write_cb" => refs[line[1].req] > 0
  BY <1>1, <1>2 DEF Sound
<1>4. cb # "cancel_long_write_cb" => refs[line[1].req] = 1
  BY <1>2, <1>3 DEF Base, Counted
<1> QED BY <1>1, <1>2, <1>4 DEF EntryOK

(* What the server has queued and committed are PDUs.                      *)
LEMMA ServerTypes ==
  ASSUME GattConstantsOK, Base, NEW e \in Entry
  PROVE  /\ \A outcome : Prepares(e, outcome) => prepared' \in Seq(Writes \X Nat)
         /\ Executes(e) => prepared' \in Seq(Writes \X Nat) /\ commit' \in Seq(Writes \X Nat)
<1>1. prepared \in Seq(Writes \X Nat) /\ commit \in Seq(Writes \X Nat)
  BY DEF Base, TypeOK
<1>2. <<e.req, e.chunk>> \in Writes \X Nat
  BY DEF Entry
<1>3. Append(prepared, <<e.req, e.chunk>>) \in Seq(Writes \X Nat)
  <2> DEFINE x == <<e.req, e.chunk>>
  <2> HIDE DEF x
  <2>1. Append(prepared, x) \in Seq(Writes \X Nat)
    BY <1>1, <1>2, Pushed DEF x
  <2> QED BY <2>1 DEF x
<1>4. <<>> \in Seq(Writes \X Nat)
  OBVIOUS
<1> QED BY <1>1, <1>3, <1>4 DEF Prepares, Executes

(* A handler that changes nothing of any request.                          *)
LEMMA QuietBase ==
  ASSUME GattConstantsOK, Base, line # <<>>, line' = Tail(line), in_callback' = FALSE,
         UNCHANGED <<usage, long_write_queue, request>>,
         in_long_write' \in BOOLEAN, session' = session, ended' = ended,
         prepared' \in Seq(Writes \X Nat), commit' \in Seq(Writes \X Nat)
  PROVE  Base'
<1>1. /\ line' \in Seq(Entry) /\ Moved(line', line, 1, {})
  BY Popped DEF Base, TypeOK
<1>2. UNCHANGED <<usage, long_write_queue, created, refs, removed, started, data, chunk>>
  BY DEF request
<1>3. TypeOK'
  BY <1>1, <1>2 DEF Base, TypeOK
<1>4. \A x \in Kept(1) : EntryOK(x)'
  <2> SUFFICES ASSUME NEW x \in Kept(1) PROVE EntryOK(x)'
    OBVIOUS
  <2>1. x \in Entry /\ EntryOK(x) /\ x.req \in started'
    BY <1>2, KeptFacts DEF EntryOK
  <2> QED BY <1>2, <2>1, EntrySame
<1>5. QueueOK' /\ Counted' /\ Opened'
  BY <1>2 DEF Base, QueueOK, Waits, Counted, Opened
<1> QED BY <1>1, <1>2, <1>3, <1>4, <1>5, TakenBase

(* prepare_write_cb: the next PDU takes the head's place.                  *)
LEMMA PrepareWriteCbBase ==
  ASSUME GattConstantsOK, Base, NEW outcome \in Outcomes, PrepareWriteCb(outcome)
  PROVE  Base'
<1>1. Handling("prepare_write_cb")
  BY DEF PrepareWriteCb
<1>2. PICK r \in Writes : r = line[1].req
  BY <1>1, HandlingFacts
<1>3. /\ line # <<>> /\ ~ in_callback /\ Head(line) = line[1]
      /\ line[1] \in Entry /\ r \in Long /\ line[1].owns
      /\ r \in started /\ refs[r] = 1 /\ data[r] = "long_write_op"
  BY <1>1, <1>2, HandlingFacts DEF EntryOK, HandlersOf
<1> DEFINE more == outcome = "echoed" /\ chunk[r] < Chunks[r]
<1>4. PICK e \in Entry :
        /\ e.req = r /\ e.cb \in {"prepare_write_cb", "execute_write_cb"}
        /\ (e.pdu = "PREP" <=> e.cb = "prepare_write_cb") /\ e.owns
        /\ line' = Append(Tail(line), e)
  <2>1. chunk[r] + 1 \in Nat
    BY Types DEF Base
  <2>2. Prep(r, chunk[r] + 1, "prepare_write_cb", TRUE) \in Entry
    BY <2>1 DEF Prep, Entry
  <2>3. \A pdu \in {"COMMIT", "CANCEL"} : Exec(pdu, r, "execute_write_cb", TRUE) \in Entry
    BY DEF Exec, Entry
  <2>4. CASE more
    <3>1. line' = Append(Tail(line), Prep(r, chunk[r] + 1, "prepare_write_cb", TRUE))
      BY <1>2, <1>3, <2>4 DEF PrepareWriteCb
    <3> QED BY <2>2, <3>1 DEF Prep
  <2>5. CASE ~ more
    <3>1. PICK pdu \in {"COMMIT", "CANCEL"} :
            line' = Append(Tail(line), Exec(pdu, r, "execute_write_cb", TRUE))
      BY <1>2, <1>3, <2>5 DEF PrepareWriteCb
    <3> QED BY <2>3, <3>1 DEF Exec
  <2> QED BY <2>4, <2>5
<1>5. /\ chunk' \in [Writes -> Nat] /\ \A x \in Writes : x # r => chunk'[x] = chunk[x]
      /\ UNCHANGED <<usage, in_long_write, session, long_write_queue, created, refs, removed,
                     started, data, in_callback, ended, commit>>
      /\ prepared' \in Seq(Writes \X Nat)
  <2>1. chunk' = [chunk EXCEPT ![r] = IF more THEN @ + 1 ELSE @]
    BY <1>2, <1>3 DEF PrepareWriteCb
  <2>2. chunk' \in [Writes -> Nat] /\ \A x \in Writes : x # r => chunk'[x] = chunk[x]
    BY <2>1, Types DEF Base
  <2>3. prepared' \in Seq(Writes \X Nat)
    BY <1>3, ServerTypes DEF PrepareWriteCb
  <2> QED BY <2>2, <2>3 DEF PrepareWriteCb, client
<1>6. line' \in Seq(Entry) /\ Moved(line', line, 1, {e})
  BY <1>3, <1>4, PoppedPushed DEF Base, TypeOK
<1>7. TypeOK'
  BY <1>5, <1>6 DEF Base, TypeOK
<1>8. \A x \in Kept(1) : EntryOK(x)' /\ Apart(e, x)
  <2> SUFFICES ASSUME NEW x \in Kept(1) PROVE EntryOK(x)' /\ Apart(e, x)
    OBVIOUS
  <2>1. x \in Entry /\ EntryOK(x) /\ x.req \in started' /\ Apart(line[1], x)
    BY <1>5, KeptFacts DEF EntryOK
  <2>2. EntryOK(x)'
    BY <1>5, <2>1, EntrySame
  <2>3. Apart(e, x)
    BY <1>2, <1>3, <1>4, <2>1 DEF Apart
  <2> QED BY <2>2, <2>3
<1>9. EntryOK(e)'
  <2>1. r \notin Session
    BY <1>3, Types DEF Base
  <2> QED BY <1>3, <1>4, <1>5, <2>1 DEF EntryOK, HandlersOf
<1>10. QueueOK'
  <2>1. \A x \in Long : Waits(x) => Waits(x)'
    BY <1>3, <1>5 DEF Waits, Writes
  <2>2. long_write_queue \in Seq(Long) /\ Moved(long_write_queue', long_write_queue, 0, {})
    BY <1>5, QueueEntries DEF Base, TypeOK
  <2> QED BY <1>5, <2>1, <2>2, QueueKept
<1>11. Counted' /\ Opened' /\ in_callback' = FALSE
  BY <1>3, <1>5 DEF Base, Counted, Opened, TypeOK
<1> QED BY <1>3, <1>5, <1>6, <1>7, <1>8, <1>9, <1>10, <1>11, TradedBase

(* prep_write_cb and cancel_long_write_cb.                                 *)
LEMMA QuietHandlersBase ==
  ASSUME GattConstantsOK, Base
  PROVE  /\ \A outcome : PrepWriteCb(outcome) => Base'
         /\ CancelLongWriteCb => Base'
<1>1. ASSUME NEW outcome, PrepWriteCb(outcome) PROVE Base'
  <2>1. line # <<>> /\ ~ in_callback /\ Head(line) \in Entry
    BY <1>1, HandlingFacts DEF PrepWriteCb
  <2>2. prepared' \in Seq(Writes \X Nat)
    BY <1>1, <2>1, ServerTypes DEF PrepWriteCb
  <2>3. /\ line' = Tail(line) /\ UNCHANGED <<usage, in_long_write, session, long_write_queue,
                                             request, in_callback, ended, commit>>
    BY <1>1 DEF PrepWriteCb, client
  <2>4. in_callback' = FALSE /\ in_long_write' \in BOOLEAN /\ commit' \in Seq(Writes \X Nat)
    BY <2>1, <2>3 DEF Base, TypeOK
  <2> QED BY <2>1, <2>2, <2>3, <2>4, QuietBase
<1>2. ASSUME CancelLongWriteCb PROVE Base'
  <2>1. line # <<>> /\ ~ in_callback /\ Head(line) \in Entry
    BY <1>2, HandlingFacts DEF CancelLongWriteCb
  <2>2. prepared' \in Seq(Writes \X Nat) /\ commit' \in Seq(Writes \X Nat)
    BY <1>2, <2>1, ServerTypes DEF CancelLongWriteCb
  <2>3. /\ line' = Tail(line) /\ UNCHANGED <<usage, session, long_write_queue,
                                             request, in_callback, ended>>
        /\ in_long_write' \in BOOLEAN
    BY <1>2 DEF CancelLongWriteCb
  <2>4. in_callback' = FALSE
    BY <2>1, <2>3 DEF Base, TypeOK
  <2> QED BY <2>1, <2>2, <2>3, <2>4, QuietBase
<1> QED BY <1>1, <1>2

(* execute_write_cb and exec_write_cb up to the callback.                  *)
LEMMA WriteEndsBase ==
  ASSUME GattConstantsOK, Base, WriteEnds
  PROVE  Base'
<1>1. PICK cb \in {"execute_write_cb", "exec_write_cb"} : Handling(cb)
  BY DEF WriteEnds
<1>2. /\ line # <<>> /\ line[1].cb = cb /\ refs[line[1].req] = 1
      /\ Head(line) \in Entry /\ Head(line).req \in Writes
  <2>1. cb # "cancel_long_write_cb"
    BY <1>1
  <2> QED BY <1>1, <2>1, HandlingFacts
<1>3. /\ UNCHANGED <<usage, in_long_write, session, long_write_queue, created, refs, removed,
                     started, data, chunk, line>>
      /\ in_callback' = TRUE
  BY DEF WriteEnds, client, request
<1>4. TypeOK'
  <2>1. ended' \in [Writes -> Nat]
    BY <1>2 DEF WriteEnds, Base, TypeOK
  <2>2. prepared' \in Seq(Writes \X Nat) /\ commit' \in Seq(Writes \X Nat)
    BY <1>2, ServerTypes DEF WriteEnds
  <2> QED BY <1>3, <2>1, <2>2 DEF Base, TypeOK
<1>5. LineOK' /\ QueueOK' /\ Counted' /\ Opened'
  BY <1>3 DEF Base, LineOK, EntryOK, Patient, Apart, QueueOK, Waits, Counted, Opened
<1>6. CallbackOK'
  BY <1>1, <1>2, <1>3 DEF CallbackOK
<1> QED BY <1>4, <1>5, <1>6 DEF Base

(* The head of the line gives its reference back.                          *)
LEMMA GivenBack ==
  ASSUME GattConstantsOK, Base, line # <<>>, refs[line[1].req] = 1, line[1].owns,
         Unref(line[1].req), started \subseteq started',
         UNCHANGED <<usage, created, data, chunk>>
  PROVE  /\ refs' \in [Writes -> Nat] /\ Counted' /\ refs'[line[1].req] = 0
         /\ \A x \in Writes : x # line[1].req => refs'[x] = refs[x]
         /\ \A x \in Kept(1) : EntryOK(x)'
         /\ \A x \in Writes : Waits(x) /\ x \notin started' => Waits(x)'
<1>1. PICK h \in Entry : h = line[1]
  BY HeadFacts
<1>2. /\ h.req \in Writes /\ h.req \in started /\ h.owns /\ refs[h.req] = 1
      /\ \A x \in Kept(1) : Apart(h, x)
      /\ refs' = [refs EXCEPT ![h.req] = @ - 1]
  BY <1>1, HeadFacts DEF EntryOK, Unref
<1>3. /\ refs' \in [Writes -> Nat] /\ refs'[h.req] = 0
      /\ \A x \in Writes : x # h.req => refs'[x] = refs[x]
  BY <1>2, Types DEF Base
<1>4. Counted'
  BY <1>3 DEF Base, Counted
<1>5. ASSUME NEW x \in Kept(1) PROVE EntryOK(x)'
  <2>1. x \in Entry /\ EntryOK(x) /\ x.req \in started' /\ x.req \in Writes /\ Apart(h, x)
    BY <1>2, KeptFacts DEF EntryOK
  <2>2. CASE x.req # h.req
    BY <1>3, <2>1, <2>2, EntrySame
  <2>3. CASE x.req = h.req
    <3>1. x.req \in Long => ~ x.owns /\ x.req \notin Session
      BY <1>2, <2>1, <2>3, Types DEF Apart, Base
    <3>2. x.req \notin Long => ~ Patient
      BY <2>1, <2>3 DEF Apart
    <3> QED BY <2>1, <3>1, <3>2, EntrySame
  <2> QED BY <2>2, <2>3
<1>6. ASSUME NEW x \in Writes, Waits(x), x \notin started' PROVE Waits(x)'
  BY <1>2, <1>3, <1>6 DEF Waits
<1> QED BY <1>1, <1>3, <1>4, <1>5, <1>6

(* What runs after the callback; the next long write is started.           *)
LEMMA WriteEndedBase ==
  ASSUME GattConstantsOK, Base, WriteEnded
  PROVE  Base'
<1>1. /\ line # <<>> /\ Head(line) = line[1] /\ line[1] \in Entry /\ EntryOK(line[1])
      /\ line[1].cb \in {"execute_write_cb", "exec_write_cb"} /\ refs[line[1].req] = 1
      /\ line[1].req \in started
  BY HeadFacts DEF WriteEnded, Base, CallbackOK, EntryOK
<1>2. line[1].owns
  BY <1>1 DEF EntryOK
<1>3. /\ Unref(line[1].req) /\ StartNext(Tail(line)) /\ in_callback' = FALSE
      /\ UNCHANGED <<usage, created, removed, data, chunk, ended, prepared, commit>>
      /\ session' \in Session \union {None}
  BY <1>1 DEF WriteEnded, server, Base, TypeOK
<1>4. line \in Seq(Entry) /\ long_write_queue \in Seq(Long) /\ started \subseteq created
  BY Types DEF Base
<1>5. CASE long_write_queue = <<>>
  <2>1. UNCHANGED <<long_write_queue, started>> /\ line' = Tail(line) /\ in_long_write' = FALSE
    BY <1>3, <1>5 DEF StartNext
  <2>2. /\ refs' \in [Writes -> Nat] /\ Counted' /\ \A x \in Kept(1) : EntryOK(x)'
        /\ \A x \in Writes : Waits(x) /\ x \notin started' => Waits(x)'
    BY <1>1, <1>2, <1>3, <2>1, GivenBack
  <2>3. line' \in Seq(Entry) /\ Moved(line', line, 1, {})
    BY <1>1, <1>4, <2>1, Popped
  <2>4. TypeOK'
    BY <1>3, <2>1, <2>2, <2>3 DEF Base, TypeOK
  <2>5. QueueOK' /\ Opened'
    BY <1>3, <1>5, <2>1 DEF Base, QueueOK, Opened
  <2> QED BY <1>1, <1>3, <2>2, <2>3, <2>4, <2>5, TakenBase
<1>6. CASE long_write_queue # <<>>
  <2>1. PICK q \in Long : q = Head(long_write_queue)
    BY <1>4, <1>6, Popped
  <2>2. PICK e \in Entry : e = FirstPrep(q)
    BY DEF FirstPrep, Prep, Entry, Writes
  <2>3. /\ long_write_queue' = Tail(long_write_queue) /\ line' = Append(Tail(line), e)
        /\ started' = started \union {q} /\ in_long_write' = in_long_write
    BY <1>3, <1>6, <2>1, <2>2 DEF StartNext
  <2>4. /\ refs' \in [Writes -> Nat] /\ Counted' /\ \A x \in Kept(1) : EntryOK(x)'
        /\ \A x \in Writes : Waits(x) /\ x \notin started' => Waits(x)'
        /\ \A x \in Writes : x # line[1].req => refs'[x] = refs[x]
    <3>1. started \subseteq started'
      BY <2>3
    <3> QED BY <1>1, <1>2, <1>3, <3>1, GivenBack
  <2>5. line' \in Seq(Entry) /\ Moved(line', line, 1, {e})
    BY <1>1, <1>4, <2>3, PoppedPushed
  <2>6. q = long_write_queue[1] /\ 1 \in DOMAIN long_write_queue /\ Waits(q) /\ q \in Writes
    <3>1. q = long_write_queue[1] /\ 1 \in DOMAIN long_write_queue
      BY <1>4, <1>6, <2>1, Popped
    <3> QED BY <3>1 DEF Base, QueueOK, Writes
  <2>7. /\ q \in created /\ q \notin started /\ refs[q] = 1 /\ data[q] = "long_write_op"
        /\ q # line[1].req /\ q \notin Session
    BY <1>1, <2>6, Types DEF Waits, Base
  <2>8. EntryOK(e)'
    BY <1>3, <2>2, <2>3, <2>4, <2>6, <2>7 DEF EntryOK, FirstPrep, Prep, HandlersOf
  <2>9. ASSUME NEW x \in Kept(1) PROVE EntryOK(x)' /\ Apart(e, x)
    <3>1. EntryOK(x)'
      BY <2>4
    <3>2. x.req \in started
      BY KeptFacts DEF EntryOK
    <3> QED BY <2>2, <2>7, <3>1, <3>2 DEF Apart, FirstPrep, Prep
  <2> DEFINE t == Tail(long_write_queue)
  <2>10. /\ t \in Seq(Long)
         /\ \A i \in DOMAIN t : /\ i \in Nat /\ i + 1 \in DOMAIN long_write_queue
                                /\ t[i] = long_write_queue[i + 1]
    BY <1>4, <1>6, Popped
  <2> HIDE DEF t
  <2>11. QueueOK'
    <3>1. \A i, j \in DOMAIN t : i # j => t[i] # t[j]
      <4>1. \A i, j \in DOMAIN t : i # j => i + 1 # j + 1
        BY <2>10
      <4> QED BY <2>10, <4>1 DEF Base, QueueOK
    <3>2. ASSUME NEW i \in DOMAIN t PROVE Waits(long_write_queue[i])'
      <4>1. i + 1 # 1
        BY <2>10
      <4>2. Waits(long_write_queue[i + 1]) /\ long_write_queue[i + 1] # q
        BY <2>6, <2>10, <4>1 DEF Base, QueueOK
      <4>3. long_write_queue[i + 1] \in Long
        BY <1>4, <2>10, QueueEntries
      <4>4. PICK x \in Long : x = t[i]
        BY <2>10, <4>3
      <4>5. Waits(x) /\ x # q
        BY <2>10, <4>2, <4>4
      <4>6. x \notin started' /\ x \in Writes
        BY <2>3, <4>5 DEF Waits, Writes
      <4>7. Waits(x)'
        BY <2>4, <4>5, <4>6
      <4>8. long_write_queue'[i] = x
        BY <2>3, <4>4 DEF t
      <4> QED BY <4>7, <4>8 DEF Waits
    <3>3. long_write_queue' = t
      BY <2>3 DEF t
    <3> QED BY <3>1, <3>2, <3>3 DEF QueueOK
  <2>12. TypeOK'
    <3>1. started' \subseteq created'
      BY <1>3, <1>4, <2>3, <2>7
    <3>2. long_write_queue' \in Seq(Long)
      BY <2>3, <2>10 DEF t
    <3> QED BY <1>3, <2>3, <2>4, <2>5, <3>1, <3>2 DEF Base, TypeOK
  <2>13. Opened'
    BY <1>3, <2>3 DEF Base, Opened
  <2> QED BY <1>1, <1>3, <2>4, <2>5, <2>8, <2>9, <2>11, <2>12, <2>13, TradedBase
<1> QED BY <1>5, <1>6

(* cancel_prep_write_cb ends the session.                                  *)
LEMMA CancelPrepWriteCbBase ==
  ASSUME GattConstantsOK, Base, CancelPrepWriteCb
  PROVE  Base'
<1>1. Handling("cancel_prep_write_cb")
  BY DEF CancelPrepWriteCb
<1>2. /\ line # <<>> /\ Head(line) = line[1] /\ line[1] \in Entry /\ EntryOK(line[1])
      /\ line[1].cb = "cancel_prep_write_cb" /\ refs[line[1].req] = 1
      /\ ~ in_callback
  BY <1>1, HandlingFacts
<1>3. line[1].owns
  BY <1>2 DEF EntryOK
<1>4. /\ Unref(line[1].req) /\ session' = None /\ line' = Tail(line)
      /\ UNCHANGED <<usage, in_long_write, long_write_queue, created, removed,
                     started, data, chunk, in_callback, ended>>
  BY <1>2 DEF CancelPrepWriteCb
<1>5. /\ refs' \in [Writes -> Nat] /\ Counted' /\ \A x \in Kept(1) : EntryOK(x)'
      /\ \A x \in Writes : Waits(x) /\ x \notin started' => Waits(x)'
  BY <1>2, <1>3, <1>4, GivenBack
<1>6. line' \in Seq(Entry) /\ Moved(line', line, 1, {})
  BY <1>2, <1>4, Types, Popped DEF Base
<1>7. prepared' \in Seq(Writes \X Nat) /\ commit' \in Seq(Writes \X Nat)
  BY <1>2, ServerTypes DEF CancelPrepWriteCb
<1>8. TypeOK'
  BY <1>4, <1>5, <1>6, <1>7 DEF Base, TypeOK
<1>9. QueueOK'
  <2>1. \A x \in Long : Waits(x) => Waits(x)'
    BY <1>4, <1>5 DEF Waits, Writes
  <2>2. long_write_queue \in Seq(Long) /\ Moved(long_write_queue', long_write_queue, 0, {})
    BY <1>4, Types, QueueEntries DEF Base
  <2> QED BY <1>4, <2>1, <2>2, QueueKept
<1>10. Opened' /\ in_callback' = FALSE
  BY <1>2, <1>4 DEF Base, Opened, TypeOK
<1> QED BY <1>2, <1>4, <1>5, <1>6, <1>8, <1>9, <1>10, TakenBase

(* The inductive invariant holds at first, and every step keeps it.        *)
LEMMA InitBase ==
  ASSUME GattConstantsOK, Init
  PROVE  Base
<1>1. TypeOK
  <2>1. line \in Seq(Entry) /\ long_write_queue \in Seq(Long)
        /\ prepared \in Seq(Writes \X Nat) /\ commit \in Seq(Writes \X Nat)
    BY EmptySeq DEF Init
  <2>2. /\ refs \in [Writes -> Nat] /\ chunk \in [Writes -> Nat] /\ ended \in [Writes -> Nat]
        /\ data \in [Writes -> {"none", "long_write_op", "prep_write_op", "write_op"}]
    BY DEF Init
  <2> QED BY <2>1, <2>2 DEF Init, TypeOK
<1>2. DOMAIN line = {} /\ DOMAIN long_write_queue = {}
  BY QueueEntries DEF Init
<1> QED BY <1>1, <1>2
     DEF Init, Base, LineOK, QueueOK, CallbackOK, Counted, Opened, TypeOK

(* Every step keeps the inductive invariant ...                            *)
LEMMA NextBase ==
  ASSUME GattConstantsOK, Base, [Next]_vars
  PROVE  Base'
<1>1. CASE Api
  BY <1>1, WriteLongBase, PrepareWriteBase, EndsBase DEF Api
<1>2. CASE Answer
  BY <1>2, PrepareWriteCbBase, QuietHandlersBase, WriteEndsBase, WriteEndedBase,
     CancelPrepWriteCbBase DEF Answer
<1>3. CASE UNCHANGED vars
  <2>1. UNCHANGED <<usage, in_long_write, session, long_write_queue, created, refs, removed,
                    started, data, chunk, line, in_callback, ended, prepared, commit>>
    BY <1>3 DEF vars, client, request, server
  <2> QED BY <2>1 DEF Base, TypeOK, LineOK, EntryOK, Patient, Apart, QueueOK, Waits,
                      CallbackOK, Counted, Opened
<1> QED BY <1>1, <1>2, <1>3 DEF Next

(* ... so it always holds.                                                 *)
LEMMA BaseAlways ==
  ASSUME GattConstantsOK
  PROVE  Spec => []Base
<1>1. Init => Base
  BY InitBase
<1>2. Base /\ [Next]_vars => Base'
  BY NextBase
<1> QED BY <1>1, <1>2, PTL DEF Spec

-----------------------------------------------------------------------------
(* Who holds the reference of a request.                                   *)

(* Some PDU of this line gives the reference of r back, r is in this queue.*)
Owned(l, r) == \E i \in DOMAIN l : l[i].req = r /\ l[i].owns
Listed(q, r) == \E i \in DOMAIN q : q[i] = r

(* A long write is held by the line or by the queue, unless it was         *)
(* cancelled; a session by being the open one.                             *)
Held ==
  Patient =>
    /\ "cancel" \notin usage =>
         \A r \in Long : refs[r] = 1 => Owned(line, r) \/ Listed(long_write_queue, r)
    /\ \A r \in Session : refs[r] = IF r = session THEN 1 ELSE 0

(* A PDU pushed, popped, or popped and replaced.                           *)
LEMMA OwnedPushed ==
  ASSUME NEW l \in Seq(Entry), NEW e \in Entry
  PROVE  \A r : Owned(l, r) \/ (e.req = r /\ e.owns) => Owned(Append(l, e), r)
<1> DEFINE a == Append(l, e)
<1>1. /\ \A i \in DOMAIN l : i \in DOMAIN a /\ a[i] = l[i]
      /\ Len(l) + 1 \in DOMAIN a /\ a[Len(l) + 1] = e
  BY Pushed
<1> HIDE DEF a
<1>2. ASSUME NEW r, Owned(l, r) PROVE Owned(a, r)
  BY <1>1, <1>2 DEF Owned
<1>3. ASSUME NEW r, e.req = r /\ e.owns PROVE Owned(a, r)
  BY <1>1, <1>3 DEF Owned
<1> QED BY <1>2, <1>3 DEF a

(* What the head held is not held by the line any more ...                 *)
LEMMA OwnedPopped ==
  ASSUME NEW l \in Seq(Entry), l # <<>>
  PROVE  \A r : Owned(l, r) /\ ~ (l[1].req = r /\ l[1].owns) => Owned(Tail(l), r)
<1> DEFINE t == Tail(l)
<1>1. \A i \in DOMAIN l : i = 1 \/ (i - 1 \in DOMAIN t /\ t[i - 1] = l[i])
  BY Popped
<1> HIDE DEF t
<1>2. \A r : Owned(l, r) /\ ~ (l[1].req = r /\ l[1].owns) => Owned(t, r)
  BY <1>1 DEF Owned
<1> QED BY <1>2 DEF t

(* ... unless the PDU that takes its place does.                           *)
LEMMA OwnedTraded ==
  ASSUME NEW l \in Seq(Entry), l # <<>>, NEW e \in Entry
  PROVE  \A r : \/ Owned(l, r) /\ ~ (l[1].req = r /\ l[1].owns)
                \/ e.req = r /\ e.owns
                => Owned(Append(Tail(l), e), r)
<1>1. Tail(l) \in Seq(Entry)
  BY Popped
<1> QED BY <1>1, OwnedPopped, OwnedPushed

(* How a queue of long writes goes on listing them.                        *)
LEMMA ListedStill ==
  ASSUME NEW q \in Seq(Long)
  PROVE  /\ \A r \in Long : Listed(Append(q, r), r)
                            /\ \A x : Listed(q, x) => Listed(Append(q, r), x)
         /\ q # <<>> => \A x : Listed(q, x) => x = Head(q) \/ Listed(Tail(q), x)
<1>1. ASSUME NEW r \in Long
      PROVE  Listed(Append(q, r), r) /\ \A x : Listed(q, x) => Listed(Append(q, r), x)
  <2> DEFINE a == Append(q, r)
  <2>1. /\ \A i \in DOMAIN q : i \in DOMAIN a /\ a[i] = q[i]
        /\ Len(q) + 1 \in DOMAIN a /\ a[Len(q) + 1] = r
    BY Pushed
  <2> HIDE DEF a
  <2>2. Listed(a, r) /\ \A x : Listed(q, x) => Listed(a, x)
    BY <2>1 DEF Listed
  <2> QED BY <2>2 DEF a
<1>2. ASSUME q # <<>>, NEW x, Listed(q, x) PROVE x = Head(q) \/ Listed(Tail(q), x)
  <2> DEFINE t == Tail(q)
  <2>1. /\ \A i \in DOMAIN q : i = 1 \/ (i - 1 \in DOMAIN t /\ t[i - 1] = q[i])
        /\ Head(q) = q[1]
    BY <1>2, Popped
  <2> HIDE DEF t
  <2>2. x = Head(q) \/ Listed(t, x)
    BY <1>2, <2>1 DEF Listed
  <2> QED BY <2>2 DEF t
<1> QED BY <1>1, <1>2

(* A step that takes no reference of a request, drops none, and loses none *)
(* of a long write's.                                                      *)
LEMMA HeldQuietly ==
  ASSUME Held, UNCHANGED <<usage, refs, session>>,
         \A r \in Long : Owned(line, r) => Owned(line', r),
         \A r \in Long : Listed(long_write_queue, r) => Listed(long_write_queue', r)
  PROVE  Held'
BY DEF Held, Patient

(* The API calls: to cancel is not to give a reference back.               *)
LEMMA ApiHeld ==
  ASSUME GattConstantsOK, Base, Held, Api
  PROVE  Held'
<1>1. line \in Seq(Entry) /\ long_write_queue \in Seq(Long) /\ None \notin Session
      /\ refs \in [Writes -> Nat] /\ Long \intersect Session = {}
      /\ Long \subseteq Writes /\ Session \subseteq Writes
  BY Types DEF Base, GattConstantsOK
<1>2. ASSUME NEW r \in Long, WriteLong(r) PROVE Held'
  <2>1. \A x \in Writes : refs'[x] = IF x = r THEN 1 ELSE refs[x]
    BY <1>1, <1>2, Fresh DEF WriteLong
  <2>2. usage' = usage /\ session' = session
    BY <1>2 DEF WriteLong
  <2>3. CASE in_long_write \/ session # None
    <3>1. line' = line /\ long_write_queue' = Append(long_write_queue, r)
      BY <1>2, <2>3 DEF WriteLong
    <3>2. Listed(long_write_queue', r)
          /\ \A x : Listed(long_write_queue, x) => Listed(long_write_queue', x)
      BY <1>1, <3>1, ListedStill
    <3> QED BY <1>1, <2>1, <2>2, <3>1, <3>2 DEF Held, Patient
  <2>4. CASE ~ (in_long_write \/ session # None)
    <3>1. PICK e \in Entry : e = FirstPrep(r)
      BY <1>1 DEF FirstPrep, Prep, Entry
    <3>2. line' = Append(line, e) /\ long_write_queue' = long_write_queue
      BY <1>2, <2>4, <3>1 DEF WriteLong
    <3>3. Owned(line', r) /\ \A x : Owned(line, x) => Owned(line', x)
      BY <1>1, <3>1, <3>2, OwnedPushed DEF FirstPrep, Prep
    <3> QED BY <1>1, <2>1, <2>2, <3>2, <3>3 DEF Held, Patient
  <2> QED BY <2>3, <2>4
<1>3. ASSUME NEW r \in Session, PrepareWrite(r) PROVE Held'
  <2>1. PICK e \in Entry : e = Prep(r, chunk[r] + 1, "prep_write_cb", FALSE)
    <3>1. chunk[r] + 1 \in Nat /\ r \in Writes
      BY <1>1, Types DEF Base
    <3> QED BY <3>1 DEF Prep, Entry
  <2>2. /\ line' = Append(line, e) /\ long_write_queue' = long_write_queue /\ usage' = usage
        /\ session' = r
        /\ \/ session = None /\ Create(r)
           \/ session = r /\ UNCHANGED refs
    BY <1>3, <2>1 DEF PrepareWrite
  <2>3. \A x : Owned(line, x) => Owned(line', x)
    BY <1>1, <2>1, <2>2, OwnedPushed
  <2>4. CASE session = None /\ Create(r)
    <3>1. \A x \in Writes : refs'[x] = IF x = r THEN 1 ELSE refs[x]
      BY <1>1, <2>4, Fresh
    <3> QED BY <1>1, <2>2, <2>3, <2>4, <3>1 DEF Held, Patient
  <2>5. CASE session = r /\ UNCHANGED refs
    BY <2>2, <2>3, <2>5 DEF Held, Patient
  <2> QED BY <2>2, <2>4, <2>5
<1>4. ASSUME NEW r \in Session, WriteExecute(r) PROVE Held'
  <2>1. PICK e \in Entry : e = Exec("COMMIT", r, "exec_write_cb", TRUE)
    BY <1>1 DEF Exec, Entry
  <2>2. line' = Append(line, e)
        /\ UNCHANGED <<usage, refs, session, long_write_queue>>
    BY <1>4, <2>1 DEF WriteExecute, client
  <2>3. \A x : Owned(line, x) => Owned(line', x)
    BY <1>1, <2>2, OwnedPushed
  <2> QED BY <2>2, <2>3, HeldQuietly
<1>5. ASSUME NEW r \in Writes, CancelLong(r) \/ CancelSession(r) PROVE Held'
  <2>1. "cancel" \in usage /\ UNCHANGED <<usage, refs, session>>
    BY <1>5 DEF CancelLong, CancelSession, client
  <2> QED BY <2>1 DEF Held, Patient
<1> QED BY <1>1, <1>2, <1>3, <1>4, <1>5 DEF Api

(* The head of the line, and with it its reference, is gone.               *)
LEMMA AnswersHeld ==
  ASSUME GattConstantsOK, Base, Held, Answer
  PROVE  Held'
<1>1. line \in Seq(Entry) /\ long_write_queue \in Seq(Long) /\ None \notin Session
      /\ refs \in [Writes -> Nat] /\ Long \intersect Session = {}
      /\ Long \subseteq Writes /\ Session \subseteq Writes
  BY Types DEF Base, GattConstantsOK
<1>2. ASSUME NEW outcome \in Outcomes, PrepareWriteCb(outcome) PROVE Held'
  <2>1. Handling("prepare_write_cb")
    BY <1>2 DEF PrepareWriteCb
  <2>2. PICK r \in Writes : r = line[1].req
    BY <2>1, HandlingFacts
  <2>3. line # <<>> /\ Head(line) = line[1] /\ r \in Long
    BY <2>1, <2>2, HandlingFacts DEF HandlersOf
  <2>4. PICK e \in Entry : e.req = r /\ e.owns /\ line' = Append(Tail(line), e)
    <3>1. Head(line).req = r /\ chunk[r] + 1 \in Nat
      BY <2>2, <2>3, Types DEF Base
    <3>2. CASE outcome = "echoed" /\ chunk[r] < Chunks[r]
      <4>1. line' = Append(Tail(line), Prep(r, chunk[r] + 1, "prepare_write_cb", TRUE))
        BY <1>2, <3>1, <3>2 DEF PrepareWriteCb
      <4>2. Prep(r, chunk[r] + 1, "prepare_write_cb", TRUE) \in Entry
        BY <3>1 DEF Prep, Entry
      <4> QED BY <4>1, <4>2 DEF Prep
    <3>3. CASE ~ (outcome = "echoed" /\ chunk[r] < Chunks[r])
      <4>1. PICK pdu \in {"COMMIT", "CANCEL"} :
              line' = Append(Tail(line), Exec(pdu, r, "execute_write_cb", TRUE))
        BY <1>2, <3>1, <3>3 DEF PrepareWriteCb
      <4>2. Exec(pdu, r, "execute_write_cb", TRUE) \in Entry
        BY DEF Exec, Entry
      <4> QED BY <4>1, <4>2 DEF Exec
    <3> QED BY <3>2, <3>3
  <2>5. \A x : Owned(line, x) => Owned(line', x)
    BY <1>1, <2>2, <2>3, <2>4, OwnedTraded
  <2>6. UNCHANGED <<usage, refs, session, long_write_queue>>
    BY <1>2 DEF PrepareWriteCb, client
  <2> QED BY <2>5, <2>6, HeldQuietly
<1>3. ASSUME NEW outcome, PrepWriteCb(outcome) PROVE Held'
  <2>1. line # <<>> /\ line[1].cb = "prep_write_cb" /\ EntryOK(line[1])
    BY <1>3, HandlingFacts DEF PrepWriteCb
  <2>2. line' = Tail(line) /\ UNCHANGED <<usage, refs, session, long_write_queue>>
    BY <1>3 DEF PrepWriteCb, client, request
  <2>3. \A x : Owned(line, x) => Owned(line', x)
    BY <1>1, <2>1, <2>2, OwnedPopped DEF EntryOK
  <2> QED BY <2>2, <2>3, HeldQuietly
<1>4. ASSUME WriteEnds PROVE Held'
  BY <1>4, HeldQuietly DEF WriteEnds, client, request
<1>5. ASSUME CancelLongWriteCb PROVE Held'
  <2>1. line # <<>> /\ line[1].cb = "cancel_long_write_cb" /\ EntryOK(line[1])
    BY <1>5, HandlingFacts DEF CancelLongWriteCb
  <2>2. line' = Tail(line) /\ UNCHANGED <<usage, refs, session, long_write_queue>>
    BY <1>5 DEF CancelLongWriteCb, request
  <2>3. \A x : Owned(line, x) => Owned(line', x)
    BY <1>1, <2>1, <2>2, OwnedPopped DEF EntryOK
  <2> QED BY <2>2, <2>3, HeldQuietly
<1>6. ASSUME CancelPrepWriteCb PROVE Held'
  <2>1. Handling("cancel_prep_write_cb")
    BY <1>6 DEF CancelPrepWriteCb
  <2>2. PICK r \in Writes : r = line[1].req
    BY <2>1, HandlingFacts
  <2>3. /\ line # <<>> /\ Head(line) = line[1] /\ r \notin Long /\ refs[r] = 1
        /\ r \in Session
    BY <2>1, <2>2, HandlingFacts DEF HandlersOf, Writes
  <2>4. /\ session' = None /\ line' = Tail(line)
        /\ refs' = [refs EXCEPT ![r] = @ - 1]
        /\ UNCHANGED <<usage, long_write_queue>>
    BY <1>6, <2>2, <2>3 DEF CancelPrepWriteCb, Unref
  <2>5. \A x \in Long : Owned(line, x) => Owned(line', x)
    BY <1>1, <2>2, <2>3, <2>4, OwnedPopped
  <2>6. \A x \in Writes : refs'[x] = IF x = r THEN 0 ELSE refs[x]
    BY <1>1, <2>3, <2>4
  <2> QED BY <1>1, <2>3, <2>4, <2>5, <2>6 DEF Held, Patient
<1>7. ASSUME WriteEnded PROVE Held'
  <2>1. PICK r \in Writes : r = line[1].req
    BY <1>7, HeadFacts DEF WriteEnded, Base, CallbackOK
  <2>2. /\ line # <<>> /\ Head(line) = line[1] /\ refs[r] = 1 /\ EntryOK(line[1])
        /\ line[1].cb \in {"execute_write_cb", "exec_write_cb"}
    BY <1>7, <2>1, HeadFacts DEF WriteEnded, Base, CallbackOK
  <2>3. /\ refs' = [refs EXCEPT ![r] = @ - 1] /\ usage' = usage
        /\ session' = IF line[1].cb = "exec_write_cb" THEN None ELSE session
        /\ StartNext(Tail(line))
    BY <1>7, <2>1, <2>2 DEF WriteEnded, Unref
  <2>4. \A x \in Writes : refs'[x] = IF x = r THEN 0 ELSE refs[x]
    BY <1>1, <2>2, <2>3
  <2>5. line[1].cb = "exec_write_cb" <=> r \in Session
    BY <1>1, <2>1, <2>2 DEF EntryOK, HandlersOf, Writes
  <2>6. \A x \in Session : Patient =>
          refs'[x] = IF x = session' THEN 1 ELSE 0
    BY <1>1, <2>2, <2>3, <2>4, <2>5 DEF Held, Patient
  <2>7. \A x : x # r /\ (Owned(line, x) \/ Listed(long_write_queue, x)) =>
                 Owned(line', x) \/ Listed(long_write_queue', x)
    <3>1. \A x : x # r /\ Owned(line, x) => Owned(Tail(line), x)
      BY <1>1, <2>1, <2>2, OwnedPopped
    <3>2. CASE long_write_queue = <<>>
      <4>1. line' = Tail(line) /\ long_write_queue' = long_write_queue
        BY <2>3, <3>2 DEF StartNext
      <4> QED BY <3>1, <4>1
    <3>3. CASE long_write_queue # <<>>
      <4>1. PICK q \in Long : q = Head(long_write_queue)
        BY <1>1, <3>3, Popped
      <4>2. PICK e \in Entry : e = FirstPrep(q)
        BY <1>1 DEF FirstPrep, Prep, Entry
      <4>3. line' = Append(Tail(line), e) /\ long_write_queue' = Tail(long_write_queue)
        BY <2>3, <3>3, <4>1, <4>2 DEF StartNext
      <4>4. Owned(line', q) /\ \A x : Owned(Tail(line), x) => Owned(line', x)
        <5>1. Tail(line) \in Seq(Entry)
          BY <1>1, <2>2, Popped
        <5>2. e.req = q /\ e.owns
          BY <4>2 DEF FirstPrep, Prep
        <5> QED BY <4>3, <5>1, <5>2, OwnedPushed
      <4>5. \A x : Listed(long_write_queue, x) => x = q \/ Listed(long_write_queue', x)
        BY <1>1, <3>3, <4>1, <4>3, ListedStill
      <4> QED BY <3>1, <4>4, <4>5
    <3> QED BY <3>2, <3>3
  <2> QED BY <1>1, <2>3, <2>4, <2>6, <2>7 DEF Held, Patient
<1> QED BY <1>2, <1>3, <1>4, <1>5, <1>6, <1>7 DEF Answer

(* References are always held as Held says.                                *)
LEMMA HeldAlways ==
  ASSUME GattConstantsOK
  PROVE  Spec => []Held
<1>1. Init => Held
  BY DEF Init, Held, GattConstantsOK, Writes
<1>2. Base /\ Held /\ [Next]_vars => Held'
  <2>1. ASSUME Held, UNCHANGED vars PROVE Held'
    BY <2>1 DEF Held, Patient, vars, client, request
  <2> QED BY <2>1, ApiHeld, AnswersHeld DEF Next
<1>3. Spec => []Base
  BY BaseAlways
<1> QED BY <1>1, <1>2, <1>3, PTL DEF Spec

-----------------------------------------------------------------------------
(* The safety invariant.                                                   *)

(* A handler gets what it expects: the head of the line is as EntryOK says.*)
LEMMA BaseSound ==
  ASSUME GattConstantsOK, Base
  PROVE  UserDataSoundPatient
<1> SUFFICES ASSUME Patient, line # <<>> PROVE Sound(Head(line))
  BY DEF UserDataSoundPatient, UserDataSound, Patient
<1>1. PICK e \in Entry : e = Head(line) /\ EntryOK(e) /\ e.req \in Writes
  BY HeadFacts
<1>2. CASE e.cb = "cancel_long_write_cb"
  BY <1>1, <1>2 DEF Sound
<1>3. CASE e.cb # "cancel_long_write_cb" /\ e.req \in Long
  <2>1. e.cb \in {"prepare_write_cb", "execute_write_cb"} /\ e.owns
    BY <1>1, <1>3 DEF EntryOK, HandlersOf
  <2>2. refs[e.req] = 1 /\ data[e.req] \in Expects(e.cb)
    BY <1>1, <1>3, <2>1, Expectations DEF EntryOK
  <2> QED BY <1>1, <2>2 DEF Sound
<1>4. CASE e.req \notin Long
  <2>1. e.req \in Session
    BY <1>1, <1>4 DEF Writes
  <2> QED BY <1>1, <2>1 DEF EntryOK, Sound
<1> QED BY <1>2, <1>3, <1>4

(* Nothing on the line or in the queue shares a reference.                 *)
LEMMA OneOwner ==
  ASSUME GattConstantsOK, Base, "impatient" \notin usage, NEW r \in Writes
  PROVE  /\ Cardinality(Owners(r)) = IF Owned(line, r) THEN 1 ELSE 0
         /\ Owners(r) = {} <=> ~ Owned(line, r)
<1>1. Owners(r) = {} <=> ~ Owned(line, r)
  BY DEF Owners, Of, Owned
<1>2. \A i, j \in Owners(r) : i = j
  BY DEF Owners, Of, Base, LineOK, Apart, Patient
<1>3. CASE Owners(r) = {}
  BY <1>1, <1>3, FS_EmptySet
<1>4. CASE Owners(r) # {}
  <2>1. PICK i : Owners(r) = {i}
    BY <1>2, <1>4
  <2> QED BY <1>1, <1>4, <2>1, FS_Singleton
<1> QED BY <1>1, <1>3, <1>4

(* Held by one owner each, references are counted exactly.                 *)
LEMMA HeldExact ==
  ASSUME GattConstantsOK, Base, Held
  PROVE  RefsExact
<1> SUFFICES ASSUME usage \intersect {"cancel", "impatient"} = {}, NEW r \in Writes
             PROVE  refs[r] = Cardinality(Owners(r))
                              + (IF r \in ToSet(long_write_queue) THEN 1 ELSE 0)
                              + (IF r = session /\ Owners(r) = {} THEN 1 ELSE 0)
  BY DEF RefsExact
<1>1. /\ Cardinality(Owners(r)) = IF Owned(line, r) THEN 1 ELSE 0
      /\ Owners(r) = {} <=> ~ Owned(line, r)
  BY OneOwner
<1>2. r \in ToSet(long_write_queue) <=> Listed(long_write_queue, r)
  BY QueueEntries DEF Base, TypeOK, Listed
<1>3. /\ \A i \in DOMAIN line : line[i] \in Entry /\ EntryOK(line[i])
      /\ \A i \in DOMAIN long_write_queue :
           long_write_queue[i] \in Long /\ Waits(long_write_queue[i])
  BY QueueEntries DEF Base, TypeOK, LineOK, QueueOK
<1>4. CASE r \in Long
  <2>1. r # session /\ refs[r] \in {0, 1}
    BY <1>4, Types DEF Base, TypeOK, GattConstantsOK, Counted, Writes
  <2>2. Owned(line, r) => refs[r] = 1 /\ r \in started
    BY <1>3, <1>4 DEF Owned, EntryOK
  <2>3. Listed(long_write_queue, r) => refs[r] = 1 /\ r \notin started
    BY <1>3 DEF Listed, Waits
  <2>4. refs[r] = 1 => Owned(line, r) \/ Listed(long_write_queue, r)
    BY <1>4 DEF Held, Patient
  <2> QED BY <1>1, <1>2, <2>1, <2>2, <2>3, <2>4
<1>5. CASE r \in Session
  <2>1. r \notin Long /\ refs[r] = IF r = session THEN 1 ELSE 0
    BY <1>5 DEF Held, Patient, GattConstantsOK
  <2>2. Owned(line, r) => refs[r] = 1
    BY <1>3, <1>5 DEF Owned, EntryOK, Patient
  <2>3. ~ Listed(long_write_queue, r)
    BY <1>3, <2>1 DEF Listed
  <2> QED BY <1>1, <1>2, <2>1, <2>2, <2>3
<1> QED BY <1>4, <1>5 DEF Writes

(* No handler gets a request that is gone, or one whose op is not the one  *)
(* it casts user_data to, while the caller of a session awaits its answers;*)
(* and no request is freed early or leaked, of programs that neither cancel*)
(* nor run ahead of the answers.                                           *)
THEOREM RequestsSound ==
  ASSUME GattConstantsOK
  PROVE  Spec => []Inv
<1>1. Base /\ Held => Inv
  BY BaseSound, HeldExact DEF Base, Inv
<1>2. Spec => []Base
  BY BaseAlways
<1>3. Spec => []Held
  BY HeldAlways
<1> QED BY <1>1, <1>2, <1>3, PTL

-----------------------------------------------------------------------------
(* What is committed.                                                      *)

(* The first n parts of r, as the server queues them.                      *)
Parts(r, n) == [i \in 1 .. n |-> <<r, i>>]

(* What the server's queue is when e, about to be handled, reaches it.     *)
QueuedUpTo(e) ==
  /\ e.pdu = "PREP" => /\ e.chunk = chunk[e.req] /\ chunk[e.req] \in 1 .. Chunks[e.req]
                       /\ prepared = Parts(e.req, chunk[e.req] - 1)
  /\ e.pdu = "COMMIT" => prepared = Parts(e.req, Chunks[e.req])
  /\ \E n \in Nat : prepared = Parts(e.req, n)

(* An upper layer of long writes only: one is in progress, and the server's*)
(* queue is empty unless its PDU is on the line.                           *)
OnlyLong ==
  usage = {"long"} =>
    /\ session = None
    /\ in_long_write <=> line # <<>>
    /\ long_write_queue # <<>> => line # <<>>
    /\ line # <<>> => /\ Tail(line) = <<>>
                      /\ line[1].req \in Long /\ line[1].owns
                      /\ ~ in_callback => QueuedUpTo(line[1])
    /\ line = <<>> \/ in_callback => prepared = <<>>
    /\ commit = <<>> \/ \E r \in Long : commit = Parts(r, Chunks[r])

(* Parts are sequences that grow at their end.                             *)
LEMMA PartsGrow ==
  ASSUME NEW r \in Writes, NEW n \in Nat
  PROVE  /\ Parts(r, n) \in Seq(Writes \X Nat)
         /\ Append(Parts(r, n), <<r, n + 1>>) = Parts(r, n + 1)
         /\ Parts(r, 0) = <<>>
         /\ n > 0 => Parts(r, n) # <<>> /\ Parts(r, n)[1] = <<r, 1>>
<1> DEFINE p == Parts(r, n)
           x == <<r, n + 1>>
           a == Append(p, x)
<1>1. p \in Seq(Writes \X Nat) /\ Len(p) = n /\ DOMAIN p = 1 .. n
      /\ \A i \in 1 .. n : p[i] = <<r, i>>
  <2>1. p \in [1 .. n -> Writes \X Nat]
    BY DEF Parts
  <2>2. p \in Seq(Writes \X Nat)
    BY <2>1, SeqDef
  <2>3. Len(p) = n
    BY <2>1, <2>2, LenProperties
  <2> QED BY <2>1, <2>2, <2>3 DEF Parts
<1>2. x \in Writes \X Nat /\ x = <<r, n + 1>>
  OBVIOUS
<1>3. a = Parts(r, n + 1)
  <2> HIDE DEF p, x
  <2>1. /\ a \in Seq(Writes \X Nat) /\ Len(a) = n + 1 /\ DOMAIN a = 1 .. n + 1
        /\ \A i \in 1 .. n : a[i] = <<r, i>>
        /\ a[n + 1] = <<r, n + 1>>
    <3>1. /\ a \in Seq(Writes \X Nat) /\ Len(a) = Len(p) + 1
          /\ \A i \in 1 .. Len(p) : a[i] = p[i] /\ a[Len(p) + 1] = x
      BY <1>1, <1>2, AppendProperties
    <3>2. a[Len(p) + 1] = x
      BY <1>1, <1>2, AppendProperties
    <3>3. DOMAIN a = 1 .. Len(a)
      BY <3>1, QueueEntries
    <3> QED BY <1>1, <1>2, <3>1, <3>2, <3>3
  <2> HIDE DEF a
  <2>2. a = [i \in 1 .. n + 1 |-> a[i]]
    BY <2>1, LenProperties
  <2>3. \A i \in 1 .. n + 1 : a[i] = <<r, i>>
    BY <2>1
  <2> QED BY <2>2, <2>3 DEF Parts
<1>4. Parts(r, 0) = <<>>
  <2>1. Parts(r, 0) \in [1 .. 0 -> Writes \X Nat]
    BY DEF Parts
  <2>2. Parts(r, 0) \in Seq(Writes \X Nat) /\ Len(Parts(r, 0)) = 0
    BY <2>1, SeqDef, LenProperties
  <2> QED BY <2>2, EmptySeq
<1>5. n > 0 => p # <<>> /\ p[1] = <<r, 1>>
  BY <1>1
<1> QED BY <1>1, <1>3, <1>4, <1>5

(* The only API call of such an upper layer.                               *)
LEMMA WriteLongOnly ==
  ASSUME GattConstantsOK, Base, OnlyLong, NEW r \in Long, WriteLong(r)
  PROVE  OnlyLong'
<1> SUFFICES ASSUME usage' = {"long"} PROVE OnlyLong'
  BY DEF OnlyLong
<1>1. usage = {"long"} /\ r \in Writes /\ r \notin created
      /\ UNCHANGED <<usage, session, in_callback, prepared, commit>>
      /\ chunk' = [chunk EXCEPT ![r] = 1] /\ chunk \in [Writes -> Nat]
  BY Types DEF WriteLong, Create, server, Base
<1>2. session' = None /\ (commit' = <<>> \/ \E x \in Long : commit' = Parts(x, Chunks[x]))
  BY <1>1 DEF OnlyLong
<1>3. CASE in_long_write
  <2>1. line' = line /\ line # <<>> /\ in_long_write' = in_long_write
    BY <1>1, <1>3 DEF WriteLong, OnlyLong
  <2>2. PICK e \in Entry : e = line[1] /\ e.req \in Writes /\ e.req # r
    BY <1>1, <2>1, HeadFacts
  <2>3. chunk'[e.req] = chunk[e.req]
    BY <1>1, <2>2
  <2>4. ~ in_callback => QueuedUpTo(e)'
    BY <1>1, <2>1, <2>2, <2>3 DEF OnlyLong, QueuedUpTo
  <2>5. ~ in_callback' => QueuedUpTo(line[1])'
    BY <1>1, <2>1, <2>2, <2>4 DEF QueuedUpTo
  <2> QED BY <1>1, <1>2, <1>3, <2>1, <2>5 DEF OnlyLong
<1>4. CASE ~ in_long_write
  <2>1. line = <<>> /\ session = None /\ prepared = <<>> /\ long_write_queue = <<>>
    BY <1>1, <1>4 DEF OnlyLong
  <2>2. PICK e \in Entry : e = FirstPrep(r)
    BY <1>1 DEF FirstPrep, Prep, Entry
  <2>3. line' = Append(line, e) /\ in_long_write' = TRUE
        /\ long_write_queue' = long_write_queue
    BY <1>4, <2>1, <2>2 DEF WriteLong
  <2>4. line' = <<e>>
    BY <2>1, <2>3
  <2>5. line' # <<>> /\ Tail(line') = <<>> /\ line'[1] = e
    BY <2>4
  <2>6. QueuedUpTo(e)'
    <3>1. chunk'[r] = 1 /\ Chunks[r] \in Nat \ {0}
      BY <1>1, Types DEF Base
    <3>2. prepared' = Parts(r, 0)
      BY <1>1, <2>1, PartsGrow
    <3> QED BY <2>2, <3>1, <3>2 DEF QueuedUpTo, FirstPrep, Prep
  <2>7. e.req = r /\ e.owns /\ QueuedUpTo(line[1])'
    BY <2>2, <2>5, <2>6 DEF FirstPrep, Prep, QueuedUpTo
  <2>8. ~ in_callback'
    BY <1>1, <2>1 DEF Base, CallbackOK
  <2> QED BY <1>2, <2>1, <2>3, <2>5, <2>7, <2>8 DEF OnlyLong
<1> QED BY <1>3, <1>4

(* An answer to a PREPARE WRITE: the part is queued, the next one follows, *)
(* or the whole value is committed or what there is of it dropped.         *)
LEMMA PrepareWriteCbOnly ==
  ASSUME GattConstantsOK, Base, OnlyLong, NEW outcome \in Outcomes, PrepareWriteCb(outcome)
  PROVE  OnlyLong'
<1> SUFFICES ASSUME usage' = {"long"} PROVE OnlyLong'
  BY DEF OnlyLong
<1>1. PICK h \in Entry : h = line[1]
  BY HandlingFacts DEF PrepareWriteCb
<1>2. /\ line # <<>> /\ ~ in_callback /\ Head(line) = h /\ h.req \in Writes
      /\ h.cb = "prepare_write_cb" /\ EntryOK(h)
  BY <1>1, HandlingFacts DEF PrepareWriteCb
<1>3. PICK r \in Long : r = h.req
  BY <1>2 DEF EntryOK, HandlersOf
<1>4. /\ usage = {"long"}
      /\ UNCHANGED <<usage, in_long_write, session, long_write_queue, in_callback, commit>>
  BY DEF PrepareWriteCb, client
<1>5. Tail(line) = <<>> /\ QueuedUpTo(h) /\ h.pdu = "PREP"
  BY <1>1, <1>2, <1>4 DEF OnlyLong, EntryOK
<1>6. /\ h.chunk = chunk[r] /\ chunk[r] \in 1 .. Chunks[r]
      /\ prepared = Parts(r, chunk[r] - 1)
      /\ chunk \in [Writes -> Nat] /\ r \in Writes /\ Chunks[r] \in Nat
  BY <1>3, <1>5, Types DEF QueuedUpTo, Base
<1>7. outcome # "error" => prepared' = Parts(r, chunk[r])
  <2>1. chunk[r] - 1 \in Nat /\ chunk[r] - 1 + 1 = chunk[r]
    BY <1>6
  <2>2. outcome # "error" => prepared' = Append(prepared, <<r, chunk[r]>>)
    BY <1>2, <1>3, <1>6 DEF PrepareWriteCb, Prepares
  <2> QED BY <1>6, <2>1, <2>2, PartsGrow
<1>8. PICK e \in Entry : /\ line' = Append(Tail(line), e) /\ e.req = r /\ e.owns
                         /\ QueuedUpTo(e)'
  <2>1. CASE outcome = "echoed" /\ chunk[r] < Chunks[r]
    <3>1. chunk[r] + 1 \in Nat /\ chunk[r] + 1 - 1 = chunk[r]
          /\ chunk[r] + 1 \in 1 .. Chunks[r]
      BY <1>6, <2>1
    <3>2. PICK e \in Entry : e = Prep(r, chunk[r] + 1, "prepare_write_cb", TRUE)
      BY <1>6, <3>1 DEF Prep, Entry
    <3>3. line' = Append(Tail(line), e) /\ chunk' = [chunk EXCEPT ![r] = @ + 1]
      BY <1>2, <1>3, <2>1, <3>2 DEF PrepareWriteCb
    <3>4. chunk'[r] = chunk[r] + 1 /\ prepared' = Parts(r, chunk'[r] - 1)
      BY <1>6, <1>7, <2>1, <3>1, <3>3
    <3>5. \E n \in Nat : prepared' = Parts(r, n)
      BY <1>6, <1>7, <2>1
    <3>6. QueuedUpTo(e)'
      BY <3>1, <3>2, <3>4, <3>5 DEF QueuedUpTo, Prep
    <3> QED BY <3>2, <3>3, <3>6 DEF Prep
  <2>2. CASE outcome = "echoed" /\ ~ (chunk[r] < Chunks[r])
    <3>1. PICK e \in Entry : e = Exec("COMMIT", r, "execute_write_cb", TRUE)
      BY <1>6 DEF Exec, Entry
    <3>2. line' = Append(Tail(line), e)
      BY <1>2, <1>3, <2>2, <3>1 DEF PrepareWriteCb
    <3>3. prepared' = Parts(r, Chunks[r])
      <4>1. chunk[r] = Chunks[r]
        BY <1>6, <2>2
      <4> QED BY <1>7, <2>2, <4>1
    <3>4. QueuedUpTo(e)'
      BY <1>6, <3>1, <3>3 DEF QueuedUpTo, Exec
    <3> QED BY <3>1, <3>2, <3>4 DEF Exec
  <2>3. CASE outcome # "echoed"
    <3>1. PICK e \in Entry : e = Exec("CANCEL", r, "execute_write_cb", TRUE)
      BY <1>6 DEF Exec, Entry
    <3>2. line' = Append(Tail(line), e)
      BY <1>2, <1>3, <2>3, <3>1 DEF PrepareWriteCb
    <3>3. \E n \in Nat : prepared' = Parts(r, n)
      <4>1. chunk[r] - 1 \in Nat /\ chunk[r] \in Nat
        BY <1>6
      <4>2. outcome = "error" => prepared' = prepared
        BY DEF PrepareWriteCb, Prepares
      <4> QED BY <1>6, <1>7, <4>1, <4>2
    <3>4. QueuedUpTo(e)'
      BY <3>1, <3>3 DEF QueuedUpTo, Exec
    <3> QED BY <3>1, <3>2, <3>4 DEF Exec
  <2> QED BY <2>1, <2>2, <2>3
<1>9. line' = <<e>>
  <2> DEFINE t == Tail(line)
  <2> HIDE DEF t
  <2>1. t = <<>> /\ line' = Append(t, e)
    BY <1>5, <1>8 DEF t
  <2> QED BY <2>1
<1>10. line' # <<>> /\ Tail(line') = <<>> /\ line'[1] = e
  BY <1>9
<1>11. QueuedUpTo(line[1])'
  BY <1>8, <1>10 DEF QueuedUpTo
<1> QED BY <1>2, <1>4, <1>8, <1>10, <1>11 DEF OnlyLong

(* The EXECUTE WRITE: what is committed is the whole value.                *)
LEMMA WriteEndsOnly ==
  ASSUME GattConstantsOK, Base, OnlyLong, WriteEnds
  PROVE  OnlyLong'
<1> SUFFICES ASSUME usage' = {"long"} PROVE OnlyLong'
  BY DEF OnlyLong
<1>1. PICK h \in Entry : h = line[1]
  BY HandlingFacts DEF WriteEnds
<1>2. line # <<>> /\ ~ in_callback /\ Head(line) = h
  BY <1>1, HandlingFacts DEF WriteEnds
<1>3. /\ usage = {"long"} /\ in_callback' = TRUE
      /\ UNCHANGED <<in_long_write, session, long_write_queue, line>>
      /\ Executes(h)
  BY <1>2 DEF WriteEnds, client
<1>4. h.req \in Long /\ QueuedUpTo(h)
  BY <1>1, <1>2, <1>3 DEF OnlyLong
<1>5. prepared' = <<>>
      /\ (commit' = commit \/ commit' = Parts(h.req, Chunks[h.req]))
  BY <1>3, <1>4 DEF Executes, QueuedUpTo
<1> QED BY <1>3, <1>4, <1>5 DEF OnlyLong

(* What follows it: the next long write, if one waits.                     *)
LEMMA WriteEndedOnly ==
  ASSUME GattConstantsOK, Base, OnlyLong, WriteEnded
  PROVE  OnlyLong'
<1> SUFFICES ASSUME usage' = {"long"} PROVE OnlyLong'
  BY DEF OnlyLong
<1>1. /\ usage = {"long"} /\ in_callback /\ in_callback' = FALSE
      /\ StartNext(Tail(line))
      /\ session' = IF Head(line).cb = "exec_write_cb" THEN None ELSE session
      /\ UNCHANGED <<chunk, prepared, commit>>
  BY DEF WriteEnded, server
<1>2. line # <<>> /\ Tail(line) = <<>> /\ session' = None /\ in_long_write
      /\ prepared' = <<>>
      /\ (commit' = <<>> \/ \E x \in Long : commit' = Parts(x, Chunks[x]))
  BY <1>1 DEF OnlyLong, Base, CallbackOK
<1>3. CASE long_write_queue = <<>>
  BY <1>1, <1>2, <1>3 DEF StartNext, OnlyLong
<1>4. CASE long_write_queue # <<>>
  <2>1. PICK q \in Long : q = Head(long_write_queue) /\ chunk[q] = 1 /\ q \in Writes
    <3>1. Head(long_write_queue) = long_write_queue[1] /\ 1 \in DOMAIN long_write_queue
          /\ Head(long_write_queue) \in Long
      BY <1>4, Types, Popped DEF Base
    <3> QED BY <3>1 DEF Base, QueueOK, Waits, Writes
  <2>2. PICK e \in Entry : e = FirstPrep(q)
    BY <2>1 DEF FirstPrep, Prep, Entry
  <2>3. line' = Append(Tail(line), e) /\ in_long_write' = in_long_write
    BY <1>1, <1>4, <2>1, <2>2 DEF StartNext
  <2>4. line' = <<e>>
    <3> DEFINE t == Tail(line)
    <3> HIDE DEF t
    <3>1. t = <<>> /\ line' = Append(t, e)
      BY <1>2, <2>3 DEF t
    <3> QED BY <3>1
  <2>5. line' # <<>> /\ Tail(line') = <<>> /\ line'[1] = e
    BY <2>4
  <2>6. QueuedUpTo(e)'
    <3>1. chunk'[q] = 1 /\ Chunks[q] \in Nat \ {0}
      BY <1>1, <2>1, Types DEF Base
    <3>2. prepared' = Parts(q, 0)
      BY <1>2, <2>1, PartsGrow
    <3> QED BY <2>2, <3>1, <3>2 DEF QueuedUpTo, FirstPrep, Prep
  <2>7. e.req = q /\ e.owns /\ QueuedUpTo(line[1])'
    BY <2>2, <2>5, <2>6 DEF FirstPrep, Prep, QueuedUpTo
  <2> QED BY <1>1, <1>2, <2>3, <2>5, <2>7 DEF OnlyLong
<1> QED BY <1>3, <1>4

(* An upper layer of long writes never leaves OnlyLong ...                 *)
LEMMA OnlyLongAlways ==
  ASSUME GattConstantsOK
  PROVE  Spec => []OnlyLong
<1>1. Init => OnlyLong
  BY DEF Init, OnlyLong
<1>2. Base /\ OnlyLong /\ [Next]_vars => OnlyLong'
  <2> SUFFICES ASSUME Base, OnlyLong, [Next]_vars PROVE OnlyLong'
    OBVIOUS
  <2>1. CASE Api
    BY <2>1, WriteLongOnly
    DEF Api, OnlyLong, CancelLong, PrepareWrite, WriteExecute, CancelSession
  <2>2. CASE Answer
    <3>1. ASSUME NEW cb \in {"prep_write_cb", "cancel_long_write_cb", "cancel_prep_write_cb"},
                 Handling(cb), usage' = usage
          PROVE  OnlyLong'
      <4>1. /\ line # <<>> /\ line[1].cb = cb /\ EntryOK(line[1])
        BY <3>1, HandlingFacts
      <4> QED BY <3>1, <4>1 DEF OnlyLong, EntryOK, HandlersOf
    <3>2. ASSUME NEW outcome, PrepWriteCb(outcome) PROVE OnlyLong'
      BY <3>1, <3>2 DEF PrepWriteCb
    <3>3. ASSUME CancelLongWriteCb PROVE OnlyLong'
      BY <3>1, <3>3 DEF CancelLongWriteCb
    <3>4. ASSUME CancelPrepWriteCb PROVE OnlyLong'
      BY <3>1, <3>4 DEF CancelPrepWriteCb
    <3> QED BY <2>2, <3>2, <3>3, <3>4, PrepareWriteCbOnly, WriteEndsOnly, WriteEndedOnly
            DEF Answer
  <2>3. CASE UNCHANGED vars
    BY <2>3 DEF OnlyLong, QueuedUpTo, vars, client, request, server
  <2> QED BY <2>1, <2>2, <2>3 DEF Next
<1>3. Spec => []Base
  BY BaseAlways
<1> QED BY <1>1, <1>2, <1>3, PTL DEF Spec

(* An upper layer of sessions only: the server's queue is the open one's.  *)
OnlySession ==
  usage = {"session"} =>
    /\ ~ in_long_write /\ long_write_queue = <<>>
    /\ \A i \in DOMAIN line : line[i].req \in Session
    /\ \A i \in DOMAIN prepared : prepared[i][1] = session
    /\ in_callback => prepared = <<>>
    /\ \A i \in DOMAIN commit : commit[i][1] \in Session

(* What is on its line belongs to the open session.                        *)
LEMMA SessionsHead ==
  ASSUME GattConstantsOK, Base, Held, OnlySession, usage = {"session"}, line # <<>>
  PROVE  /\ Head(line).req = session /\ session \in Session /\ line[1].req \notin Long
         /\ EntryOK(line[1]) /\ Head(line) = line[1] /\ line[1] \in Entry
<1>1. /\ line[1] \in Entry /\ Head(line) = line[1] /\ EntryOK(line[1]) /\ 1 \in DOMAIN line
      /\ Long \intersect Session = {}
  BY HeadFacts, Types, Popped DEF Base
<1>2. PICK r \in Session : r = line[1].req
  BY <1>1 DEF OnlySession
<1>3. refs[r] = 1
  BY <1>1, <1>2 DEF EntryOK, Patient
<1>4. r = session
  BY <1>3 DEF Held, Patient
<1> QED BY <1>1, <1>2, <1>4

(* A PDU is added to the line, or its head is taken.                       *)
LEMMA SessionsLine ==
  ASSUME GattConstantsOK, Base, NEW d \in {0, 1}, NEW E \in SUBSET Entry,
         line' \in Seq(Entry), Moved(line', line, d, E),
         \A e \in E : e.req \in Session,
         \A i \in DOMAIN line : line[i].req \in Session
  PROVE  \A i \in DOMAIN line' : line'[i].req \in Session
BY DEF Moved

(* The calls add PDUs of the open session.                                 *)
LEMMA SessionsApi ==
  ASSUME GattConstantsOK, Base, OnlySession, Api
  PROVE  OnlySession'
<1> SUFFICES ASSUME usage' = {"session"} PROVE OnlySession'
  BY DEF OnlySession
<1>1. /\ line \in Seq(Entry) /\ prepared \in Seq(Writes \X Nat) /\ None \notin Writes
      /\ chunk \in [Writes -> Nat] /\ Session \subseteq Writes
  BY Types DEF Base, TypeOK, GattConstantsOK
<1>2. ASSUME NEW r \in Session, PrepareWrite(r) PROVE OnlySession'
  <2>0. r \in Writes /\ chunk[r] + 1 \in Nat
    BY <1>1
  <2>1. PICK e \in Entry : e = Prep(r, chunk[r] + 1, "prep_write_cb", FALSE)
    BY <2>0 DEF Prep, Entry
  <2>2. /\ line' = Append(line, e) /\ session' = r /\ (session = None \/ session = r)
        /\ UNCHANGED <<usage, in_long_write, long_write_queue, in_callback, prepared, commit>>
    BY <1>2, <2>1 DEF PrepareWrite, server
  <2>3. line' \in Seq(Entry) /\ Moved(line', line, 0, {e}) /\ e.req = r
    <3>1. line' \in Seq(Entry) /\ Moved(line', line, 0, {e})
      BY <1>1, <2>2, Pushed
    <3>2. e.req = r
      BY <2>1 DEF Prep
    <3> QED BY <3>1, <3>2
  <2>4. \A i \in DOMAIN line' : line'[i].req \in Session
    BY <2>2, <2>3, SessionsLine DEF OnlySession
  <2>5. \A i \in DOMAIN prepared : prepared[i][1] \in Writes
    BY <1>1, QueueEntries
  <2>6. \A i \in DOMAIN prepared : prepared[i][1] = r
    BY <1>1, <2>2, <2>5 DEF OnlySession
  <2> QED BY <2>2, <2>4, <2>6 DEF OnlySession
<1>3. ASSUME NEW r \in Session, WriteExecute(r) PROVE OnlySession'
  <2>1. PICK e \in Entry : e = Exec("COMMIT", r, "exec_write_cb", TRUE)
    BY <1>1 DEF Exec, Entry
  <2>2. /\ line' = Append(line, e)
        /\ UNCHANGED <<usage, session, in_long_write, long_write_queue, in_callback,
                       prepared, commit>>
    BY <1>3, <2>1 DEF WriteExecute, server, client
  <2>3. line' \in Seq(Entry) /\ Moved(line', line, 0, {e}) /\ e.req = r
    <3>1. line' \in Seq(Entry) /\ Moved(line', line, 0, {e})
      BY <1>1, <2>2, Pushed
    <3>2. e.req = r
      BY <2>1 DEF Exec
    <3> QED BY <3>1, <3>2
  <2>4. \A i \in DOMAIN line' : line'[i].req \in Session
    BY <2>2, <2>3, SessionsLine DEF OnlySession
  <2> QED BY <2>2, <2>4 DEF OnlySession
<1>4. ASSUME NEW r \in Writes, WriteLong(r) \/ CancelLong(r) \/ CancelSession(r)
      PROVE  OnlySession'
  BY <1>4 DEF OnlySession, WriteLong, CancelLong, CancelSession
<1> QED BY <1>2, <1>3, <1>4 DEF Api, Writes

(* The answers queue its PDUs, or end it and empty the queue.              *)
LEMMA SessionsAnswers ==
  ASSUME GattConstantsOK, Base, Held, OnlySession, Answer
  PROVE  OnlySession'
<1> SUFFICES ASSUME usage' = {"session"} PROVE OnlySession'
  BY DEF OnlySession
<1>0. line # <<>> /\ usage = {"session"}
  BY DEF Answer, PrepareWriteCb, PrepWriteCb, WriteEnds, WriteEnded, CancelLongWriteCb,
         CancelPrepWriteCb, Handling, Base, CallbackOK
<1>1. PICK h \in Entry : h = line[1]
  BY <1>0, HeadFacts
<1>2. /\ Head(line) = h /\ h.req = session /\ session \in Session /\ h.req \notin Long
      /\ h.cb \in {"prep_write_cb", "exec_write_cb", "cancel_prep_write_cb"}
  BY <1>0, <1>1, SessionsHead DEF EntryOK, HandlersOf
<1>3. /\ line \in Seq(Entry) /\ prepared \in Seq(Writes \X Nat)
  BY DEF Base, TypeOK
<1>4. line' = Tail(line) => \A i \in DOMAIN line' : line'[i].req \in Session
  <2> SUFFICES ASSUME line' = Tail(line) PROVE \A i \in DOMAIN line' : line'[i].req \in Session
    OBVIOUS
  <2>1. line' \in Seq(Entry) /\ Moved(line', line, 1, {})
    BY <1>0, <1>3, Popped
  <2> DEFINE E == {}
  <2>2. E \in SUBSET Entry /\ Moved(line', line, 1, E) /\ \A e \in E : e.req \in Session
    BY <2>1
  <2> HIDE DEF E
  <2> QED BY <1>0, <2>1, <2>2, SessionsLine DEF OnlySession
<1>5. ASSUME NEW outcome \in Outcomes, PrepWriteCb(outcome) PROVE OnlySession'
  <2>1. /\ line' = Tail(line)
        /\ ~ in_callback
        /\ UNCHANGED <<usage, in_long_write, session, long_write_queue, in_callback, commit>>
        /\ Prepares(h, outcome)
    BY <1>2, <1>5 DEF PrepWriteCb, Handling, client
  <2> DEFINE x == <<h.req, h.chunk>>
  <2>2. x \in Writes \X Nat /\ x[1] = session
    BY <1>2 DEF Entry
  <2>3. prepared' = prepared \/ prepared' = Append(prepared, x)
    BY <2>1 DEF Prepares
  <2> HIDE DEF x
  <2>4. \A i \in DOMAIN Append(prepared, x) :
          \/ i \in DOMAIN prepared /\ Append(prepared, x)[i] = prepared[i]
          \/ Append(prepared, x)[i] = x
    BY <1>3, <2>2, Pushed
  <2>5. \A i \in DOMAIN prepared' : prepared'[i][1] = session
    <3>1. \A i \in DOMAIN prepared : prepared[i][1] = session
      BY <1>0 DEF OnlySession
    <3>2. CASE prepared' = prepared
      BY <3>1, <3>2
    <3>3. CASE prepared' = Append(prepared, x)
      BY <2>2, <2>4, <3>1, <3>3
    <3> QED BY <2>3, <3>2, <3>3
  <2> QED BY <1>0, <1>4, <2>1, <2>5 DEF OnlySession
<1>6. ASSUME WriteEnds PROVE OnlySession'
  <2>1. /\ UNCHANGED <<usage, in_long_write, session, long_write_queue, line>>
        /\ in_callback' = TRUE
        /\ prepared' = <<>> /\ (commit' = commit \/ commit' = prepared)
    BY <1>2, <1>6 DEF WriteEnds, Executes, client
  <2>2. \A i \in DOMAIN commit' : commit'[i][1] \in Session
    BY <1>0, <1>2, <2>1 DEF OnlySession
  <2> QED BY <1>0, <2>1, <2>2 DEF OnlySession
<1>7. ASSUME WriteEnded PROVE OnlySession'
  <2>1. /\ in_callback /\ in_callback' = FALSE /\ StartNext(Tail(line))
        /\ UNCHANGED <<usage, prepared, commit>>
    BY <1>7 DEF WriteEnded, server
  <2>2. line' = Tail(line) /\ in_long_write' = FALSE /\ long_write_queue' = <<>>
        /\ prepared' = <<>>
    BY <1>0, <2>1 DEF StartNext, OnlySession
  <2> QED BY <1>0, <1>4, <2>1, <2>2 DEF OnlySession
<1>8. ASSUME CancelPrepWriteCb PROVE OnlySession'
  <2>1. /\ UNCHANGED <<usage, in_long_write, long_write_queue, in_callback>>
        /\ line' = Tail(line)
        /\ prepared' = <<>> /\ (commit' = commit \/ commit' = prepared)
    BY <1>2, <1>8 DEF CancelPrepWriteCb, Executes
  <2>2. \A i \in DOMAIN commit' : commit'[i][1] \in Session
    BY <1>0, <1>2, <2>1 DEF OnlySession
  <2> QED BY <1>0, <1>4, <2>1, <2>2 DEF OnlySession
<1>9. ~ CancelLongWriteCb /\ \A outcome : ~ PrepareWriteCb(outcome)
  BY <1>2 DEF CancelLongWriteCb, PrepareWriteCb, Handling
<1> QED BY <1>5, <1>6, <1>7, <1>8, <1>9 DEF Answer

(* ... nor one of sessions OnlySession.                                    *)
LEMMA OnlySessionAlways ==
  ASSUME GattConstantsOK
  PROVE  Spec => []OnlySession
<1>1. Init => OnlySession
  BY QueueEntries DEF Init, OnlySession
<1>2. Base /\ Held /\ OnlySession /\ [Next]_vars => OnlySession'
  <2>1. ASSUME OnlySession, UNCHANGED vars PROVE OnlySession'
    BY <2>1 DEF OnlySession, vars, client, request, server
  <2> QED BY <2>1, SessionsApi, SessionsAnswers DEF Next
<1>3. Spec => []Base
  BY BaseAlways
<1>4. Spec => []Held
  BY HeldAlways
<1> QED BY <1>1, <1>2, <1>3, <1>4, PTL DEF Spec

(* What the server has queued is of one write, and what it commits of a    *)
(* long write is its whole value and nothing else, when the upper layer    *)
(* keeps to one kind of write and cancels none.                            *)
THEOREM WritesNotMixed ==
  ASSUME GattConstantsOK
  PROVE  Spec => []NeverMixedAlone
<1>1. ASSUME Base, OnlyLong, usage = {"long"} PROVE NoInterleaving /\ CommitWhole
  <2>1. NoInterleaving
    <3>1. CASE line = <<>> \/ in_callback
      <4>1. DOMAIN prepared = {}
        BY <1>1, <3>1, QueueEntries DEF OnlyLong, Base, TypeOK
      <4> QED BY <4>1 DEF NoInterleaving
    <3>2. CASE ~ (line = <<>> \/ in_callback)
      <4>1. PICK n \in Nat : prepared = Parts(line[1].req, n)
        BY <1>1, <3>2 DEF OnlyLong, QueuedUpTo
      <4> QED BY <4>1 DEF NoInterleaving, Parts
    <3> QED BY <3>1, <3>2
  <2>2. CommitWhole
    <3> SUFFICES ASSUME commit # <<>>
                 PROVE  commit = [i \in 1 .. Chunks[commit[1][1]] |-> <<commit[1][1], i>>]
      BY DEF CommitWhole
    <3>1. PICK r \in Long : commit = Parts(r, Chunks[r])
      BY <1>1 DEF OnlyLong
    <3>2. Chunks[r] \in Nat /\ Chunks[r] > 0 /\ r \in Writes
      BY <1>1, Types DEF Base
    <3>3. commit[1] = <<r, 1>>
      BY <3>1, <3>2, PartsGrow
    <3>4. commit[1][1] = r
      BY <3>3
    <3> QED BY <3>1, <3>4 DEF Parts
  <2> QED BY <2>1, <2>2
<1>2. ASSUME Base, OnlySession, usage = {"session"} PROVE NoInterleaving /\ CommitWhole
  <2>1. NoInterleaving
    BY <1>2 DEF OnlySession, NoInterleaving
  <2>2. commit # <<>> => commit[1][1] \in Session
    <3>1. commit # <<>> => 1 \in DOMAIN commit
      BY <1>2, QueueEntries DEF Base, TypeOK
    <3> QED BY <1>2, <3>1 DEF OnlySession
  <2> QED BY <2>1, <2>2 DEF CommitWhole, GattConstantsOK
<1>3. Base /\ OnlyLong /\ OnlySession => NeverMixedAlone
  BY <1>1, <1>2 DEF NeverMixedAlone, Alone
<1>4. Spec => []Base
  BY BaseAlways
<1>5. Spec => []OnlyLong
  BY OnlyLongAlways
<1>6. Spec => []OnlySession
  BY OnlySessionAlways
<1> QED BY <1>3, <1>4, <1>5, <1>6, PTL

-----------------------------------------------------------------------------
(* The programs of GattCallers.                                            *)

(* Whatever they do, the client takes a step of its own or none.           *)
LEMMA CallersStep ==
  ASSUME GattConstantsOK, Base, CallersNext
  PROVE  [Next]_vars
<1>1. ~ PendingRequest(None)
  BY DEF Base, TypeOK, GattConstantsOK, PendingRequest
<1>2. ASSUME NEW id \in Session \union {None}, GiveUp(id) PROVE [Next]_vars
  BY <1>1, <1>2 DEF GiveUp, Next, Api
<1>3. ASSUME NEW id \in Session \union {None}, Accepted(id), WriteExecute(id) PROVE [Next]_vars
  BY <1>1, <1>3 DEF Accepted, Next, Api
<1>4. ASSUME Direct /\ Api PROVE [Next]_vars
  BY <1>4 DEF Next
<1>5. ASSUME NEW r \in Long, ClientWriteLong(r) \/ CmdWriteLong(r) PROVE [Next]_vars
  BY <1>5 DEF ClientWriteLong, CmdWriteLong, Next, Api
<1>6. ASSUME NEW r \in Session, NEW id \in Session \union {None},
             ClientWritePrepare(id, r) \/ CmdWritePrepare(id, r)
      PROVE  [Next]_vars
  BY <1>6 DEF ClientWritePrepare, CmdWritePrepare, Proceed, Next, Api
<1>7. ASSUME NEW id \in Session \union {None}, NEW execute \in BOOLEAN,
             ClientWriteExecute(id, execute) \/ CmdWriteExecute(id, execute)
      PROVE  [Next]_vars
  <2>1. CASE ClientWriteExecute(id, execute)
    BY <1>2, <1>3, <2>1 DEF ClientWriteExecute
  <2>2. CASE CmdWriteExecute(id, execute)
    <3>1. CASE execute /\ Accepted(id)
      BY <1>3, <2>2, <3>1 DEF CmdWriteExecute
    <3>2. CASE execute /\ ~ Accepted(id)
      BY <2>2, <3>2 DEF CmdWriteExecute
    <3>3. CASE ~ execute
      BY <1>2, <2>2, <3>3 DEF CmdWriteExecute
    <3> QED BY <3>1, <3>2, <3>3
  <2> QED BY <1>7, <2>1, <2>2
<1>8. ASSUME CallersAnswer PROVE [Next]_vars
  BY <1>8 DEF CallersAnswer, KeepPromise, Verify, Next, Answer
<1> QED BY <1>4, <1>5, <1>6, <1>7, <1>8 DEF CallersNext

(* So a program is a behaviour of the client.                              *)
LEMMA CallersImplement == ASSUME GattConstantsOK PROVE CallersSpec => Spec
<1>1. CallersInit => Init
  BY DEF CallersInit
<1>2. Base /\ [CallersNext]_<<vars, callers>> => [Next]_vars
  BY CallersStep
<1>3. Init => Base
  BY InitBase
<1>4. Base /\ [Next]_vars => Base'
  BY NextBase
<1> QED BY <1>1, <1>2, <1>3, <1>4, PTL DEF Spec, CallersSpec

(* Its own variables are what they should be.                              *)
LEMMA CallersTyped ==
  ASSUME GattConstantsOK
  PROVE  CallersSpec => []CallersTypeOK
<1>1. CallersInit => CallersTypeOK
  BY DEF CallersInit, CallersTypeOK
<1>2. Base /\ CallersTypeOK /\ [CallersNext]_<<vars, callers>> => CallersTypeOK'
  <2> SUFFICES ASSUME Base, CallersTypeOK, [CallersNext]_<<vars, callers>>
               PROVE  CallersTypeOK'
    OBVIOUS
  <2>1. ASSUME NEW r \in Long, ClientWriteLong(r) \/ CmdWriteLong(r) PROVE CallersTypeOK'
    BY <2>1 DEF ClientWriteLong, CmdWriteLong, CallersTypeOK, callers, Writes
  <2>2. ASSUME NEW r \in Session, NEW id, Proceed(id, r) PROVE CallersTypeOK'
    BY <2>2 DEF Proceed, CallersTypeOK
  <2>3. ASSUME NEW id, NEW execute,
               ClientWriteExecute(id, execute) \/ CmdWriteExecute(id, execute)
        PROVE  CallersTypeOK'
    <3>1. Accepted(id) => id \in Writes
      BY DEF Accepted, PendingRequest, Base, TypeOK
    <3>2. /\ reliable_session_id' = None /\ unverified' = unverified
          /\ caller' \in {caller, id, "refused"}
          /\ (caller' = id => Accepted(id) \/ id = caller \/ id = "refused")
      BY <2>3 DEF ClientWriteExecute, CmdWriteExecute
    <3> QED BY <3>1, <3>2 DEF CallersTypeOK
  <2>4. ASSUME KeepPromise PROVE CallersTypeOK'
    BY <2>4 DEF KeepPromise, CallersTypeOK
  <2>5. ASSUME NEW outcome \in Outcomes, Verify(outcome) PROVE CallersTypeOK'
    <3>1. Handling("prepare_write_cb")
      BY <2>5 DEF Verify, PrepareWriteCb
    <3>2. Head(line).req \in Long
      BY <3>1, HandlingFacts DEF HandlersOf
    <3> QED BY <2>5, <3>2 DEF Verify, CallersTypeOK
  <2>6. ASSUME UNCHANGED callers PROVE CallersTypeOK'
    BY <2>6 DEF callers, CallersTypeOK
  <2> QED BY <2>1, <2>2, <2>3, <2>4, <2>5, <2>6
          DEF CallersNext, CallersAnswer, ClientWritePrepare, CmdWritePrepare, callers
<1>3. CallersSpec => []Base
  BY CallersImplement, BaseAlways, PTL
<1> QED BY <1>1, <1>2, <1>3, PTL DEF CallersSpec

(* The session a program remembers is the open one, in use; an open one it *)
(* has forgotten is being ended; and none is open beside a long write that *)
(* the client knows of.                                                    *)
Minds == ~ Direct /\ Patient /\ ("blocking" \notin usage \/ "strays" \notin usage)
Ending(l, r) == \E i \in DOMAIN l : l[i].req = r /\ l[i].pdu # "PREP"

Known ==
  Minds =>
    /\ in_long_write => session = None
    /\ reliable_session_id # None =>
         /\ session = reliable_session_id
         /\ PendingRequest(session) /\ ~ Ending(line, session)
    /\ session # None /\ reliable_session_id = None => Ending(line, session)

(* An EXECUTE WRITE put on the line ends its session, and is the only end  *)
(* of one that is removed from the line ...                                *)
LEMMA EndingPushed ==
  ASSUME NEW l \in Seq(Entry), NEW e \in Entry
  PROVE  \A r : Ending(Append(l, e), r) <=> Ending(l, r) \/ (e.req = r /\ e.pdu # "PREP")
<1> DEFINE a == Append(l, e)
<1>1. /\ \A i \in DOMAIN l : i \in DOMAIN a /\ a[i] = l[i]
      /\ \A i \in DOMAIN a : (i \in DOMAIN l /\ a[i] = l[i]) \/ a[i] = e
      /\ Len(l) + 1 \in DOMAIN a /\ a[Len(l) + 1] = e
  BY Pushed
<1> HIDE DEF a
<1>2. \A r : Ending(a, r) <=> Ending(l, r) \/ (e.req = r /\ e.pdu # "PREP")
  BY <1>1 DEF Ending
<1> QED BY <1>2 DEF a

(* ... with its head.                                                      *)
LEMMA EndingPopped ==
  ASSUME NEW l \in Seq(Entry), l # <<>>
  PROVE  \A r : ~ (l[1].req = r /\ l[1].pdu # "PREP") => (Ending(Tail(l), r) <=> Ending(l, r))
<1> DEFINE t == Tail(l)
<1>1. /\ \A i \in DOMAIN l : i = 1 \/ (i - 1 \in DOMAIN t /\ t[i - 1] = l[i])
      /\ \A i \in DOMAIN t : i + 1 \in DOMAIN l /\ t[i] = l[i + 1]
      /\ 1 \in DOMAIN l
  BY Popped
<1> HIDE DEF t
<1>2. \A r : ~ (l[1].req = r /\ l[1].pdu # "PREP") => (Ending(t, r) <=> Ending(l, r))
  BY <1>1 DEF Ending
<1> QED BY <1>2 DEF t

(* A step that is not about the open session.                              *)
LEMMA KnownQuietly ==
  ASSUME GattConstantsOK, Base, Known, UNCHANGED <<usage, session, reliable_session_id>>,
         in_long_write' => in_long_write \/ session = None,
         session \in Session /\ PendingRequest(session) => PendingRequest(session)',
         session \in Session => (Ending(line', session) <=> Ending(line, session))
  PROVE  Known'
<1>1. session \in Session \union {None} /\ (Minds' <=> Minds)
  BY DEF Base, TypeOK, Minds, Direct, Patient
<1> QED BY <1>1 DEF Known

(* The calls that open a session, go on with it or end it.                 *)
LEMMA KnownCalls ==
  ASSUME GattConstantsOK, Base, Known
  PROVE  /\ \A id \in Session \union {None}, r \in Session : Proceed(id, r) => Known'
         /\ \A id \in Session \union {None}, execute \in BOOLEAN :
              ClientWriteExecute(id, execute) \/ CmdWriteExecute(id, execute) => Known'
<1>1. /\ line \in Seq(Entry) /\ removed \subseteq created /\ refs \in [Writes -> Nat]
      /\ chunk \in [Writes -> Nat] /\ Session \subseteq Writes /\ None \notin Session
      /\ ~ PendingRequest(None)
  BY Types DEF Base, TypeOK, GattConstantsOK, PendingRequest, Writes
<1>2. ASSUME NEW id \in Session \union {None}, NEW r \in Session, Proceed(id, r), Minds
      PROVE  Known'
  <2>1. CASE PrepareWrite(r) /\ reliable_session_id' = r
    <3>0. r \in Writes /\ chunk[r] + 1 \in Nat
      BY <1>1
    <3>1. PICK e \in Entry : e = Prep(r, chunk[r] + 1, "prep_write_cb", FALSE)
      BY <3>0 DEF Prep, Entry
    <3>2. /\ line' = Append(line, e) /\ session' = r /\ ~ in_long_write'
          /\ Of(r) = {} /\ UNCHANGED <<usage, removed>>
          /\ \/ Create(r)
             \/ PendingRequest(r) /\ UNCHANGED <<created, refs>>
      BY <1>2, <2>1, <3>1 DEF PrepareWrite, Minds, Patient
    <3>3. PendingRequest(r)'
      <4>1. CASE Create(r)
        BY <1>1, <3>0, <3>2, <4>1 DEF Create, PendingRequest
      <4>2. CASE PendingRequest(r) /\ UNCHANGED <<created, refs>>
        BY <3>2, <4>2 DEF PendingRequest
      <4> QED BY <3>2, <4>1, <4>2
    <3>4. ~ Ending(line', r)
      <4>1. ~ Ending(line, r)
        BY <3>2 DEF Ending, Of
      <4>2. e.pdu = "PREP"
        BY <3>1 DEF Prep
      <4> QED BY <1>1, <3>2, <4>1, <4>2, EndingPushed
    <3>5. PendingRequest(session)' /\ ~ Ending(line', session')
      BY <3>2, <3>3, <3>4 DEF PendingRequest
    <3> QED BY <1>1, <2>1, <3>2, <3>5 DEF Known
  <2>2. CASE /\ in_long_write \/ session # id
             /\ reliable_session_id' = None /\ UNCHANGED vars
    <3>1. reliable_session_id = id
      BY <1>2 DEF Proceed
    <3>2. reliable_session_id = None
      BY <1>2, <2>2, <3>1 DEF Known
    <3>3. UNCHANGED <<usage, session, reliable_session_id, in_long_write, created, removed,
                      refs, line>>
      BY <2>2, <3>2 DEF vars, client, request
    <3> QED BY <3>3, KnownQuietly DEF PendingRequest
  <2> QED BY <1>2, <2>1, <2>2 DEF Proceed
<1>3. ASSUME NEW id \in Session, Minds, id = reliable_session_id,
             WriteExecute(id) \/ CancelSession(id), reliable_session_id' = None
      PROVE  Known'
  <2>1. session = id /\ ~ in_long_write /\ id \in Writes
    BY <1>1, <1>3 DEF Known
  <2>2. PICK e \in Entry : /\ e.req = id /\ e.pdu # "PREP" /\ line' = Append(line, e)
                           /\ UNCHANGED <<usage, session, in_long_write>>
    <3>1. CASE WriteExecute(id)
      <4>1. PICK e \in Entry : e = Exec("COMMIT", id, "exec_write_cb", TRUE)
        BY <2>1 DEF Exec, Entry
      <4> QED BY <3>1, <4>1 DEF WriteExecute, Exec, client
    <3>2. CASE CancelSession(id)
      <4>1. PICK e \in Entry : e = Exec("CANCEL", id, "cancel_prep_write_cb", TRUE)
        BY <2>1 DEF Exec, Entry
      <4> QED BY <3>2, <4>1 DEF CancelSession, Exec, client
    <3> QED BY <1>3, <3>1, <3>2
  <2>3. Ending(line', id)
    BY <1>1, <2>2, EndingPushed
  <2>4. Ending(line', session')
    BY <2>1, <2>2, <2>3
  <2> QED BY <1>3, <2>1, <2>2, <2>4 DEF Known
<1>4. ASSUME NEW id \in Session \union {None}, NEW execute \in BOOLEAN, Minds,
             ClientWriteExecute(id, execute) \/ CmdWriteExecute(id, execute)
      PROVE  Known'
  <2>1. id = reliable_session_id /\ reliable_session_id' = None
    BY <1>4 DEF ClientWriteExecute, CmdWriteExecute, Promises, Minds
  <2>2. CASE id = None
    <3>1. UNCHANGED vars
      BY <1>1, <1>4, <2>1, <2>2
      DEF ClientWriteExecute, CmdWriteExecute, Accepted, GiveUp
    <3>2. UNCHANGED <<usage, session, reliable_session_id, in_long_write, created, removed,
                      refs, line>>
      BY <2>1, <2>2, <3>1 DEF vars, client, request
    <3> QED BY <3>2, KnownQuietly DEF PendingRequest
  <2>3. CASE id # None
    <3>1. Accepted(id) /\ PendingRequest(id)
      BY <1>1, <1>4, <2>1, <2>3 DEF Accepted, Known
    <3>2. WriteExecute(id) \/ CancelSession(id)
      <4>1. CASE execute
        BY <1>4, <3>1, <4>1 DEF ClientWriteExecute, CmdWriteExecute
      <4>2. CASE ~ execute
        BY <1>4, <3>1, <4>2 DEF ClientWriteExecute, CmdWriteExecute, GiveUp
      <4> QED BY <4>1, <4>2
    <3> QED BY <1>3, <1>4, <2>1, <2>3, <3>2
  <2> QED BY <2>2, <2>3
<1>5. ASSUME ~ Minds, usage' = usage PROVE Known'
  BY <1>5 DEF Known, Minds, Direct, Patient
<1>6. ASSUME NEW id, NEW r, Proceed(id, r) PROVE usage' = usage
  BY <1>6 DEF Proceed, PrepareWrite, vars
<1>7. ASSUME NEW id, NEW execute \in BOOLEAN,
             ClientWriteExecute(id, execute) \/ CmdWriteExecute(id, execute)
      PROVE  usage' = usage
  <2>1. (WriteExecute(id) \/ CancelSession(id) \/ UNCHANGED vars) => usage' = usage
    BY DEF WriteExecute, CancelSession, vars
  <2>2. CASE execute
    BY <1>7, <2>1, <2>2 DEF ClientWriteExecute, CmdWriteExecute
  <2>3. CASE ~ execute
    BY <1>7, <2>1, <2>3 DEF ClientWriteExecute, CmdWriteExecute, GiveUp
  <2> QED BY <2>2, <2>3
<1> QED BY <1>2, <1>4, <1>5, <1>6, <1>7

(* The answers: the open session ends with its EXECUTE WRITE.              *)
LEMMA KnownAnswers ==
  ASSUME GattConstantsOK, Base, Held, Known, Answer, reliable_session_id' = reliable_session_id
  PROVE  Known'
<1>0. usage' = usage
  BY DEF Answer, PrepareWriteCb, PrepWriteCb, WriteEnds, WriteEnded, CancelLongWriteCb,
         CancelPrepWriteCb
<1>1. /\ line \in Seq(Entry) /\ line # <<>> /\ None \notin Session
      /\ session \in Session \union {None} /\ Long \intersect Session = {}
      /\ refs \in [Writes -> Nat] /\ Session \subseteq Writes
  <2>1. line # <<>>
    BY DEF Answer, PrepareWriteCb, PrepWriteCb, WriteEnds, WriteEnded, CancelLongWriteCb,
           CancelPrepWriteCb, Handling, Base, CallbackOK
  <2> QED BY <2>1, Types DEF Base, TypeOK, GattConstantsOK, Writes
<1>2. PICK h \in Entry : h = line[1] /\ h = Head(line) /\ EntryOK(h) /\ h.req \in Writes
  BY <1>1, HeadFacts
<1>3. ASSUME Minds, h.req \in Session, h.pdu # "PREP"
      PROVE  session = h.req /\ reliable_session_id = None
  <2>1. session = h.req
    BY <1>2, <1>3 DEF Minds, EntryOK, Held
  <2>2. Ending(line, session)
    <3>1. 1 \in DOMAIN line
      BY <1>1, Popped
    <3> QED BY <1>2, <1>3, <2>1, <3>1 DEF Ending
  <2> QED BY <1>3, <2>1, <2>2 DEF Known
<1>4. line' = Tail(line) /\ (h.req \notin Session \/ h.pdu = "PREP") =>
        \A r \in Session : Ending(line', r) <=> Ending(line, r)
  BY <1>1, <1>2, EndingPopped
<1>5. ASSUME NEW e \in Entry, line' = Append(Tail(line), e), h.req \in Long, e.req \in Long
      PROVE  \A r \in Session : Ending(line', r) <=> Ending(line, r)
  <2>1. Tail(line) \in Seq(Entry)
    BY <1>1, Popped
  <2>2. \A r \in Session : Ending(line', r) <=> Ending(Tail(line), r)
    BY <1>1, <1>5, <2>1, EndingPushed
  <2>3. \A r \in Session : Ending(Tail(line), r) <=> Ending(line, r)
    BY <1>1, <1>2, <1>5, EndingPopped
  <2> QED BY <2>2, <2>3
<1>6. ASSUME NEW outcome \in Outcomes, PrepareWriteCb(outcome) PROVE Known'
  <2>1. h.req \in Long
    BY <1>2, <1>6, HandlingFacts DEF PrepareWriteCb, HandlersOf
  <2>2. UNCHANGED <<usage, session, in_long_write, created, removed, refs>>
    BY <1>6 DEF PrepareWriteCb, client
  <2>3. PICK e \in Entry : e.req \in Long /\ line' = Append(Tail(line), e)
    <3>1. chunk[h.req] + 1 \in Nat
      BY <1>2, Types DEF Base
    <3>2. CASE outcome = "echoed" /\ chunk[h.req] < Chunks[h.req]
      <4>1. PICK e \in Entry : e = Prep(h.req, chunk[h.req] + 1, "prepare_write_cb", TRUE)
        BY <1>2, <3>1 DEF Prep, Entry
      <4> QED BY <1>2, <1>6, <2>1, <3>2, <4>1 DEF PrepareWriteCb, Prep
    <3>3. CASE ~ (outcome = "echoed" /\ chunk[h.req] < Chunks[h.req])
      <4>1. PICK pdu \in {"COMMIT", "CANCEL"} :
              line' = Append(Tail(line), Exec(pdu, h.req, "execute_write_cb", TRUE))
        BY <1>2, <1>6, <3>3 DEF PrepareWriteCb
      <4>2. PICK e \in Entry : e = Exec(pdu, h.req, "execute_write_cb", TRUE)
        BY <1>2 DEF Exec, Entry
      <4> QED BY <2>1, <4>1, <4>2 DEF Exec
    <3> QED BY <3>2, <3>3
  <2>4. session \in Session => (Ending(line', session) <=> Ending(line, session))
    BY <1>5, <2>1, <2>3
  <2> QED BY <2>2, <2>4, KnownQuietly DEF PendingRequest
<1>7. ASSUME line' = Tail(line), h.req \notin Session \/ h.pdu = "PREP",
             in_long_write' => in_long_write,
             UNCHANGED <<usage, session, created, removed, refs>>
      PROVE  Known'
  <2>1. session \in Session => (Ending(line', session) <=> Ending(line, session))
    BY <1>4, <1>7
  <2> QED BY <1>7, <2>1, KnownQuietly DEF PendingRequest
<1>8. ASSUME NEW outcome, PrepWriteCb(outcome) PROVE Known'
  <2>1. h.cb = "prep_write_cb"
    BY <1>2, <1>8 DEF PrepWriteCb, Handling
  <2>2. h.pdu = "PREP"
    BY <1>2, <2>1 DEF EntryOK
  <2> QED BY <1>7, <1>8, <2>2 DEF PrepWriteCb, client, request
<1>9. ASSUME CancelLongWriteCb PROVE Known'
  <2>1. h.req \notin Session
    BY <1>1, <1>2, <1>9 DEF CancelLongWriteCb, Handling, EntryOK, HandlersOf, Writes
  <2> QED BY <1>7, <1>9, <2>1 DEF CancelLongWriteCb, request
<1>10. ASSUME WriteEnds PROVE Known'
  <2>1. UNCHANGED <<usage, session, in_long_write, created, removed, refs, line>>
    BY <1>10 DEF WriteEnds, client, request
  <2> QED BY <2>1, KnownQuietly DEF PendingRequest
<1>11. ASSUME session' = None, h.req \in Session, h.pdu # "PREP"
       PROVE  Known'
  <2>1. Minds' <=> Minds
    BY <1>0 DEF Minds, Direct, Patient
  <2> QED BY <1>3, <1>11, <2>1 DEF Known
<1>12. ASSUME CancelPrepWriteCb PROVE Known'
  <2>1. h.cb = "cancel_prep_write_cb" /\ session' = None
    BY <1>2, <1>12 DEF CancelPrepWriteCb, Handling
  <2>2. h.req \in Session /\ h.pdu # "PREP"
    BY <1>2, <2>1 DEF EntryOK, HandlersOf, Writes
  <2> QED BY <1>11, <2>1, <2>2
<1>13. ASSUME WriteEnded PROVE Known'
  <2>1. /\ h.cb \in {"execute_write_cb", "exec_write_cb"} /\ h.pdu # "PREP"
        /\ (h.cb = "exec_write_cb" <=> h.req \in Session)
        /\ h.req \in Long \/ h.req \in Session
    BY <1>1, <1>2, <1>13 DEF WriteEnded, Base, CallbackOK, EntryOK, HandlersOf, Writes
  <2>2. CASE h.req \in Session
    <3>1. session' = None
      BY <1>2, <1>13, <2>1, <2>2 DEF WriteEnded
    <3> QED BY <1>11, <2>1, <2>2, <3>1
  <2>3. CASE h.req \in Long
    <3>1. /\ session' = session /\ UNCHANGED <<usage, created, removed>>
          /\ refs' = [refs EXCEPT ![h.req] = @ - 1] /\ StartNext(Tail(line))
      BY <1>1, <1>2, <1>13, <2>1, <2>3 DEF WriteEnded, Unref
    <3>2. session \in Session => refs'[session] = refs[session]
      BY <1>1, <2>3, <3>1
    <3>3. session \in Session => (Ending(line', session) <=> Ending(line, session))
      <4>1. CASE long_write_queue = <<>>
        <5>1. line' = Tail(line)
          BY <3>1, <4>1 DEF StartNext
        <5> QED BY <1>1, <1>4, <2>3, <5>1
      <4>2. CASE long_write_queue # <<>>
        <5>1. PICK q \in Long : q = Head(long_write_queue)
          BY <4>2, Types, Popped DEF Base
        <5>2. PICK e \in Entry : e = FirstPrep(q)
          BY DEF FirstPrep, Prep, Entry, Writes
        <5>3. line' = Append(Tail(line), e) /\ e.req \in Long
          BY <3>1, <4>2, <5>1, <5>2 DEF StartNext, FirstPrep, Prep
        <5> QED BY <1>5, <2>3, <5>3
      <4> QED BY <4>1, <4>2
    <3>4. in_long_write' => in_long_write
      BY <3>1 DEF StartNext
    <3> QED BY <3>1, <3>2, <3>3, <3>4, KnownQuietly DEF PendingRequest
  <2> QED BY <2>1, <2>2, <2>3
<1> QED BY <1>6, <1>8, <1>9, <1>10, <1>12, <1>13 DEF Answer

(* Every step of a program keeps what it knows of its session.             *)
LEMMA KnownNext ==
  ASSUME GattConstantsOK, Base, Held, Known, [CallersNext]_<<vars, callers>>
  PROVE  Known'
<1>1. ASSUME NEW r \in Long, ClientWriteLong(r) \/ CmdWriteLong(r) PROVE Known'
  <2>1. /\ WriteLong(r) /\ r \in Writes /\ line \in Seq(Entry) /\ Long \intersect Session = {}
        /\ Session \subseteq Writes
    BY <1>1, Types DEF ClientWriteLong, CmdWriteLong, Base
  <2>2. UNCHANGED <<usage, session, removed, reliable_session_id>> /\ Create(r)
    BY <1>1, <2>1 DEF WriteLong, ClientWriteLong, CmdWriteLong, callers
  <2>3. in_long_write' => in_long_write \/ session = None
    BY <2>1 DEF WriteLong
  <2>4. session \in Session /\ PendingRequest(session) => PendingRequest(session)'
    BY <2>1, <2>2, Fresh DEF PendingRequest
  <2>5. session \in Session => (Ending(line', session) <=> Ending(line, session))
    <3>1. CASE line' = line
      BY <2>2, <3>1 DEF Ending
    <3>2. CASE line' # line
      <4>1. PICK e \in Entry : e = FirstPrep(r)
        BY <2>1 DEF FirstPrep, Prep, Entry
      <4>2. line' = Append(line, e) /\ e.pdu = "PREP"
        BY <2>1, <3>2, <4>1 DEF WriteLong, FirstPrep, Prep
      <4>3. \A s : Ending(line', s) <=> Ending(line, s)
        BY <2>1, <4>2, EndingPushed
      <4> QED BY <2>2, <4>3 DEF Ending
    <3> QED BY <3>1, <3>2
  <2> QED BY <2>2, <2>3, <2>4, <2>5, KnownQuietly
<1>2. ASSUME Direct /\ Api PROVE Known'
  <2>1. usage' = usage
    BY <1>2 DEF Api, WriteLong, CancelLong, PrepareWrite, WriteExecute, CancelSession
  <2> QED BY <1>2, <2>1 DEF Known, Minds, Direct
<1>3. ASSUME CallersAnswer PROVE Known'
  <2>1. Answer /\ reliable_session_id' = reliable_session_id
    BY <1>3 DEF CallersAnswer, KeepPromise, Verify, Answer, callers
  <2> QED BY <2>1, KnownAnswers
<1>4. ASSUME UNCHANGED <<vars, callers>> PROVE Known'
  <2>1. UNCHANGED <<usage, session, reliable_session_id, in_long_write, created, removed,
                    refs, line>>
    BY <1>4 DEF vars, client, request, callers
  <2> QED BY <2>1, KnownQuietly DEF PendingRequest
<1>5. ASSUME NEW r \in Session, NEW id \in Session \union {None},
             ClientWritePrepare(id, r) \/ CmdWritePrepare(id, r)
      PROVE  Known'
  BY <1>5, KnownCalls DEF ClientWritePrepare, CmdWritePrepare
<1> QED BY <1>1, <1>2, <1>3, <1>4, <1>5, KnownCalls DEF CallersNext

(* What the programs rely on: their requests are sound, and a program never*)
(* loses the session it has opened.                                        *)
THEOREM SessionsKept ==
  ASSUME GattConstantsOK
  PROVE  CallersSpec => []CallersInv
<1>1. CallersInit => Known
  BY DEF CallersInit, Init, Known
<1>2. Base /\ Held /\ Known /\ [CallersNext]_<<vars, callers>> => Known'
  BY KnownNext
<1>3. CallersSpec => []Base /\ []Held /\ []Inv
  BY CallersImplement, BaseAlways, HeldAlways, RequestsSound, PTL
<1>4. Known => SessionKnown
  <2> SUFFICES ASSUME Known, Minds PROVE SessionKnown
    BY DEF SessionKnown, Minds, Patient
  <2>1. Ending(line, session) => \E i \in Of(session) : line[i].pdu # "PREP"
    BY DEF Ending, Of
  <2> QED BY <2>1 DEF SessionKnown, Known
<1>5. Inv /\ CallersTypeOK /\ Known => CallersInv
  BY <1>4 DEF CallersInv
<1> QED BY <1>1, <1>2, <1>3, <1>5, CallersTyped, PTL DEF CallersSpec

(* The programs' writes do not mix either.                                 *)
THEOREM ProgramsNotMixed ==
  ASSUME GattConstantsOK
  PROVE  CallersSpec => []NeverMixedAlone
BY CallersImplement, WritesNotMixed, PTL

=============================================================================
