-------------------------- MODULE MainLoopProofs --------------------------
(***************************************************************************)
(* Proofs about MainLoop, for any number of ios, timeouts and descriptors: *)
(* the tables of the loop, the kernel and the ios agree, references and    *)
(* destroy functions of an io are balanced, and events are not delivered   *)
(* to what an earlier handler of the batch has freed, unless handlers      *)
(* remove sources of others.                                               *)
(***************************************************************************)
EXTENDS MainLoop, QueueLemmas

-----------------------------------------------------------------------------
(* The inductive invariant.                                                *)

(* What is in mainloop_list is registered with the kernel, and allocated.  *)
Linked ==
  \A f \in Fds :
    /\ mainloop_list[f] = None <=> epoll[f] = None
    /\ mainloop_list[f] # None =>
         /\ epoll[f].ptr = mainloop_list[f]
         /\ mainloop_list[f] \in allocated
         /\ fd[mainloop_list[f]] = f

(* What is allocated is in mainloop_list, at its descriptor.               *)
Placed ==
  \A s \in Sources :
    /\ s \in allocated <=> fd[s] # -1
    /\ s \in allocated => mainloop_list[fd[s]] = s

(* The kernel watches for what an io asks, and an io asks for what its     *)
(* handlers are for.                                                       *)
Watched ==
  \A i \in Ios \intersect allocated :
    /\ epoll[fd[i]].events = events[i]
    /\ \A h \in callback[i] : Event(h) \in events[i]

(* An io that is yet to be made is blank.                                  *)
Blank ==
  /\ held \subseteq created
  /\ \A i \in Ios \ created :
       /\ events[i] = {} /\ callback[i] = {} /\ destroy[i] = {}
       /\ \A h \in Hooks : installs[i][h] = 0 /\ releases[i][h] = 0

(* Handlers run while a batch is worked off.  One that has destroyed its   *)
(* own io is the last one of it, and had no destroy function itself.       *)
FrameOK ==
  /\ pc # "batch" => batch = <<>> /\ frame = None
  /\ frame # None =>
       /\ frame.src \in created
       /\ frame.src \in Ios => frame.stage \in Hooks
       /\ frame.src \in Ios \ allocated =>
            /\ callback[frame.src] = {}
            /\ "inside" \notin usage => frame.stage \notin destroy[frame.src]

(* The events of a batch are of different sources, none of which is gone   *)
(* or in a handler, as long as handlers remove only their own.             *)
BatchOK ==
  "others" \notin usage =>
    /\ fault = "none"
    /\ Distinct(batch)
    /\ \A k \in DOMAIN batch :
         /\ batch[k].src \in allocated
         /\ frame # None => frame.src # batch[k].src

Tables == TypeOK /\ Linked /\ Placed /\ Watched /\ Blank
IInv == Tables /\ IoRefsExact /\ DestroyedOnce /\ FrameOK /\ BatchOK

-----------------------------------------------------------------------------
(* Types, one by one.                                                      *)

LEMMA Types ==
  ASSUME TypeOK
  PROVE  /\ usage \in Usages /\ epoll_terminate \in BOOLEAN
         /\ pc \in {"out", "test", "wait", "batch", "ended"}
         /\ mainloop_list \in [Fds -> Sources \union {None}]
         /\ epoll \in [Fds -> Registration \union {None}]
         /\ batch \in Seq(Happened)
         /\ allocated \subseteq created /\ created \subseteq Sources
         /\ fd \in [Sources -> Fds \union {-1}]
         /\ refs \in [Ios -> Nat] /\ held \subseteq Ios
         /\ events \in [Ios -> SUBSET {"IN", "OUT", "RDHUP"}]
         /\ callback \in [Ios -> SUBSET Hooks] /\ destroy \in [Ios -> SUBSET Hooks]
         /\ installs \in [Ios -> [Hooks -> Nat]] /\ releases \in [Ios -> [Hooks -> Nat]]
         /\ armed \in [Timers -> Nat] /\ fired \in [Timers -> Nat]
         /\ frame \in Handling \union {None}
         /\ fault \in {"none", "data"}
BY DEF TypeOK

(* NULL is none of the things that are pointed to.                         *)
LEMMA Null ==
  /\ None \notin Sources /\ None \notin Registration /\ None \notin Handling
  /\ Ios \intersect Timers = {} /\ Sources = Ios \union Timers
  /\ -1 \notin Fds /\ Fds \subseteq Nat
<1>1. None \notin Sources /\ None \notin Registration /\ None \notin Handling
  BY NullOK
<1>2. Ios \intersect Timers = {} /\ Sources = Ios \union Timers
  BY LoopConstantsOK DEF Sources
<1>3. -1 \notin Fds /\ Fds \subseteq Nat
  BY DEF Fds
<1> QED BY <1>1, <1>2, <1>3

(* A descriptor belongs to one source.                                     *)
LEMMA OneEach ==
  ASSUME TypeOK, Linked, Placed
  PROVE  /\ \A s \in allocated : /\ s \in Sources /\ fd[s] \in Fds
                                 /\ mainloop_list[fd[s]] = s
                                 /\ epoll[fd[s]] \in Registration /\ epoll[fd[s]].ptr = s
         /\ \A s, r \in allocated : fd[s] = fd[r] => s = r
         /\ \A s \in Sources : Registered(s) = {s} \intersect allocated
<1>1. ASSUME NEW s \in allocated
      PROVE  s \in Sources /\ fd[s] \in Fds /\ mainloop_list[fd[s]] = s
  BY Types DEF Placed
<1>2. ASSUME NEW s \in allocated
      PROVE  epoll[fd[s]] \in Registration /\ epoll[fd[s]].ptr = s
  <2>1. s \in Sources /\ fd[s] \in Fds /\ mainloop_list[fd[s]] = s /\ s # None
    BY <1>1, Null
  <2>2. epoll[fd[s]] # None /\ epoll[fd[s]].ptr = s
    BY <2>1 DEF Linked
  <2>3. epoll \in [Fds -> Registration \union {None}]
    BY Types
  <2>4. epoll[fd[s]] \in Registration
    BY <2>1, <2>2, <2>3
  <2> QED BY <2>2, <2>4
<1>3. \A s \in Sources : Registered(s) = {s} \intersect allocated
  BY <1>1 DEF Registered, Placed
<1> QED BY <1>1, <1>2, <1>3

(* mainloop_remove_fd, for any sources at once                             *)
LEMMA Removed ==
  ASSUME TypeOK, Linked, Placed, NEW ss \in SUBSET allocated, RemoveFds(ss)
  PROVE  /\ mainloop_list' \in [Fds -> Sources \union {None}]
         /\ epoll' \in [Fds -> Registration \union {None}]
         /\ fd' \in [Sources -> Fds \union {-1}]
         /\ releases' \in [Ios -> [Hooks -> Nat]]
         /\ allocated' = allocated \ ss /\ created' = created
         /\ Linked' /\ Placed'
         /\ \A s \in allocated' : fd'[s] = fd[s] /\ epoll'[fd'[s]] = epoll[fd[s]]
         /\ \A i \in Ios, h \in Hooks :
              releases'[i][h] =
                releases[i][h] + IF i \in ss /\ h \in destroy[i] THEN 1 ELSE 0
<1>1. /\ mainloop_list' =
           [f \in Fds |-> IF mainloop_list[f] \in ss THEN None ELSE mainloop_list[f]]
      /\ epoll' = [f \in Fds |-> IF mainloop_list[f] \in ss THEN None ELSE epoll[f]]
      /\ allocated' = allocated \ ss /\ created' = created
      /\ fd' = [s \in Sources |-> IF s \in ss THEN -1 ELSE fd[s]]
      /\ releases' =
           [i \in Ios |-> [h \in Hooks |->
              releases[i][h] + IF i \in ss /\ h \in destroy[i] THEN 1 ELSE 0]]
  BY DEF RemoveFds
<1>2. /\ mainloop_list \in [Fds -> Sources \union {None}]
      /\ epoll \in [Fds -> Registration \union {None}]
      /\ fd \in [Sources -> Fds \union {-1}]
      /\ releases \in [Ios -> [Hooks -> Nat]]
      /\ allocated \subseteq Sources
  BY Types
<1>3. /\ mainloop_list' \in [Fds -> Sources \union {None}]
      /\ epoll' \in [Fds -> Registration \union {None}]
  BY <1>1, <1>2
<1>4. fd' \in [Sources -> Fds \union {-1}]
  BY <1>1, <1>2
<1>5. \A i \in Ios, h \in Hooks :
        releases'[i][h] = releases[i][h] + IF i \in ss /\ h \in destroy[i] THEN 1 ELSE 0
  BY <1>1
<1>6. releases' \in [Ios -> [Hooks -> Nat]]
  <2>1. \A i \in Ios, h \in Hooks :
          releases[i][h] + (IF i \in ss /\ h \in destroy[i] THEN 1 ELSE 0) \in Nat
    BY <1>2
  <2> QED BY <1>1, <2>1
<1>7. \A s \in allocated : fd[s] \in Fds /\ mainloop_list[fd[s]] = s
  BY OneEach
<1>8. ASSUME NEW s \in allocated'
      PROVE  fd'[s] = fd[s] /\ epoll'[fd'[s]] = epoll[fd[s]]
  BY <1>1, <1>2, <1>7
<1>9. Linked'
  <2> SUFFICES ASSUME NEW f \in Fds
               PROVE  /\ mainloop_list'[f] = None <=> epoll'[f] = None
                      /\ mainloop_list'[f] # None =>
                           /\ epoll'[f].ptr = mainloop_list'[f]
                           /\ mainloop_list'[f] \in allocated'
                           /\ fd'[mainloop_list'[f]] = f
    BY DEF Linked
  <2>1. CASE mainloop_list[f] \in ss
    BY <1>1, <2>1
  <2>2. CASE mainloop_list[f] \notin ss
    BY <1>1, <1>2, <2>2 DEF Linked
  <2> QED BY <2>1, <2>2
<1>10. Placed'
  <2> SUFFICES ASSUME NEW s \in Sources
               PROVE  /\ s \in allocated' <=> fd'[s] # -1
                      /\ s \in allocated' => mainloop_list'[fd'[s]] = s
    BY DEF Placed
  <2>1. CASE s \in ss
    BY <1>1, <2>1
  <2>2. CASE s \notin ss
    <3>1. fd'[s] = fd[s] /\ (s \in allocated' <=> s \in allocated)
      BY <1>1, <2>2
    <3>2. s \in allocated => mainloop_list'[fd[s]] = s
      BY <1>1, <1>7, <2>2
    <3> QED BY <3>1, <3>2 DEF Placed
  <2> QED BY <2>1, <2>2
<1> QED BY <1>1, <1>3, <1>4, <1>5, <1>6, <1>8, <1>9, <1>10

(* mainloop_add_fd, for a descriptor that is free                          *)
LEMMA Added ==
  ASSUME TypeOK, Linked, Placed, NEW s \in Sources \ created,
         NEW evs \in SUBSET {"IN", "OUT", "RDHUP"},
         FreeFd # {}, AddFd(s, Min(FreeFd), evs)
  PROVE  /\ mainloop_list' \in [Fds -> Sources \union {None}]
         /\ epoll' \in [Fds -> Registration \union {None}]
         /\ fd' \in [Sources -> Fds \union {-1}]
         /\ allocated' = allocated \union {s} /\ created' = created \union {s}
         /\ Linked' /\ Placed' /\ pc # "ended"
         /\ \A r \in allocated : fd'[r] = fd[r] /\ epoll'[fd'[r]] = epoll[fd[r]]
         /\ epoll'[fd'[s]].events = evs
<1> DEFINE f == Min(FreeFd)
           r == [ptr |-> s, events |-> evs, on |-> TRUE]
<1>1. f \in FreeFd
  <2>1. FreeFd \in SUBSET Nat
    BY Null DEF FreeFd
  <2> QED BY <2>1, Least
<1>2. f \in Fds /\ \A x \in Sources : fd[x] # f
  BY <1>1 DEF FreeFd
<1>3. /\ mainloop_list' = [mainloop_list EXCEPT ![f] = s]
      /\ epoll' = [epoll EXCEPT ![f] = r]
      /\ fd' = [fd EXCEPT ![s] = f]
      /\ allocated' = allocated \union {s} /\ created' = created \union {s}
      /\ pc # "ended"
  BY DEF AddFd
<1>4. r \in Registration /\ r.ptr = s /\ r.events = evs
  BY DEF Registration
<1> HIDE DEF f, r
<1>5. /\ mainloop_list \in [Fds -> Sources \union {None}]
      /\ epoll \in [Fds -> Registration \union {None}]
      /\ fd \in [Sources -> Fds \union {-1}]
      /\ allocated \subseteq created /\ created \subseteq Sources
  BY Types
<1>6. mainloop_list[f] = None
  BY <1>2, <1>5 DEF Linked
<1>7. /\ mainloop_list'[f] = s /\ epoll'[f] = r /\ fd'[s] = f
      /\ \A g \in Fds \ {f} : mainloop_list'[g] = mainloop_list[g] /\ epoll'[g] = epoll[g]
      /\ \A x \in Sources \ {s} : fd'[x] = fd[x]
  BY <1>2, <1>3, <1>5
<1>8. \A x \in allocated : fd[x] \in Fds \ {f} /\ mainloop_list[fd[x]] = x /\ x # s
  BY <1>2, <1>5, OneEach
<1>9. \A x \in allocated : fd'[x] = fd[x] /\ epoll'[fd'[x]] = epoll[fd[x]]
  BY <1>5, <1>7, <1>8
<1>10. Linked'
  <2> SUFFICES ASSUME NEW g \in Fds
               PROVE  /\ mainloop_list'[g] = None <=> epoll'[g] = None
                      /\ mainloop_list'[g] # None =>
                           /\ epoll'[g].ptr = mainloop_list'[g]
                           /\ mainloop_list'[g] \in allocated'
                           /\ fd'[mainloop_list'[g]] = g
    BY DEF Linked
  <2>1. CASE g = f
    BY <1>3, <1>4, <1>7, <2>1, Null
  <2>2. CASE g # f
    <3>1. mainloop_list'[g] = mainloop_list[g] /\ epoll'[g] = epoll[g]
      BY <1>7, <2>2
    <3>2. mainloop_list[g] # None => fd'[mainloop_list[g]] = g
      BY <1>8, <1>9 DEF Linked
    <3> QED BY <1>3, <3>1, <3>2 DEF Linked
  <2> QED BY <2>1, <2>2
<1>11. Placed'
  <2> SUFFICES ASSUME NEW x \in Sources
               PROVE  /\ x \in allocated' <=> fd'[x] # -1
                      /\ x \in allocated' => mainloop_list'[fd'[x]] = x
    BY DEF Placed
  <2>1. CASE x = s
    BY <1>2, <1>3, <1>7, <2>1, Null
  <2>2. CASE x # s
    <3>1. fd'[x] = fd[x] /\ (x \in allocated' <=> x \in allocated)
      BY <1>3, <1>7, <2>2
    <3>2. x \in allocated => mainloop_list'[fd[x]] = x
      BY <1>7, <1>8
    <3> QED BY <3>1, <3>2 DEF Placed
  <2> QED BY <2>1, <2>2
<1>12. /\ mainloop_list' \in [Fds -> Sources \union {None}]
       /\ epoll' \in [Fds -> Registration \union {None}]
  BY <1>3, <1>4, <1>5
<1>13. fd' \in [Sources -> Fds \union {-1}]
  BY <1>2, <1>3, <1>5
<1> QED BY <1>3, <1>4, <1>7, <1>9, <1>10, <1>11, <1>12, <1>13

(* mainloop_modify_fd, for the descriptor of a source                      *)
LEMMA Modified ==
  ASSUME TypeOK, Linked, Placed, NEW s \in Sources,
         NEW evs \in SUBSET {"IN", "OUT", "RDHUP"}, ModifyFd(fd[s], evs)
  PROVE  /\ epoll' \in [Fds -> Registration \union {None}]
         /\ \A f \in Fds : /\ epoll'[f] = None <=> epoll[f] = None
                           /\ epoll[f] # None => epoll'[f].ptr = epoll[f].ptr
         /\ s \in allocated => epoll'[fd[s]].events = evs
         /\ \A r \in allocated : r # s => epoll'[fd[r]] = epoll[fd[r]]
<1>1. /\ mainloop_list \in [Fds -> Sources \union {None}]
      /\ epoll \in [Fds -> Registration \union {None}]
      /\ allocated \subseteq Sources /\ fd[s] \in Fds \union {-1}
  BY Types
<1>2. /\ \A r \in allocated : /\ fd[r] \in Fds /\ mainloop_list[fd[r]] = r /\ r # None
                              /\ epoll[fd[r]] \in Registration
      /\ \A r, q \in allocated : fd[r] = fd[q] => r = q
  BY <1>1, OneEach, Null
<1>3. CASE s \notin allocated
  <2>1. fd[s] = -1
    BY <1>3 DEF Placed
  <2>2. epoll' = epoll
    BY <2>1 DEF ModifyFd
  <2> QED BY <1>1, <1>3, <2>2
<1>4. CASE s \in allocated
  <2> DEFINE f == fd[s]
             e == [epoll[f] EXCEPT !.events = evs, !.on = TRUE]
  <2>1. f \in Fds /\ f # -1 /\ mainloop_list[f] # None /\ epoll[f] \in Registration
    BY <1>2, <1>4, Null
  <2>2. e \in Registration /\ e.ptr = epoll[f].ptr /\ e.events = evs
    BY <2>1 DEF Registration
  <2>3. epoll' = [epoll EXCEPT ![f].events = evs, ![f].on = TRUE]
    BY <2>1 DEF ModifyFd
  <2>4. epoll' = [epoll EXCEPT ![f] = e]
    BY <1>1, <2>1, <2>3
  <2>5. epoll[f] # None /\ e # None
    BY <2>1, <2>2, Null
  <2>6. \A r \in allocated : r # s => fd[r] \in Fds \ {f}
    BY <1>2, <1>4
  <2> HIDE DEF f, e
  <2>7. epoll' \in [Fds -> Registration \union {None}]
    BY <1>1, <2>2, <2>4
  <2>8. epoll'[f] = e /\ \A g \in Fds \ {f} : epoll'[g] = epoll[g]
    BY <1>1, <2>1, <2>4
  <2>9. \A g \in Fds : /\ epoll'[g] = None <=> epoll[g] = None
                       /\ epoll[g] # None => epoll'[g].ptr = epoll[g].ptr
    BY <2>2, <2>5, <2>8
  <2>10. \A r \in allocated : r # s => epoll'[fd[r]] = epoll[fd[r]]
    BY <2>6, <2>8
  <2>11. epoll'[fd[s]].events = evs
    BY <2>2, <2>8 DEF f
  <2> QED BY <2>7, <2>9, <2>10, <2>11
<1> QED BY <1>3, <1>4

(* The stage that io_callback goes to next is one of a handler that is set. *)
LEMMA Chosen ==
  ASSUME NEW cbs, NEW after, NEW evs, NextStage(cbs, after, evs) # None
  PROVE  NextStage(cbs, after, evs) \in Hooks \intersect cbs
<1> DEFINE k == SelectInSeq(Stages, LAMBDA h : h = after)
           T(h) == StageEvent[h] \in evs /\ h \in cbs
           I == {n \in k + 1 .. 3 : T(Stages[n])}
           j == SelectInSubSeq(Stages, k + 1, 3, T)
<1>1. k \in 0 .. 3
  <2> DEFINE K == {n \in 1 .. Len(Stages) : Stages[n] = after}
  <2>1. Len(Stages) = 3
    BY DEF Stages
  <2>2. k = IF K # {} THEN Min(K) ELSE 0
    BY DEF SelectInSeq
  <2>3. K \in SUBSET Nat /\ K \subseteq 1 .. 3
    BY <2>1
  <2>4. K # {} => Min(K) \in K
    BY <2>3, Least
  <2> QED BY <2>2, <2>3, <2>4
<1> HIDE DEF k
<1>2. j = IF I # {} THEN Min(I) ELSE 0
  BY DEF SelectInSubSeq
<1>3. I \in SUBSET Nat /\ I \subseteq 1 .. 3 /\ 0 \notin I
  BY <1>1
<1>4. NextStage(cbs, after, evs) = IF j = 0 THEN None ELSE Stages[j]
  BY DEF NextStage, k
<1>5. j # 0
  BY <1>4
<1>6. j \in I
  BY <1>2, <1>3, <1>5, Least
<1>7. Stages[j] \in cbs /\ j \in 1 .. 3
  BY <1>3, <1>6
<1>8. Stages[j] \in Hooks
  BY <1>7 DEF Stages, Hooks
<1> QED BY <1>4, <1>5, <1>7, <1>8

-----------------------------------------------------------------------------
(* The actions, one by one: first struct io.                               *)

(* io_new                                                                  *)
LEMMA IoNewKeeps ==
  ASSUME IInv, NEW i \in Ios, IoNew(i)
  PROVE  IInv'
<1>1. /\ TypeOK /\ Linked /\ Placed /\ Watched /\ Blank /\ IoRefsExact /\ DestroyedOnce
      /\ FrameOK /\ BatchOK
  BY DEF IInv, Tables
<1>2. i \in Sources \ created /\ i \notin allocated /\ i \notin held
  BY <1>1, Null DEF IoNew, TypeOK, Blank
<1>3. /\ mainloop_list' \in [Fds -> Sources \union {None}]
      /\ epoll' \in [Fds -> Registration \union {None}]
      /\ fd' \in [Sources -> Fds \union {-1}]
      /\ allocated' = allocated \union {i} /\ created' = created \union {i}
      /\ Linked' /\ Placed'
      /\ \A r \in allocated : fd'[r] = fd[r] /\ epoll'[fd'[r]] = epoll[fd[r]]
      /\ epoll'[fd'[i]].events = {}
  <2>1. FreeFd # {} /\ AddFd(i, Min(FreeFd), {})
    BY DEF IoNew
  <2>2. {} \in SUBSET {"IN", "OUT", "RDHUP"}
    OBVIOUS
  <2> QED BY <1>1, <1>2, <2>1, <2>2, Added
<1>4. /\ refs' = [refs EXCEPT ![i] = 1] /\ held' = held \union {i}
      /\ UNCHANGED <<usage, epoll_terminate, pc, batch, events, callback, destroy,
                     installs, releases, armed, fired, frame, fault>>
  BY DEF IoNew, loop, timer
<1>5. /\ events[i] = {} /\ callback[i] = {} /\ destroy[i] = {}
      /\ \A h \in Hooks : installs[i][h] = 0 /\ releases[i][h] = 0
  BY <1>1, <1>2 DEF Blank
<1>6. refs \in [Ios -> Nat] /\ frame \in Handling \union {None} /\ allocated \subseteq created
  BY <1>1, Types
<1>7. TypeOK'
  <2>1. refs' \in [Ios -> Nat] /\ held' \subseteq Ios
    BY <1>1, <1>4, <1>6, Types
  <2>2. allocated' \subseteq created' /\ created' \subseteq Sources
    BY <1>1, <1>2, <1>3, Types
  <2> QED BY <1>1, <1>3, <1>4, <2>1, <2>2 DEF TypeOK
<1>8. Watched'
  <2> SUFFICES ASSUME NEW j \in Ios \intersect allocated'
               PROVE  /\ epoll'[fd'[j]].events = events'[j]
                      /\ \A h \in callback'[j] : Event(h) \in events'[j]
    BY DEF Watched
  <2>1. CASE j = i
    BY <1>3, <1>4, <1>5, <2>1
  <2>2. CASE j # i
    <3>1. j \in Ios \intersect allocated
      BY <1>3, <2>2
    <3> QED BY <1>1, <1>3, <1>4, <3>1 DEF Watched
  <2> QED BY <2>1, <2>2
<1>9. Blank'
  BY <1>1, <1>3, <1>4 DEF Blank
<1>10. frame # None => frame.src \in created /\ frame.src # i
  BY <1>1, <1>2 DEF FrameOK
<1>11. IoRefsExact'
  <2> SUFFICES ASSUME NEW j \in Ios
               PROVE  refs'[j] = (IF j \in held' THEN 1 ELSE 0)
                                   + IF frame' # None /\ frame'.src = j THEN 1 ELSE 0
    BY DEF IoRefsExact
  <2>1. CASE j = i
    BY <1>4, <1>6, <1>10, <2>1
  <2>2. CASE j # i
    <3>1. refs'[j] = refs[j] /\ (j \in held' <=> j \in held) /\ frame' = frame
      BY <1>4, <1>6, <2>2
    <3> QED BY <1>1, <3>1 DEF IoRefsExact
  <2> QED BY <2>1, <2>2
<1>12. DestroyedOnce'
  <2> SUFFICES ASSUME "inside" \notin usage, NEW j \in Ios, NEW h \in Hooks
               PROVE  installs[j][h] - releases[j][h] =
                        IF j \in allocated' /\ h \in destroy[j] THEN 1 ELSE 0
    BY <1>4 DEF DestroyedOnce
  <2>1. CASE j = i
    BY <1>5, <2>1
  <2>2. CASE j # i
    <3>1. j \in allocated' <=> j \in allocated
      BY <1>3, <2>2
    <3> QED BY <1>1, <3>1 DEF DestroyedOnce
  <2> QED BY <2>1, <2>2
<1>13. FrameOK'
  BY <1>1, <1>3, <1>4 DEF FrameOK
<1>14. BatchOK'
  BY <1>1, <1>3, <1>4 DEF BatchOK, Distinct
<1> QED BY <1>3, <1>7, <1>8, <1>9, <1>11, <1>12, <1>13, <1>14 DEF IInv, Tables

(* The flags of the three handlers are different ones.                     *)
LEMMA Flags ==
  /\ \A h \in Hooks : Event(h) \in {"IN", "OUT", "RDHUP"}
  /\ \A h, g \in Hooks : Event(h) = Event(g) => h = g
<1>1. Event("read") = "IN" /\ Event("write") = "OUT" /\ Event("disconnect") = "RDHUP"
  BY DEF Event
<1>2. \A h \in Hooks : h = "read" \/ h = "write" \/ h = "disconnect"
  BY DEF Hooks
<1>3. "IN" # "OUT" /\ "IN" # "RDHUP" /\ "OUT" # "RDHUP"
  OBVIOUS
<1>4. ASSUME NEW h \in Hooks
      PROVE  /\ Event(h) \in {"IN", "OUT", "RDHUP"}
             /\ Event(h) = "IN" <=> h = "read"
             /\ Event(h) = "OUT" <=> h = "write"
  BY <1>1, <1>2, <1>3
<1> QED BY <1>2, <1>4

(* io_set_handler, for the read, write and disconnect handlers             *)
LEMMA SetHandlerKeeps ==
  ASSUME IInv, NEW i \in Ios, NEW h \in Hooks, NEW on \in BOOLEAN,
         NEW destroys \in BOOLEAN, SetHandler(i, h, on, destroys)
  PROVE  IInv'
<1> DEFINE evs == IF on THEN events[i] \union {Event(h)} ELSE events[i] \ {Event(h)}
           cbs == IF on THEN callback[i] \union {h} ELSE callback[i] \ {h}
           dst == IF destroys THEN destroy[i] \union {h} ELSE destroy[i] \ {h}
           was == IF h \in destroy[i] THEN 1 ELSE 0
           now == IF destroys THEN 1 ELSE 0
<1>1. /\ TypeOK /\ Linked /\ Placed /\ Watched /\ Blank /\ IoRefsExact /\ DestroyedOnce
      /\ FrameOK /\ BatchOK
  BY DEF IInv, Tables
<1>2. i \in Sources /\ i \in held /\ i \in allocated /\ i \in created
  BY <1>1, Null DEF SetHandler, TypeOK, Placed
<1>3. /\ releases' = [releases EXCEPT ![i][h] = @ + was]
      /\ installs' = [installs EXCEPT ![i][h] = @ + now]
      /\ callback' = [callback EXCEPT ![i] = cbs]
      /\ destroy' = [destroy EXCEPT ![i] = dst]
      /\ events' = [events EXCEPT ![i] = evs]
      /\ IF evs = events[i] THEN UNCHANGED epoll ELSE ModifyFd(fd[i], evs)
      /\ UNCHANGED <<usage, epoll_terminate, pc, batch, mainloop_list, allocated, created,
                     fd, refs, held, armed, fired, frame, fault>>
  BY DEF SetHandler, loop, timer
<1>4. /\ events \in [Ios -> SUBSET {"IN", "OUT", "RDHUP"}]
      /\ callback \in [Ios -> SUBSET Hooks] /\ destroy \in [Ios -> SUBSET Hooks]
      /\ installs \in [Ios -> [Hooks -> Nat]] /\ releases \in [Ios -> [Hooks -> Nat]]
      /\ fd[i] \in Fds \union {-1} /\ epoll \in [Fds -> Registration \union {None}]
  BY <1>1, <1>2, Types
<1>5. evs \in SUBSET {"IN", "OUT", "RDHUP"} /\ cbs \in SUBSET Hooks /\ dst \in SUBSET Hooks
  BY <1>4, Flags
<1>6. was \in {0, 1} /\ now \in {0, 1}
  OBVIOUS
<1>7. \A g \in cbs : Event(g) \in evs
  <2>1. \A g \in callback[i] : g \in Hooks /\ Event(g) \in events[i]
    BY <1>1, <1>2, <1>4 DEF Watched
  <2>2. CASE on
    BY <2>1, <2>2
  <2>3. CASE ~ on
    BY <2>1, <2>3, Flags
  <2> QED BY <2>2, <2>3
<1>8. \A g \in Hooks : g \in dst <=> IF g = h THEN destroys ELSE g \in destroy[i]
  OBVIOUS
<1>9. was = (IF h \in destroy[i] THEN 1 ELSE 0) /\ now = (IF destroys THEN 1 ELSE 0)
  OBVIOUS
<1> HIDE DEF evs, cbs, dst, was, now
<1>10. /\ epoll' \in [Fds -> Registration \union {None}]
       /\ \A f \in Fds : /\ epoll'[f] = None <=> epoll[f] = None
                         /\ epoll[f] # None => epoll'[f].ptr = epoll[f].ptr
       /\ epoll'[fd[i]].events = evs
       /\ \A r \in allocated : r # i => epoll'[fd[r]] = epoll[fd[r]]
  <2>1. CASE evs = events[i]
    BY <1>1, <1>2, <1>3, <1>4, <2>1 DEF Watched
  <2>2. CASE evs # events[i]
    BY <1>1, <1>2, <1>3, <1>5, <2>2, Modified
  <2> QED BY <2>1, <2>2
<1>11. /\ \A j \in Ios \ {i} : /\ events'[j] = events[j] /\ callback'[j] = callback[j]
                               /\ destroy'[j] = destroy[j]
                               /\ installs'[j] = installs[j] /\ releases'[j] = releases[j]
       /\ events'[i] = evs /\ callback'[i] = cbs /\ destroy'[i] = dst
  BY <1>3, <1>4
<1>12. /\ \A g \in Hooks \ {h} : /\ installs'[i][g] = installs[i][g]
                                 /\ releases'[i][g] = releases[i][g]
       /\ installs'[i][h] = installs[i][h] + now
       /\ releases'[i][h] = releases[i][h] + was
  BY <1>3, <1>4
<1>13. TypeOK'
  <2>1. /\ events' \in [Ios -> SUBSET {"IN", "OUT", "RDHUP"}]
        /\ callback' \in [Ios -> SUBSET Hooks] /\ destroy' \in [Ios -> SUBSET Hooks]
    BY <1>3, <1>4, <1>5
  <2>2. installs' \in [Ios -> [Hooks -> Nat]]
    <3>1. installs[i][h] + now \in Nat
      BY <1>4, <1>6
    <3> QED BY <1>3, <1>4, <3>1
  <2>3. releases' \in [Ios -> [Hooks -> Nat]]
    <3>1. releases[i][h] + was \in Nat
      BY <1>4, <1>6
    <3> QED BY <1>3, <1>4, <3>1
  <2> QED BY <1>1, <1>3, <1>10, <2>1, <2>2, <2>3 DEF TypeOK
<1>14. Linked'
  BY <1>1, <1>3, <1>10 DEF Linked
<1>15. Placed'
  BY <1>1, <1>3 DEF Placed
<1>16. Watched'
  <2> SUFFICES ASSUME NEW j \in Ios \intersect allocated
               PROVE  /\ epoll'[fd[j]].events = events'[j]
                      /\ \A g \in callback'[j] : Event(g) \in events'[j]
    BY <1>3 DEF Watched
  <2>1. CASE j = i
    BY <1>7, <1>10, <1>11, <2>1
  <2>2. CASE j # i
    BY <1>1, <1>10, <1>11, <2>2 DEF Watched
  <2> QED BY <2>1, <2>2
<1>17. Blank'
  <2>1. \A j \in Ios \ created : j \in Ios \ {i}
    BY <1>2
  <2> QED BY <1>1, <1>3, <1>11, <2>1 DEF Blank
<1>18. IoRefsExact'
  BY <1>1, <1>3 DEF IoRefsExact
<1>19. DestroyedOnce'
  <2> SUFFICES ASSUME "inside" \notin usage, NEW j \in Ios, NEW g \in Hooks
               PROVE  installs'[j][g] - releases'[j][g] =
                        IF j \in allocated /\ g \in destroy'[j] THEN 1 ELSE 0
    BY <1>3 DEF DestroyedOnce
  <2>1. installs[j][g] - releases[j][g] =
          IF j \in allocated /\ g \in destroy[j] THEN 1 ELSE 0
    BY <1>1 DEF DestroyedOnce
  <2>2. CASE j # i
    BY <1>11, <2>1, <2>2
  <2>3. CASE j = i /\ g # h
    <3>1. g \in destroy'[i] <=> g \in destroy[i]
      BY <1>8, <1>11, <2>3
    <3> QED BY <1>12, <2>1, <2>3, <3>1
  <2>4. CASE j = i /\ g = h
    <3>1. h \in destroy'[i] <=> destroys
      BY <1>8, <1>11
    <3>2. installs[i][h] - releases[i][h] = was
      BY <1>2, <1>9, <2>1, <2>4
    <3>3. installs[i][h] \in Nat /\ releases[i][h] \in Nat
      BY <1>4
    <3>4. installs'[i][h] - releases'[i][h] = now
      BY <1>6, <1>12, <3>2, <3>3
    <3> QED BY <1>2, <1>9, <2>4, <3>1, <3>4
  <2> QED BY <2>2, <2>3, <2>4
<1>20. FrameOK'
  <2>1. \A j \in Ios \ allocated : j \in Ios \ {i}
    BY <1>2
  <2> QED BY <1>1, <1>3, <1>11, <2>1 DEF FrameOK
<1>21. BatchOK'
  BY <1>1, <1>3 DEF BatchOK, Distinct
<1> QED
  BY <1>13, <1>14, <1>15, <1>16, <1>17, <1>18, <1>19, <1>20, <1>21 DEF IInv, Tables

(* The sources that leave the loop take their handlers and their destroy   *)
(* functions with them.                                                    *)
LEMMA Unlooped ==
  ASSUME Tables, DestroyedOnce, NEW ss \in SUBSET allocated, RemoveFds(ss),
         UNCHANGED <<usage, events, destroy, installs>>,
         \A i \in Ios : callback'[i] \subseteq callback[i], held' \subseteq held
  PROVE  /\ mainloop_list' \in [Fds -> Sources \union {None}]
         /\ epoll' \in [Fds -> Registration \union {None}]
         /\ fd' \in [Sources -> Fds \union {-1}]
         /\ releases' \in [Ios -> [Hooks -> Nat]]
         /\ allocated' = allocated \ ss /\ created' = created
         /\ Linked' /\ Placed' /\ Watched' /\ Blank' /\ DestroyedOnce'
<1>1. /\ TypeOK /\ Linked /\ Placed /\ Watched /\ Blank
      /\ allocated \subseteq created /\ created \subseteq Sources
      /\ installs \in [Ios -> [Hooks -> Nat]] /\ releases \in [Ios -> [Hooks -> Nat]]
  BY Types DEF Tables
<1>2. /\ mainloop_list' \in [Fds -> Sources \union {None}]
      /\ epoll' \in [Fds -> Registration \union {None}]
      /\ fd' \in [Sources -> Fds \union {-1}]
      /\ releases' \in [Ios -> [Hooks -> Nat]]
      /\ allocated' = allocated \ ss /\ created' = created
      /\ Linked' /\ Placed'
      /\ \A s \in allocated' : fd'[s] = fd[s] /\ epoll'[fd'[s]] = epoll[fd[s]]
      /\ \A i \in Ios, h \in Hooks :
           releases'[i][h] =
             releases[i][h] + IF i \in ss /\ h \in destroy[i] THEN 1 ELSE 0
  BY <1>1, Removed
<1>3. Watched'
  <2> SUFFICES ASSUME NEW i \in Ios \intersect allocated'
               PROVE  /\ epoll'[fd'[i]].events = events[i]
                      /\ \A h \in callback'[i] : Event(h) \in events[i]
    BY DEF Watched
  <2>1. i \in Ios \intersect allocated /\ epoll'[fd'[i]] = epoll[fd[i]]
    BY <1>2
  <2> QED BY <1>1, <2>1 DEF Watched
<1>4. Blank'
  <2> SUFFICES ASSUME NEW i \in Ios \ created
               PROVE  /\ events[i] = {} /\ callback'[i] = {} /\ destroy[i] = {}
                      /\ \A h \in Hooks : installs[i][h] = 0 /\ releases'[i][h] = 0
    BY <1>1, <1>2 DEF Blank
  <2>1. /\ events[i] = {} /\ callback[i] = {} /\ destroy[i] = {}
        /\ \A h \in Hooks : installs[i][h] = 0 /\ releases[i][h] = 0
    BY <1>1 DEF Blank
  <2>2. callback'[i] = {}
    BY <2>1
  <2>3. \A h \in Hooks : releases'[i][h] = 0
    BY <1>2, <2>1
  <2> QED BY <2>1, <2>2, <2>3
<1>5. DestroyedOnce'
  <2> SUFFICES ASSUME "inside" \notin usage, NEW i \in Ios, NEW h \in Hooks
               PROVE  installs[i][h] - releases'[i][h] =
                        IF i \in allocated' /\ h \in destroy[i] THEN 1 ELSE 0
    BY DEF DestroyedOnce
  <2>1. installs[i][h] - releases[i][h] =
          IF i \in allocated /\ h \in destroy[i] THEN 1 ELSE 0
    BY DEF DestroyedOnce
  <2>2. installs[i][h] \in Nat /\ releases[i][h] \in Nat
    BY <1>1
  <2>3. CASE i \in ss /\ h \in destroy[i]
    <3>1. releases'[i][h] = releases[i][h] + 1 /\ i \in allocated /\ i \notin allocated'
      BY <1>2, <2>3
    <3> QED BY <2>1, <2>2, <2>3, <3>1
  <2>4. CASE ~ (i \in ss /\ h \in destroy[i])
    <3>1. releases'[i][h] = releases[i][h]
      BY <1>2, <2>2, <2>4
    <3>2. (i \in allocated' /\ h \in destroy[i]) <=> (i \in allocated /\ h \in destroy[i])
      BY <1>2, <2>4
    <3> QED BY <2>1, <3>1, <3>2
  <2> QED BY <2>3, <2>4
<1> QED BY <1>2, <1>3, <1>4, <1>5

(* io_destroy, from a handler of the io or from elsewhere                  *)
LEMMA IoDestroyKeeps ==
  ASSUME IInv, NEW i \in Ios, IoDestroy(i)
  PROVE  IInv'
<1>1. /\ TypeOK /\ Tables /\ Linked /\ Placed /\ IoRefsExact /\ DestroyedOnce
      /\ FrameOK /\ BatchOK /\ i \in Sources
  BY Null DEF IInv, Tables
<1>2. /\ MayCall /\ MayRemove(i) /\ i \in held
      /\ "inside" \notin usage /\ frame # None =>
           frame.stage \notin destroy[i] \/ frame.src # i
      /\ held' = held \ {i} /\ callback' = [callback EXCEPT ![i] = {}]
      /\ RemoveFds(Registered(i)) /\ refs' = [refs EXCEPT ![i] = @ - 1]
      /\ UNCHANGED <<usage, epoll_terminate, pc, batch, events, destroy, installs, armed,
                     fired, frame, fault>>
  BY DEF IoDestroy, loop, timer
<1>3. /\ callback \in [Ios -> SUBSET Hooks] /\ refs \in [Ios -> Nat] /\ held \subseteq Ios
      /\ allocated \subseteq created /\ created \subseteq Sources
      /\ batch \in Seq(Happened)
  BY <1>1, Types
<1>4. callback'[i] = {} /\ \A j \in Ios \ {i} : callback'[j] = callback[j]
  BY <1>2, <1>3
<1>5. Registered(i) = {i} \intersect allocated /\ Registered(i) \in SUBSET allocated
  BY <1>1, OneEach
<1>6. /\ mainloop_list' \in [Fds -> Sources \union {None}]
      /\ epoll' \in [Fds -> Registration \union {None}]
      /\ fd' \in [Sources -> Fds \union {-1}]
      /\ releases' \in [Ios -> [Hooks -> Nat]]
      /\ allocated' = allocated \ {i} /\ created' = created
      /\ Linked' /\ Placed' /\ Watched' /\ Blank' /\ DestroyedOnce'
  <2>1. \A j \in Ios : callback'[j] \subseteq callback[j]
    BY <1>4
  <2>2. UNCHANGED <<usage, events, destroy, installs>> /\ held' \subseteq held
    BY <1>2
  <2>3. /\ mainloop_list' \in [Fds -> Sources \union {None}]
        /\ epoll' \in [Fds -> Registration \union {None}]
        /\ fd' \in [Sources -> Fds \union {-1}]
        /\ releases' \in [Ios -> [Hooks -> Nat]]
        /\ allocated' = allocated \ Registered(i) /\ created' = created
        /\ Linked' /\ Placed' /\ Watched' /\ Blank' /\ DestroyedOnce'
    BY <1>1, <1>2, <1>5, <2>1, <2>2, Unlooped
  <2> QED BY <1>5, <2>3
<1>7. refs[i] \in Nat /\ refs[i] >= 1
  BY <1>1, <1>2, <1>3 DEF IoRefsExact
<1>8. TypeOK'
  <2>1. refs[i] - 1 \in Nat
    BY <1>7
  <2>2. refs' \in [Ios -> Nat]
    BY <1>2, <1>3, <2>1
  <2>3. callback' \in [Ios -> SUBSET Hooks]
    BY <1>2, <1>3
  <2> QED BY <1>1, <1>2, <1>3, <1>6, <2>2, <2>3 DEF TypeOK
<1>9. IoRefsExact'
  <2> SUFFICES ASSUME NEW j \in Ios
               PROVE  refs'[j] = (IF j \in held' THEN 1 ELSE 0)
                                   + IF frame # None /\ frame.src = j THEN 1 ELSE 0
    BY <1>2 DEF IoRefsExact
  <2>1. refs[j] = (IF j \in held THEN 1 ELSE 0)
                    + IF frame # None /\ frame.src = j THEN 1 ELSE 0
    BY <1>1 DEF IoRefsExact
  <2>2. CASE j = i
    <3>1. refs'[i] = refs[i] - 1 /\ i \notin held'
      BY <1>2, <1>3
    <3> QED BY <1>2, <1>7, <2>1, <2>2, <3>1
  <2>3. CASE j # i
    BY <1>2, <1>3, <2>1, <2>3
  <2> QED BY <2>2, <2>3
<1>10. FrameOK'
  <2>1. pc # "batch" => batch = <<>> /\ frame = None
    BY <1>1 DEF FrameOK
  <2>2. ASSUME frame # None
        PROVE  /\ frame.src \in created
               /\ frame.src \in Ios => frame.stage \in Hooks
               /\ frame.src \in Ios \ allocated' =>
                    /\ callback'[frame.src] = {}
                    /\ "inside" \notin usage => frame.stage \notin destroy[frame.src]
    <3>1. CASE frame.src = i
      BY <1>1, <1>2, <1>4, <2>2, <3>1 DEF FrameOK
    <3>2. CASE frame.src # i
      <4>1. frame.src \in Ios \ allocated' => frame.src \in Ios \ allocated /\ frame.src # i
        BY <1>6, <3>2
      <4> QED BY <1>1, <1>4, <2>2, <4>1 DEF FrameOK
    <3> QED BY <3>1, <3>2
  <2> QED BY <1>2, <1>6, <2>1, <2>2 DEF FrameOK
<1>11. BatchOK'
  <2> SUFFICES ASSUME "others" \notin usage
               PROVE  /\ fault = "none" /\ Distinct(batch)
                      /\ \A k \in DOMAIN batch :
                           /\ batch[k].src \in allocated'
                           /\ frame # None => frame.src # batch[k].src
    BY <1>2 DEF BatchOK, Distinct
  <2>1. /\ fault = "none" /\ Distinct(batch)
        /\ \A k \in DOMAIN batch :
             /\ batch[k].src \in allocated
             /\ frame # None => frame.src # batch[k].src
    BY <1>1 DEF BatchOK
  <2>2. CASE frame # None
    BY <1>2, <1>6, <2>1, <2>2 DEF MayRemove, Own
  <2>3. CASE frame = None
    <3>1. DOMAIN batch = {}
      BY <1>1, <1>2, <1>3, <2>3, QueueEntries DEF MayCall, FrameOK
    <3> QED BY <2>1, <3>1
  <2> QED BY <2>2, <2>3
<1> QED BY <1>6, <1>8, <1>9, <1>10, <1>11 DEF IInv, Tables

-----------------------------------------------------------------------------
(* Timeouts.                                                               *)

(* mainloop_add_timeout                                                    *)
LEMMA AddTimeoutKeeps ==
  ASSUME IInv, NEW t \in Timers, AddTimeout(t)
  PROVE  IInv'
<1>1. /\ TypeOK /\ Linked /\ Placed /\ Watched /\ Blank /\ IoRefsExact /\ DestroyedOnce
      /\ FrameOK /\ BatchOK
  BY DEF IInv, Tables
<1>2. t \in Sources \ created /\ t \notin Ios
  BY Null DEF AddTimeout
<1>3. /\ mainloop_list' \in [Fds -> Sources \union {None}]
      /\ epoll' \in [Fds -> Registration \union {None}]
      /\ fd' \in [Sources -> Fds \union {-1}]
      /\ allocated' = allocated \union {t} /\ created' = created \union {t}
      /\ Linked' /\ Placed'
      /\ \A r \in allocated : fd'[r] = fd[r] /\ epoll'[fd'[r]] = epoll[fd[r]]
  <2>1. FreeFd # {} /\ AddFd(t, Min(FreeFd), {"IN"})
    BY DEF AddTimeout
  <2>2. {"IN"} \in SUBSET {"IN", "OUT", "RDHUP"}
    OBVIOUS
  <2> QED BY <1>1, <1>2, <2>1, <2>2, Added
<1>4. /\ armed' = [armed EXCEPT ![t] = 1]
      /\ UNCHANGED <<usage, epoll_terminate, pc, batch, refs, held, events, callback,
                     destroy, installs, releases, fired, frame, fault>>
  BY DEF AddTimeout, loop, io
<1>5. TypeOK'
  <2>1. armed' \in [Timers -> Nat]
    BY <1>1, <1>4, Types
  <2>2. allocated' \subseteq created' /\ created' \subseteq Sources
    BY <1>1, <1>2, <1>3, Types
  <2> QED BY <1>1, <1>3, <1>4, <2>1, <2>2 DEF TypeOK
<1>6. Ios \intersect allocated' = Ios \intersect allocated
  BY <1>2, <1>3
<1>7. Watched'
  BY <1>1, <1>3, <1>4, <1>6 DEF Watched
<1>8. Blank'
  BY <1>1, <1>3, <1>4 DEF Blank
<1>9. IoRefsExact'
  BY <1>1, <1>4 DEF IoRefsExact
<1>10. DestroyedOnce'
  BY <1>1, <1>4, <1>6 DEF DestroyedOnce
<1>11. FrameOK'
  BY <1>1, <1>3, <1>4 DEF FrameOK
<1>12. BatchOK'
  BY <1>1, <1>3, <1>4 DEF BatchOK, Distinct
<1> QED BY <1>3, <1>5, <1>7, <1>8, <1>9, <1>10, <1>11, <1>12 DEF IInv, Tables

(* mainloop_modify_timeout                                                 *)
LEMMA ModifyTimeoutKeeps ==
  ASSUME IInv, NEW t \in Timers, ModifyTimeout(t)
  PROVE  IInv'
<1>1. /\ TypeOK /\ Linked /\ Placed /\ Watched /\ Blank /\ IoRefsExact /\ DestroyedOnce
      /\ FrameOK /\ BatchOK
  BY DEF IInv, Tables
<1>2. /\ t \in Sources /\ t \notin Ios
      /\ ModifyFd(fd[t], {"IN"}) /\ armed' = [armed EXCEPT ![t] = @ + 1]
      /\ UNCHANGED <<usage, epoll_terminate, pc, batch, mainloop_list, allocated, created,
                     fd, refs, held, events, callback, destroy, installs, releases, fired,
                     frame, fault>>
  BY Null DEF ModifyTimeout, loop, io
<1>3. /\ epoll' \in [Fds -> Registration \union {None}]
      /\ \A f \in Fds : /\ epoll'[f] = None <=> epoll[f] = None
                        /\ epoll[f] # None => epoll'[f].ptr = epoll[f].ptr
      /\ \A r \in allocated : r # t => epoll'[fd[r]] = epoll[fd[r]]
  <2>1. {"IN"} \in SUBSET {"IN", "OUT", "RDHUP"}
    OBVIOUS
  <2> QED BY <1>1, <1>2, <2>1, Modified
<1>4. TypeOK'
  <2>1. armed' \in [Timers -> Nat]
    BY <1>1, <1>2, Types
  <2> QED BY <1>1, <1>2, <1>3, <2>1 DEF TypeOK
<1>5. Linked' /\ Placed'
  BY <1>1, <1>2, <1>3 DEF Linked, Placed
<1>6. Watched'
  BY <1>1, <1>2, <1>3 DEF Watched
<1>7. Blank' /\ IoRefsExact' /\ DestroyedOnce' /\ FrameOK' /\ BatchOK'
  BY <1>1, <1>2 DEF Blank, IoRefsExact, DestroyedOnce, FrameOK, BatchOK, Distinct
<1> QED BY <1>4, <1>5, <1>6, <1>7 DEF IInv, Tables

(* mainloop_remove_timeout                                                 *)
LEMMA RemoveTimeoutKeeps ==
  ASSUME IInv, NEW t \in Timers, RemoveTimeout(t)
  PROVE  IInv'
<1>1. /\ TypeOK /\ Tables /\ IoRefsExact /\ DestroyedOnce /\ FrameOK /\ BatchOK
  BY DEF IInv, Tables
<1>2. /\ MayCall /\ MayRemove(t) /\ t \in allocated /\ t \notin Ios /\ RemoveFds({t})
      /\ UNCHANGED <<usage, epoll_terminate, pc, batch, refs, held, events, callback,
                     destroy, installs, armed, fired, frame, fault>>
  BY Null DEF RemoveTimeout, loop, timer
<1>3. /\ mainloop_list' \in [Fds -> Sources \union {None}]
      /\ epoll' \in [Fds -> Registration \union {None}]
      /\ fd' \in [Sources -> Fds \union {-1}]
      /\ releases' \in [Ios -> [Hooks -> Nat]]
      /\ allocated' = allocated \ {t} /\ created' = created
      /\ Linked' /\ Placed' /\ Watched' /\ Blank' /\ DestroyedOnce'
  <2>1. {t} \in SUBSET allocated
    BY <1>2
  <2>2. (\A i \in Ios : callback'[i] \subseteq callback[i]) /\ held' \subseteq held
    BY <1>2
  <2>3. UNCHANGED <<usage, events, destroy, installs>>
    BY <1>2
  <2> QED BY <1>1, <1>2, <2>1, <2>2, <2>3, Unlooped
<1>4. TypeOK'
  <2>1. allocated' \subseteq created' /\ created' \subseteq Sources
    BY <1>1, <1>3, Types
  <2> QED BY <1>1, <1>2, <1>3, <2>1 DEF TypeOK
<1>5. IoRefsExact'
  BY <1>1, <1>2 DEF IoRefsExact
<1>6. FrameOK'
  <2>1. Ios \ allocated' = Ios \ allocated
    BY <1>2, <1>3
  <2> QED BY <1>1, <1>2, <1>3, <2>1 DEF FrameOK
<1>7. BatchOK'
  <2> SUFFICES ASSUME "others" \notin usage
               PROVE  /\ fault = "none" /\ Distinct(batch)
                      /\ \A k \in DOMAIN batch :
                           /\ batch[k].src \in allocated'
                           /\ frame # None => frame.src # batch[k].src
    BY <1>2 DEF BatchOK, Distinct
  <2>1. /\ fault = "none" /\ Distinct(batch)
        /\ \A k \in DOMAIN batch :
             /\ batch[k].src \in allocated
             /\ frame # None => frame.src # batch[k].src
    BY <1>1 DEF BatchOK
  <2>2. CASE frame # None
    BY <1>2, <1>3, <2>1, <2>2 DEF MayRemove, Own
  <2>3. CASE frame = None
    <3>1. batch \in Seq(Happened) /\ batch = <<>>
      BY <1>1, <1>2, <2>3, Types DEF MayCall, FrameOK
    <3>2. DOMAIN batch = {}
      BY <3>1, QueueEntries
    <3> QED BY <2>1, <3>2
  <2> QED BY <2>2, <2>3
<1> QED BY <1>3, <1>4, <1>5, <1>6, <1>7 DEF IInv, Tables

-----------------------------------------------------------------------------
(* mainloop_run.                                                           *)

(* What mainloop_quit and the steps of the loop itself leave alone.        *)
LEMMA LoopKeeps ==
  ASSUME IInv, epoll_terminate' \in BOOLEAN,
         pc' \in {"out", "test", "wait", "batch", "ended"},
         pc' # "batch" => batch = <<>> /\ frame = None,
         UNCHANGED <<usage, batch, tables, io, timer, frame, fault>>
  PROVE  IInv'
<1>1. /\ TypeOK /\ Linked /\ Placed /\ Watched /\ Blank /\ IoRefsExact /\ DestroyedOnce
      /\ FrameOK /\ BatchOK
  BY DEF IInv, Tables
<1>2. UNCHANGED <<usage, batch, mainloop_list, epoll, allocated, created, fd, refs, held,
                  events, callback, destroy, installs, releases, armed, fired, frame, fault>>
  BY DEF tables, io, timer
<1>3. TypeOK'
  BY <1>1, <1>2 DEF TypeOK
<1>4. Linked' /\ Placed' /\ Watched' /\ Blank'
  BY <1>1, <1>2 DEF Linked, Placed, Watched, Blank
<1>5. IoRefsExact' /\ DestroyedOnce' /\ BatchOK'
  BY <1>1, <1>2 DEF IoRefsExact, DestroyedOnce, BatchOK, Distinct
<1>6. FrameOK'
  BY <1>1, <1>2 DEF FrameOK
<1> QED BY <1>3, <1>4, <1>5, <1>6 DEF IInv, Tables

(* mainloop_quit, from any thread, and the loop from one wait to the next  *)
LEMMA TurnKeeps ==
  ASSUME IInv, Quit \/ Run \/ Block \/ BatchDone
  PROVE  IInv'
<1>1. /\ epoll_terminate \in BOOLEAN /\ pc \in {"out", "test", "wait", "batch", "ended"}
      /\ pc # "batch" => batch = <<>> /\ frame = None
  BY Types DEF IInv, Tables, FrameOK
<1>2. CASE Quit
  BY <1>1, <1>2, LoopKeeps DEF Quit
<1>3. CASE Run
  BY <1>1, <1>3, LoopKeeps DEF Run
<1>4. CASE Block
  BY <1>1, <1>4, LoopKeeps DEF Block
<1>5. CASE BatchDone
  BY <1>1, <1>5, LoopKeeps DEF BatchDone
<1> QED BY <1>2, <1>3, <1>4, <1>5

(* What the kernel reports is of a source that is allocated.               *)
LEMMA Reported ==
  ASSUME TypeOK, Linked, NEW f \in Fds, NEW x \in Reports(f)
  PROVE  x \in Happened /\ x.src \in allocated
<1> DEFINE s == epoll[f].ptr
           asked == epoll[f].events \intersect {"IN", "OUT"}
           hangup == IF s \in Ios THEN {"HUP"} ELSE {}
<1>1. epoll[f] # None
  BY DEF Reports
<1>2. s \in allocated /\ allocated \subseteq Sources
  BY <1>1, Types DEF Linked
<1>3. asked \union hangup \subseteq {"IN", "OUT", "HUP"}
  OBVIOUS
<1>4. Reports(f) \subseteq {[src |-> s, events |-> e] : e \in (SUBSET (asked \union hangup)) \ {{}}}
  BY DEF Reports
<1> HIDE DEF s, asked, hangup
<1>5. PICK e \in SUBSET (asked \union hangup) : x = [src |-> s, events |-> e]
  BY <1>4
<1>6. e \in SUBSET {"IN", "OUT", "HUP"} /\ s \in Sources
  BY <1>2, <1>3
<1> QED BY <1>2, <1>5, <1>6 DEF Happened

(* epoll_wait                                                              *)
LEMMA EpollWaitKeeps ==
  ASSUME IInv, NEW b \in Batches, EpollWait(b)
  PROVE  IInv'
<1> DEFINE hit(f) == epoll[f] # None /\ \E k \in DOMAIN b : b[k].src = epoll[f].ptr
           e(f) == IF hit(f) THEN [epoll[f] EXCEPT !.on = epoll[f].ptr \in Ios] ELSE epoll[f]
<1>1. /\ TypeOK /\ Linked /\ Placed /\ Watched /\ Blank /\ IoRefsExact /\ DestroyedOnce
      /\ FrameOK /\ BatchOK
  BY DEF IInv, Tables
<1>2. /\ pc = "wait" /\ fault = "none" /\ Distinct(b) /\ batch' = b /\ pc' = "batch"
      /\ epoll' = [f \in Fds |-> e(f)]
      /\ UNCHANGED <<usage, epoll_terminate, mainloop_list, allocated, created, fd, refs,
                     held, events, callback, destroy, installs, releases, armed, fired, frame,
                     fault>>
  BY DEF EpollWait, io, timer
<1>3. b \in Seq(Happened) /\ \A k \in DOMAIN b : b[k].src \in allocated
  <2> DEFINE H == {x \in Happened : x.src \in allocated}
  <2>1. \A f \in Fds : Reports(f) \subseteq H
    BY <1>1, Reported
  <2>2. b = <<>> \/ (\E x \in H : b = <<x>>) \/ \E x, y \in H : b = <<x, y>>
    <3> DEFINE U1 == UNION {{<<x>> : x \in Reports(f)} : f \in Fds}
               U2 == UNION {{<<x, y>> : x \in Reports(f), y \in Reports(g)} :
                              f \in Fds, g \in Fds}
    <3>1. b \in {<<>>} \union U1 \union U2
      <4>1. Batches = {<<>>} \union U1 \union U2
        BY DEF Batches
      <4> QED BY <4>1
    <3> HIDE DEF H, U1, U2
    <3>2. CASE b \in U1
      <4>1. \E f \in Fds : \E x \in Reports(f) : b = <<x>>
        BY <3>2, Zenon DEF U1
      <4> QED BY <2>1, <4>1
    <3>3. CASE b \in U2
      <4>1. \E f, g \in Fds : \E x \in Reports(f), y \in Reports(g) : b = <<x, y>>
        <5>1. PICK S \in {{<<x, y>> : x \in Reports(f), y \in Reports(g)} :
                            f \in Fds, g \in Fds} : b \in S
          BY <3>3 DEF U2
        <5>2. PICK f \in Fds, g \in Fds :
                S = {<<x, y>> : x \in Reports(f), y \in Reports(g)}
          BY <5>1
        <5>3. b \in {<<x, y>> : x \in Reports(f), y \in Reports(g)}
          BY <5>1, <5>2
        <5>4. \E x \in Reports(f), y \in Reports(g) : b = <<x, y>>
          BY <5>3
        <5> QED BY <5>4
      <4> QED BY <2>1, <4>1
    <3> QED BY <3>1, <3>2, <3>3
  <2> HIDE DEF H
  <2>3. b \in Seq(H)
    <3>1. CASE b = <<>>
      BY <3>1
    <3>2. ASSUME NEW x \in H, b = <<x>> PROVE b \in Seq(H)
      BY <3>2
    <3>3. ASSUME NEW x \in H, NEW y \in H, b = <<x, y>> PROVE b \in Seq(H)
      BY <3>3
    <3> QED BY <2>2, <3>1, <3>2, <3>3
  <2>4. \A k \in DOMAIN b : b[k] \in H
    BY <2>3, QueueEntries
  <2>5. b \in Seq(Happened)
    <3>1. H \subseteq Happened
      BY DEF H
    <3> QED BY <2>3, <3>1, SeqMonotonic
  <2> QED BY <2>4, <2>5 DEF H
<1>4. \A f \in Fds : /\ e(f) \in Registration \union {None}
                     /\ e(f) = None <=> epoll[f] = None
                     /\ e(f) # None => e(f).ptr = epoll[f].ptr /\ e(f).events = epoll[f].events
  <2> SUFFICES ASSUME NEW f \in Fds
               PROVE  /\ e(f) \in Registration \union {None}
                      /\ e(f) = None <=> epoll[f] = None
                      /\ e(f) # None => /\ e(f).ptr = epoll[f].ptr
                                        /\ e(f).events = epoll[f].events
    OBVIOUS
  <2>1. epoll[f] \in Registration \union {None} /\ None \notin Registration
    BY <1>1, Types, Null
  <2>2. CASE hit(f)
    <3> DEFINE on == epoll[f].ptr \in Ios
    <3>1. epoll[f] \in Registration /\ on \in BOOLEAN
      BY <2>1, <2>2
    <3>2. e(f) = [epoll[f] EXCEPT !.on = on]
      BY <2>2, Zenon
    <3> HIDE DEF on, e, hit
    <3>3. /\ e(f) \in Registration
          /\ e(f).ptr = epoll[f].ptr /\ e(f).events = epoll[f].events
      BY <3>1, <3>2 DEF Registration
    <3> QED BY <2>1, <3>1, <3>3
  <2>3. CASE ~ hit(f)
    BY <2>1, <2>3
  <2> QED BY <2>2, <2>3
<1> HIDE DEF e
<1>5. epoll' \in [Fds -> Registration \union {None}]
  BY <1>2, <1>4
<1>6. \A f \in Fds : /\ epoll'[f] = None <=> epoll[f] = None
                     /\ epoll'[f] # None => /\ epoll'[f].ptr = epoll[f].ptr
                                            /\ epoll'[f].events = epoll[f].events
  BY <1>2, <1>4
<1>7. TypeOK'
  BY <1>1, <1>2, <1>3, <1>5 DEF TypeOK
<1>8. Linked' /\ Placed'
  BY <1>1, <1>2, <1>6 DEF Linked, Placed
<1>9. Watched'
  <2> SUFFICES ASSUME NEW i \in Ios \intersect allocated
               PROVE  epoll'[fd[i]].events = events[i]
    BY <1>1, <1>2 DEF Watched
  <2>1. fd[i] \in Fds /\ epoll[fd[i]] # None
    BY <1>1, OneEach, Null
  <2> QED BY <1>1, <1>6, <2>1 DEF Watched
<1>10. Blank' /\ IoRefsExact' /\ DestroyedOnce'
  BY <1>1, <1>2 DEF Blank, IoRefsExact, DestroyedOnce
<1>11. frame = None
  BY <1>1, <1>2 DEF FrameOK
<1>12. FrameOK' /\ BatchOK'
  BY <1>2, <1>3, <1>11 DEF FrameOK, BatchOK, Distinct
<1> QED BY <1>7, <1>8, <1>9, <1>10, <1>12 DEF IInv, Tables

(* What is still registered is destroyed when the loop has ended.          *)
LEMMA EndLoopKeeps ==
  ASSUME IInv, EndLoop
  PROVE  IInv'
<1>1. /\ TypeOK /\ Tables /\ IoRefsExact /\ DestroyedOnce /\ FrameOK /\ BatchOK
  BY DEF IInv, Tables
<1>2. /\ pc = "test" /\ fault = "none" /\ pc' = "ended" /\ RemoveFds(allocated)
      /\ UNCHANGED <<usage, epoll_terminate, batch, refs, held, events, callback, destroy,
                     installs, armed, fired, frame, fault>>
  BY DEF EndLoop, timer
<1>3. /\ mainloop_list' \in [Fds -> Sources \union {None}]
      /\ epoll' \in [Fds -> Registration \union {None}]
      /\ fd' \in [Sources -> Fds \union {-1}]
      /\ releases' \in [Ios -> [Hooks -> Nat]]
      /\ allocated' = {} /\ created' = created
      /\ Linked' /\ Placed' /\ Watched' /\ Blank' /\ DestroyedOnce'
  <2>1. allocated \in SUBSET allocated
    OBVIOUS
  <2>2. (\A i \in Ios : callback'[i] \subseteq callback[i]) /\ held' \subseteq held
    BY <1>2
  <2>3. UNCHANGED <<usage, events, destroy, installs>>
    BY <1>2
  <2>4. /\ mainloop_list' \in [Fds -> Sources \union {None}]
        /\ epoll' \in [Fds -> Registration \union {None}]
        /\ fd' \in [Sources -> Fds \union {-1}]
        /\ releases' \in [Ios -> [Hooks -> Nat]]
        /\ allocated' = allocated \ allocated /\ created' = created
        /\ Linked' /\ Placed' /\ Watched' /\ Blank' /\ DestroyedOnce'
    BY <1>1, <1>2, <2>1, <2>2, <2>3, Unlooped
  <2> QED BY <2>4
<1>4. batch = <<>> /\ frame = None
  BY <1>1, <1>2 DEF FrameOK
<1>5. TypeOK'
  <2>1. allocated' \subseteq created' /\ created' \subseteq Sources
    BY <1>1, <1>3, Types
  <2>2. pc' \in {"out", "test", "wait", "batch", "ended"}
    BY <1>2
  <2> QED BY <1>1, <1>2, <1>3, <2>1, <2>2 DEF TypeOK
<1>6. IoRefsExact'
  BY <1>1, <1>2 DEF IoRefsExact
<1>7. FrameOK'
  BY <1>2, <1>4 DEF FrameOK
<1>8. BatchOK'
  <2>1. DOMAIN batch' = {} /\ batch' = batch
    BY <1>1, <1>2, <1>4, Types, QueueEntries
  <2> QED BY <1>1, <1>2, <2>1 DEF BatchOK, Distinct
<1> QED BY <1>3, <1>5, <1>6, <1>7, <1>8 DEF IInv, Tables

-----------------------------------------------------------------------------
(* The events of a batch.                                                  *)

(* The sources of the events that are left are others than that of the     *)
(* event in hand.                                                          *)
LEMMA Shifted ==
  ASSUME NEW b \in Seq(Happened), b # <<>>, NEW A,
         Distinct(b), \A k \in DOMAIN b : b[k].src \in A
  PROVE  /\ Distinct(Tail(b))
         /\ \A k \in DOMAIN Tail(b) : Tail(b)[k].src \in A /\ Tail(b)[k].src # Head(b).src
<1> DEFINE t == Tail(b)
<1>1. /\ Head(b) = b[1] /\ 1 \in DOMAIN b
      /\ \A k \in DOMAIN t : k \in Nat /\ k + 1 \in DOMAIN b /\ t[k] = b[k + 1]
      /\ t \in Seq(Happened) /\ DOMAIN t = 1 .. Len(t)
  BY Popped, QueueEntries
<1> HIDE DEF t
<1>2. \A k \in DOMAIN t : k + 1 # 1
  BY <1>1
<1>3. ASSUME NEW k \in DOMAIN t
      PROVE  t[k].src \in A /\ t[k].src # Head(b).src
  BY <1>1, <1>2 DEF Distinct
<1>4. ASSUME NEW j \in DOMAIN t, NEW k \in DOMAIN t, t[j].src = t[k].src
      PROVE  j = k
  <2>1. j + 1 = k + 1
    BY <1>1, <1>4 DEF Distinct
  <2> QED BY <1>1, <2>1
<1>5. Distinct(t)
  BY <1>4 DEF Distinct
<1> QED BY <1>3, <1>5 DEF t

(* The callback of an io, up to its first handler                          *)
LEMMA DispatchIoKeeps ==
  ASSUME IInv, DispatchIo
  PROVE  IInv'
<1> DEFINE i == Head(batch).src
           evs == Head(batch).events
           cbs == IF "HUP" \in evs THEN callback[i] \ {"read", "write"} ELSE callback[i]
           lost == "HUP" \in evs /\ "disconnect" \notin cbs
           stage == IF lost THEN None ELSE NextStage(cbs, None, evs)
           one == IF stage = None THEN 0 ELSE 1
           into == [src |-> i, stage |-> stage, events |-> evs]
<1>1. /\ TypeOK /\ Tables /\ Linked /\ Placed /\ Watched /\ Blank /\ IoRefsExact
      /\ DestroyedOnce /\ FrameOK /\ BatchOK
  BY DEF IInv, Tables
<1>2. /\ pc = "batch" /\ fault = "none" /\ frame = None
      /\ batch # <<>> /\ i \in Ios /\ i \in allocated
      /\ batch' = Tail(batch)
      /\ callback' = [callback EXCEPT ![i] = cbs]
      /\ IF lost THEN RemoveFds(Registered(i)) ELSE UNCHANGED <<tables, releases>>
      /\ refs' = [refs EXCEPT ![i] = @ + one]
      /\ Enter(i, stage, evs)
      /\ UNCHANGED <<usage, epoll_terminate, pc, held, events, destroy, installs, armed,
                     fired, fault>>
  BY DEF DispatchIo, timer
<1>3. /\ callback \in [Ios -> SUBSET Hooks] /\ refs \in [Ios -> Nat]
      /\ allocated \subseteq created /\ created \subseteq Sources
      /\ batch \in Seq(Happened) /\ i \in Sources
  BY <1>1, <1>2, Types
<1>4. /\ Head(batch) = batch[1] /\ 1 \in DOMAIN batch /\ Tail(batch) \in Seq(Happened)
      /\ evs \in SUBSET {"IN", "OUT", "HUP"}
  <2>1. /\ Head(batch) = batch[1] /\ 1 \in DOMAIN batch /\ Tail(batch) \in Seq(Happened)
        /\ Head(batch) \in Happened
    BY <1>2, <1>3, Popped
  <2>2. evs \in SUBSET {"IN", "OUT", "HUP"}
    BY <2>1 DEF Happened
  <2> QED BY <2>1, <2>2
<1>5. cbs \subseteq callback[i]
  OBVIOUS
<1>6. stage # None => stage \in Hooks /\ ~ lost
  BY Chosen
<1>7. one = (IF stage = None THEN 0 ELSE 1) /\ one \in {0, 1}
  OBVIOUS
<1>8. stage # None => into \in Handling /\ into.src = i /\ into.stage = stage
  BY <1>3, <1>4, <1>6 DEF Handling
<1>9. frame' = IF stage = None THEN None ELSE into
  BY <1>2 DEF Enter
<1>10. frame' # None <=> stage # None
  BY <1>8, <1>9, Null
<1> HIDE DEF cbs, lost, stage, one, into
<1>11. \A j \in Ios : callback'[j] \subseteq callback[j]
  BY <1>2, <1>3, <1>5
<1>12. /\ mainloop_list' \in [Fds -> Sources \union {None}]
       /\ epoll' \in [Fds -> Registration \union {None}]
       /\ fd' \in [Sources -> Fds \union {-1}]
       /\ releases' \in [Ios -> [Hooks -> Nat]]
       /\ allocated' = (IF lost THEN allocated \ {i} ELSE allocated) /\ created' = created
       /\ Linked' /\ Placed' /\ Watched' /\ Blank' /\ DestroyedOnce'
  <2>1. CASE lost
    <3>1. Registered(i) = {i} \intersect allocated
      BY <1>1, <1>3, OneEach
    <3>2. /\ Registered(i) = {i} /\ Registered(i) \in SUBSET allocated
          /\ RemoveFds(Registered(i))
      BY <1>2, <2>1, <3>1
    <3>3. UNCHANGED <<usage, events, destroy, installs>> /\ held' \subseteq held
      BY <1>2
    <3>4. /\ mainloop_list' \in [Fds -> Sources \union {None}]
          /\ epoll' \in [Fds -> Registration \union {None}]
          /\ fd' \in [Sources -> Fds \union {-1}]
          /\ releases' \in [Ios -> [Hooks -> Nat]]
          /\ allocated' = allocated \ Registered(i) /\ created' = created
          /\ Linked' /\ Placed' /\ Watched' /\ Blank' /\ DestroyedOnce'
      BY <1>1, <1>11, <3>2, <3>3, Unlooped
    <3> QED BY <2>1, <3>2, <3>4
  <2>2. CASE ~ lost
    <3>1. UNCHANGED <<usage, held, events, destroy, installs, mainloop_list, epoll, allocated,
                      created, fd, releases>>
      BY <1>2, <2>2 DEF tables
    <3>2. /\ mainloop_list' \in [Fds -> Sources \union {None}]
          /\ epoll' \in [Fds -> Registration \union {None}]
          /\ fd' \in [Sources -> Fds \union {-1}]
          /\ releases' \in [Ios -> [Hooks -> Nat]]
      BY <1>1, <3>1, Types
    <3>3. Linked' /\ Placed' /\ DestroyedOnce'
      BY <1>1, <3>1 DEF Linked, Placed, DestroyedOnce
    <3>4. Watched'
      BY <1>1, <1>11, <3>1 DEF Watched
    <3>5. Blank'
      BY <1>1, <1>11, <3>1 DEF Blank
    <3> QED BY <2>2, <3>1, <3>2, <3>3, <3>4, <3>5
  <2> QED BY <2>1, <2>2
<1>13. TypeOK'
  <2>1. callback' \in [Ios -> SUBSET Hooks]
    BY <1>2, <1>3, <1>5
  <2>2. refs' \in [Ios -> Nat]
    BY <1>2, <1>3, <1>7
  <2>3. frame' \in Handling \union {None}
    BY <1>8, <1>9
  <2>4. allocated' \subseteq created' /\ created' \subseteq Sources
    BY <1>3, <1>12
  <2> QED BY <1>1, <1>2, <1>4, <1>12, <2>1, <2>2, <2>3, <2>4 DEF TypeOK
<1>14. IoRefsExact'
  <2> SUFFICES ASSUME NEW j \in Ios
               PROVE  refs'[j] = (IF j \in held THEN 1 ELSE 0)
                                   + IF frame' # None /\ frame'.src = j THEN 1 ELSE 0
    BY <1>2 DEF IoRefsExact
  <2>1. refs[j] = IF j \in held THEN 1 ELSE 0
    BY <1>1, <1>2 DEF IoRefsExact
  <2>2. CASE j = i
    <3>1. refs'[i] = refs[i] + one
      BY <1>2, <1>3
    <3> QED BY <1>7, <1>8, <1>9, <1>10, <2>1, <2>2, <3>1
  <2>3. CASE j # i
    <3>1. refs'[j] = refs[j] /\ ~ (frame' # None /\ frame'.src = j)
      BY <1>2, <1>3, <1>8, <1>9, <1>10, <2>3
    <3> QED BY <2>1, <3>1
  <2> QED BY <2>2, <2>3
<1>15. FrameOK'
  <2> SUFFICES ASSUME frame' # None
               PROVE  /\ frame'.src \in created'
                      /\ frame'.src \in Ios => frame'.stage \in Hooks
                      /\ frame'.src \in allocated'
    BY <1>2 DEF FrameOK
  <2>1. frame'.src = i /\ frame'.stage \in Hooks /\ ~ lost
    BY <1>6, <1>8, <1>9, <1>10
  <2> QED BY <1>2, <1>3, <1>12, <2>1
<1>16. BatchOK'
  <2> SUFFICES ASSUME "others" \notin usage
               PROVE  /\ Distinct(Tail(batch))
                      /\ \A k \in DOMAIN Tail(batch) :
                           /\ Tail(batch)[k].src \in allocated'
                           /\ frame' # None => frame'.src # Tail(batch)[k].src
    BY <1>2 DEF BatchOK, Distinct
  <2>1. /\ Distinct(Tail(batch))
        /\ \A k \in DOMAIN Tail(batch) :
             Tail(batch)[k].src \in allocated /\ Tail(batch)[k].src # i
    BY <1>1, <1>2, <1>3, Shifted DEF BatchOK
  <2>2. frame' # None => frame'.src = i
    BY <1>8, <1>9, <1>10
  <2> QED BY <1>12, <2>1, <2>2
<1> QED BY <1>12, <1>13, <1>14, <1>15, <1>16 DEF IInv, Tables

(* A timeout that has elapsed                                              *)
LEMMA DispatchTimerKeeps ==
  ASSUME IInv, DispatchTimer
  PROVE  IInv'
<1> DEFINE t == Head(batch).src
<1>1. /\ TypeOK /\ Linked /\ Placed /\ Watched /\ Blank /\ IoRefsExact /\ DestroyedOnce
      /\ FrameOK /\ BatchOK
  BY DEF IInv, Tables
<1>2. /\ pc = "batch" /\ fault = "none" /\ frame = None
      /\ batch # <<>> /\ t \in Timers /\ t \in allocated
      /\ batch' = Tail(batch) /\ fired' = [fired EXCEPT ![t] = @ + 1]
      /\ frame' = [src |-> t, stage |-> "timer", events |-> {}]
      /\ UNCHANGED <<usage, epoll_terminate, pc, mainloop_list, epoll, allocated, created,
                     fd, refs, held, events, callback, destroy, installs, releases, armed,
                     fault>>
  BY DEF DispatchTimer, tables, io
<1>3. batch \in Seq(Happened) /\ Tail(batch) \in Seq(Happened) /\ allocated \subseteq created
  BY <1>1, <1>2, Types, Popped
<1>4. t \in Sources /\ t \notin Ios
  BY <1>2, Null
<1>5. frame' \in Handling /\ frame'.src = t
  BY <1>2, <1>4 DEF Handling
<1>6. TypeOK'
  <2>1. fired' \in [Timers -> Nat]
    BY <1>1, <1>2, Types
  <2> QED BY <1>1, <1>2, <1>3, <1>5, <2>1 DEF TypeOK
<1>7. Linked' /\ Placed' /\ Watched' /\ Blank' /\ DestroyedOnce'
  BY <1>1, <1>2 DEF Linked, Placed, Watched, Blank, DestroyedOnce
<1>8. IoRefsExact'
  <2> SUFFICES ASSUME NEW j \in Ios
               PROVE  refs[j] = (IF j \in held THEN 1 ELSE 0)
                                  + IF frame' # None /\ frame'.src = j THEN 1 ELSE 0
    BY <1>2 DEF IoRefsExact
  <2>1. frame'.src # j
    BY <1>4, <1>5
  <2>2. refs[j] = IF j \in held THEN 1 ELSE 0
    BY <1>1, <1>2 DEF IoRefsExact
  <2> QED BY <2>1, <2>2
<1>9. FrameOK'
  <2>1. frame'.src \in created' /\ frame'.src \notin Ios /\ pc' = "batch"
    BY <1>2, <1>3, <1>4, <1>5
  <2> QED BY <2>1 DEF FrameOK
<1>10. BatchOK'
  <2> SUFFICES ASSUME "others" \notin usage
               PROVE  /\ Distinct(Tail(batch))
                      /\ \A k \in DOMAIN Tail(batch) :
                           Tail(batch)[k].src \in allocated /\ t # Tail(batch)[k].src
    BY <1>2, <1>5 DEF BatchOK, Distinct
  <2> QED BY <1>1, <1>2, <1>3, Shifted DEF BatchOK
<1> QED BY <1>6, <1>7, <1>8, <1>9, <1>10 DEF IInv, Tables

(* An event of a source that is gone: only if handlers may remove sources  *)
(* of others                                                               *)
LEMMA DispatchStaleKeeps ==
  ASSUME IInv, DispatchStale
  PROVE  IInv'
<1>1. /\ TypeOK /\ Linked /\ Placed /\ Watched /\ Blank /\ IoRefsExact /\ DestroyedOnce
      /\ FrameOK /\ BatchOK
  BY DEF IInv, Tables
<1>2. /\ batch # <<>> /\ Head(batch).src \notin allocated /\ fault' = "data"
      /\ UNCHANGED <<usage, epoll_terminate, pc, batch, mainloop_list, epoll, allocated,
                     created, fd, refs, held, events, callback, destroy, installs, releases,
                     armed, fired, frame>>
  BY DEF DispatchStale, loop, tables, io, timer
<1>3. Head(batch) = batch[1] /\ 1 \in DOMAIN batch
  BY <1>1, <1>2, Types, Popped
<1>4. "others" \in usage
  BY <1>1, <1>2, <1>3 DEF BatchOK
<1>5. TypeOK'
  BY <1>1, <1>2 DEF TypeOK
<1>6. Linked' /\ Placed' /\ Watched' /\ Blank'
  BY <1>1, <1>2 DEF Linked, Placed, Watched, Blank
<1>7. IoRefsExact' /\ DestroyedOnce' /\ FrameOK'
  BY <1>1, <1>2 DEF IoRefsExact, DestroyedOnce, FrameOK
<1>8. BatchOK'
  BY <1>2, <1>4 DEF BatchOK
<1> QED BY <1>5, <1>6, <1>7, <1>8 DEF IInv, Tables

(* The function of a timeout returns.                                      *)
LEMMA TimerReturnsKeeps ==
  ASSUME IInv, TimerReturns
  PROVE  IInv'
<1>1. /\ TypeOK /\ Linked /\ Placed /\ Watched /\ Blank /\ IoRefsExact /\ DestroyedOnce
      /\ FrameOK /\ BatchOK
  BY DEF IInv, Tables
<1>2. /\ frame # None /\ frame.src \notin Ios /\ frame' = None
      /\ UNCHANGED <<usage, epoll_terminate, pc, batch, mainloop_list, epoll, allocated,
                     created, fd, refs, held, events, callback, destroy, installs, releases,
                     armed, fired, fault>>
  BY Null DEF TimerReturns, loop, tables, io, timer
<1>3. TypeOK'
  BY <1>1, <1>2 DEF TypeOK
<1>4. Linked' /\ Placed' /\ Watched' /\ Blank' /\ DestroyedOnce'
  BY <1>1, <1>2 DEF Linked, Placed, Watched, Blank, DestroyedOnce
<1>5. IoRefsExact'
  <2>1. \A j \in Ios : ~ (frame # None /\ frame.src = j)
    BY <1>2
  <2> QED BY <1>1, <1>2, <2>1 DEF IoRefsExact
<1>6. FrameOK' /\ BatchOK'
  BY <1>1, <1>2 DEF FrameOK, BatchOK, Distinct
<1> QED BY <1>3, <1>4, <1>5, <1>6 DEF IInv, Tables

(* A handler of an io returns, and the next one that is due is called.     *)
LEMMA HandlerReturnsKeeps ==
  ASSUME IInv, NEW keep \in BOOLEAN, HandlerReturns(keep)
  PROVE  IInv'
<1> DEFINE i == frame.src
           h == frame.stage
           cbs == IF keep THEN callback[i] ELSE callback[i] \ {h}
           stage == NextStage(cbs, h, frame.events)
           into == [src |-> i, stage |-> stage, events |-> frame.events]
           evs == events[i] \ {Event(h)}
           was == IF h \in destroy[i] THEN 1 ELSE 0
           one == IF frame' = None THEN 1 ELSE 0
<1>1. /\ TypeOK /\ Linked /\ Placed /\ Watched /\ Blank /\ IoRefsExact /\ DestroyedOnce
      /\ FrameOK /\ BatchOK
  BY DEF IInv, Tables
<1>2. /\ fault = "none" /\ frame # None /\ i \in Ios
      /\ callback' = [callback EXCEPT ![i] = cbs]
      /\ IF keep THEN UNCHANGED <<events, destroy, releases, epoll>>
         ELSE /\ releases' = [releases EXCEPT ![i][h] = @ + was]
              /\ destroy' = [destroy EXCEPT ![i] = @ \ {h}]
              /\ events' = [events EXCEPT ![i] = evs]
              /\ ModifyFd(fd[i], evs)
      /\ frame' = (IF stage = None THEN None ELSE into)
      /\ refs' = [refs EXCEPT ![i] = @ - one]
      /\ UNCHANGED <<usage, epoll_terminate, pc, batch, mainloop_list, allocated, created,
                     fd, held, installs, armed, fired, fault>>
  <2>1. events' = [events EXCEPT ![i] = @ \ {Event(h)}] => events' = [events EXCEPT ![i] = evs]
    OBVIOUS
  <2> QED BY <2>1 DEF HandlerReturns, Enter, loop, timer
<1>3. /\ events \in [Ios -> SUBSET {"IN", "OUT", "RDHUP"}]
      /\ callback \in [Ios -> SUBSET Hooks] /\ destroy \in [Ios -> SUBSET Hooks]
      /\ installs \in [Ios -> [Hooks -> Nat]] /\ releases \in [Ios -> [Hooks -> Nat]]
      /\ epoll \in [Fds -> Registration \union {None}] /\ refs \in [Ios -> Nat]
      /\ frame \in Handling \union {None} /\ allocated \subseteq created /\ i \in Sources
  BY <1>1, <1>2, Types, Null
<1>4. h \in Hooks /\ i \in created /\ frame.events \in SUBSET {"IN", "OUT", "HUP"}
  <2>1. h \in Hooks /\ i \in created
    BY <1>1, <1>2 DEF FrameOK
  <2>2. frame.events \in SUBSET {"IN", "OUT", "HUP"}
    BY <1>2, <1>3 DEF Handling
  <2> QED BY <2>1, <2>2
<1>5. i \notin allocated =>
        callback[i] = {} /\ ("inside" \notin usage => h \notin destroy[i])
  BY <1>1, <1>2 DEF FrameOK
<1>6. /\ cbs \subseteq callback[i] /\ cbs \in SUBSET Hooks /\ evs \in SUBSET {"IN", "OUT", "RDHUP"}
      /\ ~ keep => h \notin cbs
  BY <1>2, <1>3
<1>7. stage # None => stage \in Hooks /\ i \in allocated
  BY <1>5, <1>6, Chosen
<1>8. stage # None => into \in Handling /\ into.src = i /\ into.stage = stage
  BY <1>3, <1>4, <1>7 DEF Handling
<1>9. frame' # None <=> stage # None
  BY <1>2, <1>8, Null
<1>10. frame' # None => frame'.src = i /\ frame'.stage = stage
  BY <1>2, <1>8, <1>9
<1>11. /\ was = (IF h \in destroy[i] THEN 1 ELSE 0) /\ was \in {0, 1}
       /\ one = (IF frame' = None THEN 1 ELSE 0) /\ one \in {0, 1}
  OBVIOUS
<1> HIDE DEF cbs, stage, into, was, one
<1>12. refs[i] \in Nat /\ refs[i] >= 1 /\ refs[i] - one \in Nat
  <2>1. refs[i] \in Nat /\ refs[i] = (IF i \in held THEN 1 ELSE 0) + 1
    BY <1>1, <1>2, <1>3 DEF IoRefsExact
  <2> QED BY <2>1, <1>11
<1>13. /\ callback'[i] = cbs /\ refs'[i] = refs[i] - one
       /\ \A j \in Ios \ {i} : callback'[j] = callback[j] /\ refs'[j] = refs[j]
  BY <1>2, <1>3
<1>14. \A j \in Ios \ {i} : /\ events'[j] = events[j] /\ destroy'[j] = destroy[j]
                            /\ releases'[j] = releases[j]
  BY <1>2, <1>3
<1>15. /\ \A g \in Hooks \ {h} : /\ releases'[i][g] = releases[i][g]
                                 /\ g \in destroy'[i] <=> g \in destroy[i]
       /\ IF keep THEN destroy'[i] = destroy[i] /\ releases'[i] = releases[i]
          ELSE h \notin destroy'[i] /\ releases'[i][h] = releases[i][h] + was
  BY <1>2, <1>3, <1>4
<1>16. /\ epoll' \in [Fds -> Registration \union {None}]
       /\ \A f \in Fds : /\ epoll'[f] = None <=> epoll[f] = None
                         /\ epoll[f] # None => epoll'[f].ptr = epoll[f].ptr
       /\ i \in allocated => epoll'[fd[i]].events = events'[i]
       /\ \A r \in allocated : r # i => epoll'[fd[r]] = epoll[fd[r]]
  <2>1. CASE keep
    BY <1>1, <1>2, <1>3, <2>1 DEF Watched
  <2>2. CASE ~ keep
    <3>1. ModifyFd(fd[i], evs) /\ events'[i] = evs
      BY <1>2, <1>3, <2>2
    <3> HIDE DEF i, evs
    <3> QED BY <1>1, <1>3, <1>6, <3>1, Modified
  <2> QED BY <2>1, <2>2
<1>17. \A g \in Hooks : g \in cbs => (Event(g) \in events[i] => Event(g) \in events'[i])
  <2>1. CASE keep
    BY <1>2, <2>1
  <2>2. CASE ~ keep
    <3>1. events'[i] = events[i] \ {Event(h)}
      BY <1>2, <1>3, <2>2
    <3> QED BY <1>4, <1>6, <2>2, <3>1, Flags
  <2> QED BY <2>1, <2>2
<1>18. TypeOK'
  <2>1. callback' \in [Ios -> SUBSET Hooks]
    BY <1>2, <1>3, <1>6
  <2>2. /\ events' \in [Ios -> SUBSET {"IN", "OUT", "RDHUP"}]
        /\ destroy' \in [Ios -> SUBSET Hooks]
    <3>1. CASE keep
      BY <1>2, <1>3, <3>1
    <3>2. CASE ~ keep
      <4>1. events' = [events EXCEPT ![i] = evs] /\ destroy' = [destroy EXCEPT ![i] = @ \ {h}]
        BY <1>2, <3>2
      <4>2. i \in Ios
        BY <1>2
      <4> HIDE DEF i, h, evs
      <4>3. events' \in [Ios -> SUBSET {"IN", "OUT", "RDHUP"}]
        BY <1>3, <1>6, <4>1, <4>2
      <4>4. destroy' \in [Ios -> SUBSET Hooks]
        BY <1>3, <4>1, <4>2
      <4> QED BY <4>3, <4>4
    <3> QED BY <3>1, <3>2
  <2>3. releases' \in [Ios -> [Hooks -> Nat]]
    <3>1. releases[i][h] + was \in Nat
      BY <1>2, <1>3, <1>4, <1>11
    <3>2. CASE keep
      BY <1>2, <1>3, <3>2
    <3>3. CASE ~ keep
      <4>1. releases' = [releases EXCEPT ![i][h] = @ + was] /\ i \in Ios /\ h \in Hooks
        BY <1>2, <1>4, <3>3
      <4> HIDE DEF i, h
      <4> QED BY <1>3, <3>1, <4>1
    <3> QED BY <3>2, <3>3
  <2>4. refs' \in [Ios -> Nat]
    BY <1>2, <1>3, <1>12
  <2>5. frame' \in Handling \union {None}
    BY <1>2, <1>8
  <2> QED BY <1>1, <1>2, <1>16, <2>1, <2>2, <2>3, <2>4, <2>5 DEF TypeOK
<1>19. Linked'
  BY <1>1, <1>2, <1>16 DEF Linked
<1>20. Placed'
  BY <1>1, <1>2 DEF Placed
<1>21. Watched'
  <2> SUFFICES ASSUME NEW j \in Ios \intersect allocated
               PROVE  /\ epoll'[fd[j]].events = events'[j]
                      /\ \A g \in callback'[j] : Event(g) \in events'[j]
    BY <1>2 DEF Watched
  <2>1. epoll[fd[j]].events = events[j] /\ \A g \in callback[j] : Event(g) \in events[j]
    BY <1>1 DEF Watched
  <2>2. CASE j = i
    BY <1>6, <1>13, <1>16, <1>17, <2>1, <2>2
  <2>3. CASE j # i
    BY <1>13, <1>14, <1>16, <2>1, <2>3
  <2> QED BY <2>2, <2>3
<1>22. Blank'
  <2>1. \A j \in Ios \ created : j \in Ios \ {i}
    BY <1>4
  <2> QED BY <1>1, <1>2, <1>13, <1>14, <2>1 DEF Blank
<1>23. IoRefsExact'
  <2> SUFFICES ASSUME NEW j \in Ios
               PROVE  refs'[j] = (IF j \in held THEN 1 ELSE 0)
                                   + IF frame' # None /\ frame'.src = j THEN 1 ELSE 0
    BY <1>2 DEF IoRefsExact
  <2>1. refs[j] = (IF j \in held THEN 1 ELSE 0)
                    + IF frame # None /\ frame.src = j THEN 1 ELSE 0
    BY <1>1 DEF IoRefsExact
  <2>2. CASE j = i
    BY <1>2, <1>10, <1>11, <1>12, <1>13, <2>1, <2>2
  <2>3. CASE j # i
    BY <1>10, <1>13, <2>1, <2>3
  <2> QED BY <2>2, <2>3
<1>24. DestroyedOnce'
  <2> SUFFICES ASSUME "inside" \notin usage, NEW j \in Ios, NEW g \in Hooks
               PROVE  installs[j][g] - releases'[j][g] =
                        IF j \in allocated /\ g \in destroy'[j] THEN 1 ELSE 0
    BY <1>2 DEF DestroyedOnce
  <2>1. installs[j][g] - releases[j][g] =
          IF j \in allocated /\ g \in destroy[j] THEN 1 ELSE 0
    BY <1>1 DEF DestroyedOnce
  <2>2. CASE j # i
    BY <1>14, <2>1, <2>2
  <2>3. CASE j = i /\ (keep \/ g # h)
    BY <1>15, <2>1, <2>3
  <2>4. CASE j = i /\ ~ keep /\ g = h
    <3>1. h \notin destroy'[i] /\ releases'[i][h] = releases[i][h] + was
      BY <1>15, <2>4
    <3>2. was = IF i \in allocated /\ h \in destroy[i] THEN 1 ELSE 0
      BY <1>5, <1>11
    <3>3. installs[i][h] \in Nat /\ releases[i][h] \in Nat
      BY <1>2, <1>3, <1>4
    <3>4. installs[i][h] - releases[i][h] = was
      BY <2>1, <2>4, <3>2
    <3>5. installs[i][h] - releases'[i][h] = 0
      BY <1>11, <3>1, <3>3, <3>4
    <3> QED BY <2>4, <3>1, <3>5
  <2> QED BY <2>2, <2>3, <2>4
<1>25. FrameOK'
  <2>1. pc' = "batch"
    BY <1>1, <1>2 DEF FrameOK
  <2>2. frame' # None => /\ frame'.src \in created' /\ frame'.stage \in Hooks
                         /\ frame'.src \in allocated'
    BY <1>2, <1>4, <1>7, <1>9, <1>10
  <2> QED BY <2>1, <2>2 DEF FrameOK
<1>26. BatchOK'
  <2>1. frame' # None => frame'.src = frame.src
    BY <1>10
  <2> QED BY <1>1, <1>2, <2>1 DEF BatchOK, Distinct
<1> QED
  BY <1>18, <1>19, <1>20, <1>21, <1>22, <1>23, <1>24, <1>25, <1>26 DEF IInv, Tables

-----------------------------------------------------------------------------
(* The specification.                                                      *)

(* mainloop_init establishes the invariant.                                *)
LEMMA Starts ==
  ASSUME Init
  PROVE  IInv
<1>1. /\ usage \in Usages /\ epoll_terminate = FALSE /\ pc = "out" /\ batch = <<>>
      /\ mainloop_list = [f \in Fds |-> None] /\ epoll = [f \in Fds |-> None]
      /\ allocated = {} /\ created = {} /\ fd = [s \in Sources |-> -1]
      /\ refs = [i \in Ios |-> 0] /\ held = {}
      /\ events = [i \in Ios |-> {}] /\ callback = [i \in Ios |-> {}]
      /\ destroy = [i \in Ios |-> {}]
      /\ installs = [i \in Ios |-> [h \in Hooks |-> 0]] /\ releases = installs
      /\ armed = [t \in Timers |-> 0] /\ fired = [t \in Timers |-> 0]
      /\ frame = None /\ fault = "none"
  BY DEF Init
<1>2. TypeOK
  <2>1. batch \in Seq(Happened)
    BY <1>1
  <2>2. installs \in [Ios -> [Hooks -> Nat]]
    BY <1>1
  <2>3. /\ mainloop_list \in [Fds -> Sources \union {None}]
        /\ epoll \in [Fds -> Registration \union {None}]
        /\ fd \in [Sources -> Fds \union {-1}]
    BY <1>1
  <2>4. /\ events \in [Ios -> SUBSET {"IN", "OUT", "RDHUP"}]
        /\ callback \in [Ios -> SUBSET Hooks] /\ destroy \in [Ios -> SUBSET Hooks]
    BY <1>1
  <2>5. /\ refs \in [Ios -> Nat] /\ armed \in [Timers -> Nat] /\ fired \in [Timers -> Nat]
    BY <1>1
  <2>6. /\ usage \in Usages /\ epoll_terminate \in BOOLEAN
        /\ pc \in {"out", "test", "wait", "batch", "ended"}
        /\ allocated \subseteq created /\ created \subseteq Sources /\ held \subseteq Ios
        /\ frame \in Handling \union {None} /\ fault \in {"none", "data"}
    BY <1>1
  <2> QED BY <1>1, <2>1, <2>2, <2>3, <2>4, <2>5, <2>6 DEF TypeOK
<1>3. Linked /\ Placed /\ Watched /\ Blank
  BY <1>1 DEF Linked, Placed, Watched, Blank
<1>4. IoRefsExact
  BY <1>1 DEF IoRefsExact
<1>5. DestroyedOnce
  BY <1>1 DEF DestroyedOnce
<1>6. FrameOK
  BY <1>1 DEF FrameOK
<1>7. BatchOK
  <2>1. DOMAIN batch = {}
    BY <1>1
  <2> QED BY <1>1, <2>1 DEF BatchOK, Distinct
<1> QED BY <1>2, <1>3, <1>4, <1>5, <1>6, <1>7 DEF IInv, Tables

(* Each step keeps it.                                                     *)
LEMMA Keeps ==
  ASSUME IInv, [Next]_vars
  PROVE  IInv'
<1>1. ASSUME NEW i \in Ios, IoNew(i) PROVE IInv'
  BY <1>1, IoNewKeeps
<1>2. ASSUME NEW i \in Ios, IoDestroy(i) PROVE IInv'
  BY <1>2, IoDestroyKeeps
<1>3. ASSUME NEW i \in Ios, NEW h \in Hooks, NEW on \in BOOLEAN, NEW destroys \in BOOLEAN,
             SetHandler(i, h, on, destroys)
      PROVE  IInv'
  BY <1>3, SetHandlerKeeps
<1>4. ASSUME NEW t \in Timers, AddTimeout(t) PROVE IInv'
  BY <1>4, AddTimeoutKeeps
<1>5. ASSUME NEW t \in Timers, ModifyTimeout(t) PROVE IInv'
  BY <1>5, ModifyTimeoutKeeps
<1>6. ASSUME NEW t \in Timers, RemoveTimeout(t) PROVE IInv'
  BY <1>6, RemoveTimeoutKeeps
<1>7. ASSUME NEW b \in Batches, EpollWait(b) PROVE IInv'
  BY <1>7, EpollWaitKeeps
<1>8. ASSUME NEW keep \in BOOLEAN, HandlerReturns(keep) PROVE IInv'
  BY <1>8, HandlerReturnsKeeps
<1>9. CASE Api
  BY <1>1, <1>2, <1>3, <1>4, <1>5, <1>6, <1>9 DEF Api
<1>10. CASE Waits
  BY <1>7, <1>10 DEF Waits
<1>11. CASE Dispatch
  BY <1>11, DispatchIoKeeps, DispatchTimerKeeps, DispatchStaleKeeps DEF Dispatch
<1>12. CASE Returns
  BY <1>8, <1>12, TimerReturnsKeeps DEF Returns
<1>13. CASE UNCHANGED vars
  <2>1. /\ UNCHANGED <<usage, batch, tables, io, timer, frame, fault>>
        /\ epoll_terminate' = epoll_terminate /\ pc' = pc
    BY <1>13 DEF vars, loop
  <2>2. /\ epoll_terminate \in BOOLEAN /\ pc \in {"out", "test", "wait", "batch", "ended"}
        /\ pc # "batch" => batch = <<>> /\ frame = None
    BY Types DEF IInv, Tables, FrameOK
  <2> QED BY <2>1, <2>2, LoopKeeps
<1> QED
  BY <1>9, <1>10, <1>11, <1>12, <1>13, TurnKeeps, EndLoopKeeps DEF Next

(* The properties follow: what is allocated is in the tables at its        *)
(* descriptor, and a fault needs a handler that removes sources of others. *)
LEMMA Follows ==
  ASSUME IInv
  PROVE  Inv
<1>1. /\ TypeOK /\ Linked /\ Watched /\ IoRefsExact /\ DestroyedOnce /\ BatchOK
  BY DEF IInv, Tables
<1>2. TablesAgree
  BY <1>1 DEF Linked, Watched, TablesAgree
<1>3. NoStaleEvent
  BY <1>1 DEF BatchOK, NoStaleEvent
<1> QED BY <1>1, <1>2, <1>3 DEF Inv

(* The tables of the loop, the kernel and the ios agree at every moment,   *)
(* references and destroy functions are balanced, and no event outlives    *)
(* its source, for any number of ios, timeouts and descriptors and         *)
(* whatever handlers call before they return.                              *)
THEOREM LoopSound == Spec => []Inv
<1>1. Init => IInv
  BY Starts
<1>2. IInv /\ [Next]_vars => IInv'
  BY Keeps
<1>3. IInv => Inv
  BY Follows
<1> QED BY <1>1, <1>2, <1>3, PTL DEF Spec

=============================================================================
