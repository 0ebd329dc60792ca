------------------------------ MODULE MainLoop ------------------------------
(***************************************************************************)
(* lib/bluez/mainloop.c and io-mainloop.c: descriptors registered with     *)
(* epoll, the events of one epoll_wait worked off one after the other, and *)
(* struct io with its read, write and disconnect handlers.  A handler may  *)
(* call the API before it returns.  mainloop_quit may come from any        *)
(* thread, everything else from the thread that runs the loop.             *)
(*                                                                         *)
(* A source is a struct io or a timeout together with its struct           *)
(* mainloop_data; each is allocated once, so that using one after it was   *)
(* freed shows.  The kernel gives out the lowest descriptor that is free.  *)
(***************************************************************************)
EXTENDS Integers, Sequences, SequencesExt, FiniteSets, FiniteSetsExt

CONSTANTS
  Ios, Timers,
  None,
  MaxFd,        (* descriptors go from 0 to MaxFd ...                      *)
  MaxEntries,   (* ... of which MAX_MAINLOOP_ENTRIES fit in mainloop_list  *)
  MaxInstalls,  (* bound: times a handler of an io is installed            *)
  MaxArmed,     (* bound: times a timeout is set                           *)
  Usages        (* what handlers may do, see usage                         *)

ASSUME LoopConstantsOK ==
  /\ IsFiniteSet(Ios) /\ IsFiniteSet(Timers) /\ Ios \intersect Timers = {}
  /\ {MaxFd, MaxEntries, MaxInstalls, MaxArmed} \subseteq Nat
  /\ Usages \subseteq SUBSET {"others", "inside"}

Sources == Ios \union Timers
Fds == 0 .. MaxFd
Hooks == {"read", "write", "disconnect"}
Event(h) ==
  CASE h = "read" -> "IN" [] h = "write" -> "OUT" [] h = "disconnect" -> "RDHUP"

VARIABLES
  usage,          (* "others": handlers remove sources other than their    *)
                  (* own; "inside": a handler that has a destroy function  *)
                  (* calls io_destroy on its own io and returns false      *)
  epoll_terminate,
  pc,             (* mainloop_run: "out", at the loop's "test", in a       *)
                  (* "wait", working off a "batch", or "ended"             *)
  mainloop_list,
  epoll,          (* the kernel's registrations: pointer, events, armed    *)
  batch,          (* events[n] from n on                                   *)
  allocated,      (* sources whose struct mainloop_data is allocated       *)
  created,        (* history: sources that have been allocated             *)
  fd,             (* of a source, -1 when cleaned up                       *)
  refs,           (* of an io                                              *)
  held,           (* ios the program has not destroyed                     *)
  events,         (* io->events                                            *)
  callback,       (* hooks whose callback is set                           *)
  destroy,        (* hooks whose destroy function is set                   *)
  installs,       (* history: destroy functions given to the io            *)
  releases,       (* history: ... and called                               *)
  armed,          (* history: times a timeout was set                      *)
  fired,          (* history: ... and its function called                  *)
  frame,          (* the handler in progress                               *)
  fault           (* "none", or "data": freed memory was used              *)

loop == <<epoll_terminate, pc, batch>>
tables == <<mainloop_list, epoll, allocated, created, fd>>
io == <<refs, held, events, callback, destroy, installs, releases>>
timer == <<armed, fired>>
vars == <<usage, loop, tables, io, timer, frame, fault>>

Registration ==
  [ptr : Sources, events : SUBSET {"IN", "OUT", "RDHUP"}, on : BOOLEAN]
Happened == [src : Sources, events : SUBSET {"IN", "OUT", "HUP"}]
Handling ==
  [src : Sources, stage : Hooks \union {"timer"},
   events : SUBSET {"IN", "OUT", "HUP"}]

ASSUME NullOK == None \notin Sources \union Registration \union Handling

TypeOK ==
  /\ usage \in Usages
  /\ epoll_terminate \in BOOLEAN
  /\ pc \in {"out", "test", "wait", "batch", "ended"}
  /\ mainloop_list \in [Fds -> Sources \union {None}]
  /\ epoll \in [Fds -> Registration \union {None}]
  /\ batch \in Seq(Happened)
  /\ allocated \subseteq created /\ created \subseteq Sources
  /\ fd \in [Sources -> Fds \union {-1}]
  /\ refs \in [Ios -> Nat] /\ held \subseteq Ios
  /\ events \in [Ios -> SUBSET {"IN", "OUT", "RDHUP"}]
  /\ {callback, destroy} \subseteq [Ios -> SUBSET Hooks]
  /\ {installs, releases} \subseteq [Ios -> [Hooks -> Nat]]
  /\ {armed, fired} \subseteq [Timers -> Nat]
  /\ frame \in Handling \union {None}
  /\ fault \in {"none", "data"}

(* mainloop_init *)
Init ==
  /\ usage \in Usages
  /\ epoll_terminate = FALSE /\ pc = "out" /\ batch = <<>>
  /\ mainloop_list = [f \in Fds |-> None]
  /\ epoll = [f \in Fds |-> None]
  /\ allocated = {} /\ created = {}
  /\ fd = [s \in Sources |-> -1]
  /\ refs = [i \in Ios |-> 0] /\ held = {}
  /\ events = [i \in Ios |-> {}]
  /\ callback = [i \in Ios |-> {}]
  /\ destroy = [i \in Ios |-> {}]
  /\ installs = [i \in Ios |-> [h \in Hooks |-> 0]]
  /\ releases = installs
  /\ armed = [t \in Timers |-> 0] /\ fired = [t \in Timers |-> 0]
  /\ frame = None
  /\ fault = "none"

(* The program calls the API before and after mainloop_run, and from       *)
(* handlers.                                                               *)
MayCall == fault = "none" /\ (frame # None \/ pc \in {"out", "ended"})
Own(s) == frame # None => frame.src = s
MayRemove(s) == "others" \notin usage => Own(s)

-----------------------------------------------------------------------------
(* The tables of mainloop.c.                                               *)

FreeFd == {f \in Fds : \A s \in Sources : fd[s] # f}

(* mainloop_add_fd for a new descriptor f                                  *)
AddFd(s, f, evs) ==
  /\ f < MaxEntries /\ pc # "ended"
  /\ mainloop_list' = [mainloop_list EXCEPT ![f] = s]
  /\ epoll' = [epoll EXCEPT ![f] = [ptr |-> s, events |-> evs, on |-> TRUE]]
  /\ fd' = [fd EXCEPT ![s] = f]
  /\ allocated' = allocated \union {s} /\ created' = created \union {s}

(* mainloop_modify_fd; nothing if the descriptor is not registered         *)
ModifyFd(f, evs) ==
  epoll' = IF f # -1 /\ mainloop_list[f] # None
           THEN [epoll EXCEPT ![f].events = evs, ![f].on = TRUE]
           ELSE epoll

(* mainloop_remove_fd for a registered source: io_cleanup and              *)
(* timeout_destroy close the descriptor.                                   *)
RemoveFds(ss) ==
  /\ mainloop_list' =
       [f \in Fds |-> IF mainloop_list[f] \in ss THEN None ELSE mainloop_list[f]]
  /\ epoll' =
       [f \in Fds |-> IF mainloop_list[f] \in ss THEN None ELSE epoll[f]]
  /\ allocated' = allocated \ ss
  /\ fd' = [s \in Sources |-> IF s \in ss THEN -1 ELSE fd[s]]
  /\ releases' =
       [i \in Ios |-> [h \in Hooks |->
          releases[i][h] + IF i \in ss /\ h \in destroy[i] THEN 1 ELSE 0]]
  /\ UNCHANGED created

(* Those that mainloop_remove_fd finds when called for the fd of s.        *)
Registered(s) == IF fd[s] # -1 /\ mainloop_list[fd[s]] = s THEN {s} ELSE {}

-----------------------------------------------------------------------------
(* struct io.                                                              *)

IoNew(i) ==
  /\ MayCall
  /\ i \notin created
  /\ FreeFd # {} /\ AddFd(i, Min(FreeFd), {})
  /\ refs' = [refs EXCEPT ![i] = 1]
  /\ held' = held \union {i}
  /\ UNCHANGED <<usage, loop, events, callback, destroy, installs, releases,
                 timer, frame, fault>>

(* io_set_read_handler and its like, with a callback or without; destroys  *)
(* says whether a destroy function comes with it.                          *)
SetHandler(i, h, on, destroys) ==
  LET evs == IF on THEN events[i] \union {Event(h)}
             ELSE events[i] \ {Event(h)}
  IN
  /\ MayCall
  /\ i \in held /\ fd[i] # -1
  /\ destroys => on
  /\ on => installs[i][h] < MaxInstalls
  /\ releases' = [releases EXCEPT ![i][h] =
                    @ + IF h \in destroy[i] THEN 1 ELSE 0]
  /\ installs' = [installs EXCEPT ![i][h] = @ + IF destroys THEN 1 ELSE 0]
  /\ callback' = [callback EXCEPT ![i] = IF on THEN @ \union {h} ELSE @ \ {h}]
  /\ destroy' = [destroy EXCEPT ![i] =
                   IF destroys THEN @ \union {h} ELSE @ \ {h}]
  /\ events' = [events EXCEPT ![i] = evs]
  /\ IF evs = events[i] THEN UNCHANGED epoll ELSE ModifyFd(fd[i], evs)
  /\ UNCHANGED <<usage, loop, mainloop_list, allocated, created, fd, refs,
                 held, timer, frame, fault>>

(* io_destroy *)
IoDestroy(i) ==
  /\ MayCall /\ MayRemove(i)
  /\ i \in held
  /\ "inside" \notin usage /\ frame # None =>
       frame.stage \notin destroy[i] \/ frame.src # i
  /\ held' = held \ {i}
  /\ callback' = [callback EXCEPT ![i] = {}]
  /\ RemoveFds(Registered(i))
  /\ refs' = [refs EXCEPT ![i] = @ - 1]
  /\ UNCHANGED <<usage, loop, events, destroy, installs, timer, frame, fault>>

-----------------------------------------------------------------------------
(* Timeouts of mainloop.c.                                                 *)

AddTimeout(t) ==
  /\ MayCall
  /\ t \notin created
  /\ FreeFd # {} /\ AddFd(t, Min(FreeFd), {"IN"})
  /\ armed' = [armed EXCEPT ![t] = 1]
  /\ UNCHANGED <<usage, loop, io, fired, frame, fault>>

ModifyTimeout(t) ==
  /\ MayCall
  /\ t \in allocated /\ armed[t] < MaxArmed
  /\ ModifyFd(fd[t], {"IN"})
  /\ armed' = [armed EXCEPT ![t] = @ + 1]
  /\ UNCHANGED <<usage, loop, mainloop_list, allocated, created, fd, io, fired,
                 frame, fault>>

RemoveTimeout(t) ==
  /\ MayCall /\ MayRemove(t)
  /\ t \in allocated
  /\ RemoveFds({t})
  /\ UNCHANGED <<usage, loop, refs, held, events, callback, destroy, installs,
                 timer, frame, fault>>

-----------------------------------------------------------------------------
(* mainloop_run.                                                           *)

Run ==
  /\ pc = "out" /\ fault = "none"
  /\ pc' = "test"
  /\ UNCHANGED <<usage, epoll_terminate, batch, tables, io, timer, frame,
                 fault>>

Block ==
  /\ pc = "test" /\ fault = "none" /\ ~ epoll_terminate
  /\ pc' = "wait"
  /\ UNCHANGED <<usage, epoll_terminate, batch, tables, io, timer, frame,
                 fault>>

Quit ==
  /\ pc # "ended" /\ ~ epoll_terminate
  /\ epoll_terminate' = TRUE
  /\ UNCHANGED <<usage, pc, batch, tables, io, timer, frame, fault>>

(* What the kernel may report of a registration.  A hangup is reported     *)
(* whether it was asked for or not, a timeout that was not set is not.     *)
Reports(f) ==
  IF epoll[f] = None \/ ~ epoll[f].on THEN {}
  ELSE LET s == epoll[f].ptr
           asked == epoll[f].events \intersect {"IN", "OUT"}
           hangup == IF s \in Ios THEN {"HUP"} ELSE {}
       IN IF s \in Timers /\ fired[s] = armed[s] THEN {}
          ELSE {[src |-> s, events |-> e] :
                  e \in (SUBSET (asked \union hangup)) \ {{}}}

Batches ==
  {<<>>}
    \union (UNION {{<<x>> : x \in Reports(f)} : f \in Fds})
    \union (UNION {{<<x, y>> : x \in Reports(f), y \in Reports(g)} :
                     f \in Fds, g \in Fds})
Distinct(b) == \A j, k \in DOMAIN b : b[j].src = b[k].src => j = k

(* Mutant of EpollWait: it waits until something happens.                   *)
EpollWait_Forever(b) ==
  /\ pc = "wait" /\ fault = "none"
  /\ Distinct(b) /\ b # <<>>
  /\ batch' = b
  /\ pc' = "batch"
  /\ epoll' = [f \in Fds |->
       IF epoll[f] # None /\ (\E k \in DOMAIN b : b[k].src = epoll[f].ptr)
       THEN [epoll[f] EXCEPT !.on = epoll[f].ptr \in Ios] ELSE epoll[f]]
  /\ UNCHANGED <<usage, epoll_terminate, mainloop_list, allocated, created, fd,
                 io, timer, frame, fault>>

(* epoll_wait reports up to MAX_EPOLL_EVENTS events, or none after 100 ms; *)
(* EPOLLONESHOT disarms timeouts.                                          *)
EpollWait(b) ==
  /\ pc = "wait" /\ fault = "none"
  /\ Distinct(b)
  /\ batch' = b
  /\ pc' = "batch"
  /\ epoll' = [f \in Fds |->
       IF epoll[f] # None /\ (\E k \in DOMAIN b : b[k].src = epoll[f].ptr)
       THEN [epoll[f] EXCEPT !.on = epoll[f].ptr \in Ios] ELSE epoll[f]]
  /\ UNCHANGED <<usage, epoll_terminate, mainloop_list, allocated, created, fd,
                 io, timer, frame, fault>>

BatchDone ==
  /\ pc = "batch" /\ fault = "none" /\ frame = None
  /\ batch = <<>>
  /\ pc' = "test"
  /\ UNCHANGED <<usage, epoll_terminate, batch, tables, io, timer, frame,
                 fault>>

(* The stages of io_callback for the events evs that are left after stage. *)
Stages == <<"disconnect", "read", "write">>
StageEvent == [disconnect |-> "HUP", read |-> "IN", write |-> "OUT"]
NextStage(cbs, after, evs) ==
  LET k == SelectInSeq(Stages, LAMBDA h : h = after)
      j == SelectInSubSeq(Stages, k + 1, 3,
                          LAMBDA h : StageEvent[h] \in evs /\ h \in cbs)
  IN IF j = 0 THEN None ELSE Stages[j]

Enter(i, stage, evs) ==
  frame' = IF stage = None THEN None
           ELSE [src |-> i, stage |-> stage, events |-> evs]

(* An io whose callback is entered, up to the first handler.  A hangup     *)
(* puts the read and write handlers out of use; without a handler of its   *)
(* own it takes the descriptor out of the loop.                            *)
DispatchIo ==
  LET i == Head(batch).src
      evs == Head(batch).events
      cbs == IF "HUP" \in evs THEN callback[i] \ {"read", "write"}
             ELSE callback[i]
      lost == "HUP" \in evs /\ "disconnect" \notin cbs
      stage == IF lost THEN None ELSE NextStage(cbs, None, evs)
  IN
  /\ pc = "batch" /\ fault = "none" /\ frame = None
  /\ batch # <<>> /\ i \in Ios /\ i \in allocated
  /\ batch' = Tail(batch)
  /\ callback' = [callback EXCEPT ![i] = cbs]
  /\ IF lost THEN RemoveFds(Registered(i))
     ELSE UNCHANGED <<tables, releases>>
  /\ refs' = [refs EXCEPT ![i] = @ + IF stage = None THEN 0 ELSE 1]
  /\ Enter(i, stage, evs)
  /\ UNCHANGED <<usage, epoll_terminate, pc, held, events, destroy, installs,
                 timer, fault>>

DispatchTimer ==
  LET t == Head(batch).src IN
  /\ pc = "batch" /\ fault = "none" /\ frame = None
  /\ batch # <<>> /\ t \in Timers /\ t \in allocated
  /\ batch' = Tail(batch)
  /\ fired' = [fired EXCEPT ![t] = @ + 1]
  /\ frame' = [src |-> t, stage |-> "timer", events |-> {}]
  /\ UNCHANGED <<usage, epoll_terminate, pc, tables, io, armed, fault>>

(* events[n].data.ptr points to a struct mainloop_data that an earlier     *)
(* handler of the batch has freed.                                         *)
DispatchStale ==
  /\ pc = "batch" /\ fault = "none" /\ frame = None
  /\ batch # <<>> /\ Head(batch).src \notin allocated
  /\ fault' = "data"
  /\ UNCHANGED <<usage, loop, tables, io, timer, frame>>

(* Mutant of HandlerReturns: the epoll registration is left as it is, and   *)
(* so is the flag in events.                                               *)
HandlerReturns_Watched(keep) ==
  LET i == frame.src
      h == frame.stage
      cbs == IF keep THEN callback[i] ELSE callback[i] \ {h}
  IN
  /\ fault = "none"
  /\ frame # None /\ i \in Ios
  /\ callback' = [callback EXCEPT ![i] = cbs]
  /\ IF keep THEN UNCHANGED <<events, destroy, releases, epoll>>
     ELSE /\ destroy' = [destroy EXCEPT ![i] = @ \ {h}]
          /\ events' = [events EXCEPT ![i] = @ \ {Event(h)}]
          /\ UNCHANGED <<releases, epoll>>
  /\ Enter(i, NextStage(cbs, h, frame.events), frame.events)
  /\ refs' = [refs EXCEPT ![i] = @ - IF frame' = None THEN 1 ELSE 0]
  /\ UNCHANGED <<usage, loop, mainloop_list, allocated, created, fd, held,
                 installs, timer>>
  /\ UNCHANGED fault

(* A handler of an io returns; if it returns false it is uninstalled.      *)
HandlerReturns(keep) ==
  LET i == frame.src
      h == frame.stage
      cbs == IF keep THEN callback[i] ELSE callback[i] \ {h}
  IN
  /\ fault = "none"
  /\ frame # None /\ i \in Ios
  /\ callback' = [callback EXCEPT ![i] = cbs]
  /\ IF keep THEN UNCHANGED <<events, destroy, releases, epoll>>
     ELSE /\ releases' = [releases EXCEPT ![i][h] =
                            @ + IF h \in destroy[i] THEN 1 ELSE 0]
          /\ destroy' = [destroy EXCEPT ![i] = @ \ {h}]
          /\ events' = [events EXCEPT ![i] = @ \ {Event(h)}]
          /\ ModifyFd(fd[i], events[i] \ {Event(h)})
  /\ Enter(i, NextStage(cbs, h, frame.events), frame.events)
  /\ refs' = [refs EXCEPT ![i] = @ - IF frame' = None THEN 1 ELSE 0]
  /\ UNCHANGED <<usage, loop, mainloop_list, allocated, created, fd, held,
                 installs, timer, fault>>

TimerReturns ==
  /\ fault = "none"
  /\ frame # None /\ frame.src \in Timers
  /\ frame' = None
  /\ UNCHANGED <<usage, loop, tables, io, timer, fault>>

(* After the loop everything that is still registered is destroyed.        *)
EndLoop ==
  /\ pc = "test" /\ fault = "none" /\ epoll_terminate
  /\ pc' = "ended"
  /\ RemoveFds(allocated)
  /\ UNCHANGED <<usage, epoll_terminate, batch, refs, held, events, callback,
                 destroy, installs, timer, frame, fault>>

-----------------------------------------------------------------------------
Api ==
  \/ \E i \in Ios : IoNew(i) \/ IoDestroy(i)
  \/ \E i \in Ios, h \in Hooks, on, destroys \in BOOLEAN :
       SetHandler(i, h, on, destroys)
  \/ \E t \in Timers : AddTimeout(t) \/ ModifyTimeout(t) \/ RemoveTimeout(t)

Waits == \E b \in Batches : EpollWait(b)
Dispatch == DispatchIo \/ DispatchTimer \/ DispatchStale
Returns == TimerReturns \/ \E keep \in BOOLEAN : HandlerReturns(keep)

Next ==
  \/ Api \/ Quit
  \/ Run \/ Block \/ Waits \/ BatchDone \/ EndLoop
  \/ Dispatch
  \/ Returns

Spec == Init /\ [][Next]_vars

(* The thread that runs the loop goes on, handlers return, and epoll_wait   *)
(* returns after 100 ms even if nothing happens.                           *)
FairSpec ==
  /\ Spec
  /\ WF_vars(Run \/ Block \/ EpollWait(<<>>) \/ BatchDone \/ EndLoop \/ Dispatch
               \/ Returns)

-----------------------------------------------------------------------------
(* Properties.                                                             *)

(* mainloop_list, the kernel and the ios agree: what one of them has       *)
(* registered the others have, with the same events, and each handler that *)
(* is set is watched for.  A handler that is not is never called again.    *)
TablesAgree ==
  /\ \A f \in Fds :
       /\ mainloop_list[f] = None <=> epoll[f] = None
       /\ mainloop_list[f] # None =>
            /\ epoll[f].ptr = mainloop_list[f]
            /\ mainloop_list[f] \in allocated
            /\ fd[mainloop_list[f]] = f
  /\ \A i \in Ios \intersect allocated :
       /\ epoll[fd[i]].events = events[i]
       /\ \A h \in callback[i] : Event(h) \in events[i]

(* An io is referenced by the program and by its handler in progress.      *)
IoRefsExact ==
  \A i \in Ios :
    refs[i] = (IF i \in held THEN 1 ELSE 0)
                + IF frame # None /\ frame.src = i THEN 1 ELSE 0

(* Handlers that remove no source but their own never leave an event of    *)
(* the batch without its source.                                           *)
NoStaleEvent == "others" \notin usage => fault = "none"

(* The destroy function of a handler is called once, whether the handler   *)
(* is replaced, returns false, hangs up or goes with its io, as long as no *)
(* handler that has one destroys its own io.                               *)
DestroyedOnce ==
  "inside" \notin usage =>
    \A i \in Ios, h \in Hooks :
      installs[i][h] - releases[i][h] =
        IF i \in allocated /\ h \in destroy[i] THEN 1 ELSE 0

Inv == TypeOK /\ TablesAgree /\ IoRefsExact /\ NoStaleEvent /\ DestroyedOnce

(* mainloop_quit from any thread ends the loop, although nothing wakes     *)
(* epoll_wait; without the 100 ms it would wait for an event.              *)
QuitEnds ==
  pc # "out" /\ epoll_terminate ~> pc = "ended" \/ fault # "none"

=============================================================================
