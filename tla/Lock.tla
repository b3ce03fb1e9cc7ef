-------------------------------- MODULE Lock --------------------------------
(***************************************************************************)
(* Forcola.Lock (lib/forcola/lock.ex) and the shim's lock mode             *)
(* (native/forcola_shim/src/lock.rs): a whole-file fcntl lock for the life *)
(* of an Elixir process.                                                   *)
(*                                                                         *)
(* Each acquire has a handle, and behind the handle a guard process, its   *)
(* port and a shim process, which is what the kernel gives the lock to.    *)
(* The owner talks to the guard in messages, the guard to the shim through *)
(* the port: stdin carries a byte or its end, stdout one line.             *)
(***************************************************************************)
EXTENDS Naturals, Sequences

CONSTANTS
  Owners,      \* processes that call acquire and release
  Handles,     \* one for each acquire of a run
  Uses,        \* which owner acquires through which handle: [Handles -> Owners]
  Nobody,      \* the holder of a free lock
  Foreign,     \* another program that locks the file
  Attempts,    \* ATTEMPTS
  Unreliable   \* handles whose shim may be stopped by a signal

ASSUME HolderAssumption == Nobody \notin Handles /\ Foreign \notin Handles /\ Nobody # Foreign
ASSUME BoundAssumption ==
  Attempts \in Nat \ {0} /\ Unreliable \subseteq Handles /\ Uses \subseteq [Handles -> Owners]

VARIABLES
  holder,   \* whom the kernel gave the lock
  shim,     \* [Handles]: "none", "setlk", "getlk", "locked", "waiting", "gone"
  tries,    \* calls of F_SETLK left
  stalled,  \* shims that are stopped and may never run again
  port,     \* "none", "open" or "closed"
  byte,     \* "release\n" was written to the shim's stdin
  wire,     \* what the port sends the guard; "end" is exit_status or EXIT
  guard,    \* "none", "awaiting", "holding", "releasing", "gone"
  request,  \* {:release, ...} in the guard's mailbox
  toOwner,  \* messages from the guard to its owner, which receives each by its kind
  owner,    \* who acquires through this handle
  view,     \* what the owner made of it
  late,     \* a release of it timed out
  dead      \* owners that ended

shimVars  == <<holder, shim, tries, stalled>>
guardVars == <<port, byte, wire, guard, request, toOwner>>
ownerVars == <<owner, view, late, dead>>
vars == <<shimVars, guardVars, ownerVars>>

Init ==
  /\ holder = Nobody /\ shim = [h \in Handles |-> "none"]
  /\ tries = [h \in Handles |-> Attempts] /\ stalled = {}
  /\ port = [h \in Handles |-> "none"] /\ byte = [h \in Handles |-> FALSE]
  /\ wire = [h \in Handles |-> <<>>] /\ guard = [h \in Handles |-> "none"]
  /\ request = [h \in Handles |-> FALSE] /\ toOwner = [h \in Handles |-> {}]
  /\ owner \in Uses /\ view = [h \in Handles |-> "unused"]
  /\ late = [h \in Handles |-> FALSE] /\ dead = {}

-----------------------------------------------------------------------------
(* The shim in lock mode, and the kernel.                                  *)

Alive(h) == shim[h] \notin {"none", "gone"}
Runs(h) == Alive(h) /\ h \notin stalled

\* A process that ends loses its lock before its pipes close.
Ends(h) ==
  /\ shim' = [shim EXCEPT ![h] = "gone"]
  /\ holder' = IF holder = h THEN Nobody ELSE holder

\* What a guard can hear from its port.
Lines == {"ok", "held", "error", "end"}

Writes(h, line) ==
  wire' = [wire EXCEPT ![h] = IF port[h] = "open" THEN Append(@, line) ELSE @]

\* finish: one line, and the shim ends.
Finish(h, line) == Ends(h) /\ Writes(h, line) /\ UNCHANGED tries

\* "error open", or "error lock" for an unusual errno.
ShimFails(h) ==
  /\ Runs(h) /\ shim[h] = "setlk"
  /\ Finish(h, "error")
  /\ UNCHANGED <<stalled, port, byte, guard, request, toOwner, ownerVars>>

\* F_SETLK.
SetLock(h) ==
  /\ Runs(h) /\ shim[h] = "setlk"
  /\ IF holder = Nobody
     THEN holder' = h /\ shim' = [shim EXCEPT ![h] = "locked"]
     ELSE shim' = [shim EXCEPT ![h] = "getlk"] /\ UNCHANGED holder
  /\ UNCHANGED <<tries, stalled, guardVars, ownerVars>>

\* EINTR, or F_GETLK found the holder gone: another attempt, if any is left.
Retry(h) ==
  IF tries[h] > 1
  THEN /\ tries' = [tries EXCEPT ![h] = @ - 1]
       /\ shim' = [shim EXCEPT ![h] = "setlk"]
       /\ UNCHANGED <<holder, wire>>
  ELSE Finish(h, "held")

SetLockInterrupted(h) ==
  /\ Runs(h) /\ shim[h] = "setlk" /\ Retry(h)
  /\ UNCHANGED <<stalled, port, byte, guard, request, toOwner, ownerVars>>

\* F_GETLK.
GetLock(h) ==
  /\ Runs(h) /\ shim[h] = "getlk"
  /\ IF holder = Nobody THEN Retry(h) ELSE Finish(h, "held")
  /\ UNCHANGED <<stalled, port, byte, guard, request, toOwner, ownerVars>>

\* "ok"; on a closed pipe nobody is listening, and the file is dropped.
SayOk(h) ==
  /\ Runs(h) /\ shim[h] = "locked"
  /\ IF port[h] = "open"
     THEN shim' = [shim EXCEPT ![h] = "waiting"] /\ Writes(h, "ok") /\ UNCHANGED holder
     ELSE Ends(h) /\ UNCHANGED wire
  /\ UNCHANGED <<tries, stalled, port, byte, guard, request, toOwner, ownerVars>>

\* wait_for_release: a byte or the end of stdin.
WaitForRelease(h) ==
  /\ Runs(h) /\ shim[h] = "waiting"
  /\ byte[h] \/ port[h] = "closed"
  /\ Ends(h)
  /\ UNCHANGED <<tries, stalled, guardVars, ownerVars>>

ShimKilled(h) ==
  /\ Alive(h) /\ Ends(h)
  /\ UNCHANGED <<tries, stalled, guardVars, ownerVars>>

ShimStops(h) ==
  /\ Runs(h) /\ h \in Unreliable /\ stalled' = stalled \cup {h}
  /\ UNCHANGED <<holder, shim, tries, guardVars, ownerVars>>

ForeignLock ==
  /\ holder' = (IF holder = Foreign THEN Nobody ELSE Foreign)
  /\ holder \in {Nobody, Foreign}
  /\ UNCHANGED <<shim, tries, stalled, guardVars, ownerVars>>

\* The port reports that the shim is gone.
PortEnds(h) ==
  /\ port[h] = "open" /\ shim[h] = "gone"
  /\ port' = [port EXCEPT ![h] = "closed"]
  /\ wire' = [wire EXCEPT ![h] = Append(@, "end")]
  /\ UNCHANGED <<shimVars, byte, guard, request, toOwner, ownerVars>>

-----------------------------------------------------------------------------
(* The guard.  A process that ends closes its port.                        *)

GuardIn(h, where) == guard[h] = where

Says(h, messages) ==
  toOwner' = IF owner[h] \in dead THEN toOwner ELSE [toOwner EXCEPT ![h] = @ \cup messages]

GuardEnds(h, messages) ==
  /\ guard' = [guard EXCEPT ![h] = "gone"]
  /\ port' = [port EXCEPT ![h] = "closed"]
  /\ wire' = [wire EXCEPT ![h] = <<>>] /\ request' = [request EXCEPT ![h] = FALSE]
  /\ Says(h, messages)

From(h, line) == wire[h] # <<>> /\ Head(wire[h]) = line

\* await_answer and answer.
Answer(h) ==
  /\ GuardIn(h, "awaiting") /\ wire[h] # <<>>
  /\ IF From(h, "ok")
     THEN /\ wire' = [wire EXCEPT ![h] = Tail(@)] /\ UNCHANGED <<port, request>>
          /\ guard' = [guard EXCEPT ![h] = "holding"] /\ Says(h, {"ok"})
     ELSE GuardEnds(h, {"refused"})
  /\ UNCHANGED <<shimVars, byte, ownerVars>>

\* The deadline of acquire.
AnswerTimeout(h) ==
  /\ GuardIn(h, "awaiting")
  /\ GuardEnds(h, {"refused"})
  /\ UNCHANGED <<shimVars, byte, ownerVars>>

\* {:DOWN, ...} of the owner.
OwnerDown(h) ==
  /\ guard[h] \in {"awaiting", "holding"} /\ owner[h] \in dead
  /\ GuardEnds(h, {})
  /\ UNCHANGED <<shimVars, byte, ownerVars>>

\* Mutant: the guard goes without a word.
Lost_Silently(h) ==
  /\ GuardIn(h, "holding") /\ From(h, "end")
  /\ GuardEnds(h, {})
  /\ UNCHANGED <<shimVars, byte, ownerVars>>

\* The shim died while it held the lock: {:forcola_lock_lost, ...}.
Lost(h) ==
  /\ GuardIn(h, "holding") /\ From(h, "end")
  /\ GuardEnds(h, {"lost"})
  /\ UNCHANGED <<shimVars, byte, ownerVars>>

\* release_port: ask the shim, and wait for its end.
ReleasePort(h) ==
  /\ GuardIn(h, "holding") /\ request[h]
  /\ request' = [request EXCEPT ![h] = FALSE]
  /\ guard' = [guard EXCEPT ![h] = "releasing"]
  /\ byte' = [byte EXCEPT ![h] = port[h] = "open"]
  /\ UNCHANGED <<shimVars, port, wire, toOwner, ownerVars>>

Released(h) ==
  /\ GuardIn(h, "releasing") /\ From(h, "end")
  /\ GuardEnds(h, {"released"})
  /\ UNCHANGED <<shimVars, byte, ownerVars>>

\* Mutant: closing the port is taken for the shim's end.
ReleaseTimeout_Confirms(h) ==
  /\ GuardIn(h, "releasing")
  /\ GuardEnds(h, {"released"})
  /\ UNCHANGED <<shimVars, byte, ownerVars>>

\* Five seconds without an answer.
ReleaseTimeout(h) ==
  /\ GuardIn(h, "releasing")
  /\ GuardEnds(h, {"timeout"})
  /\ UNCHANGED <<shimVars, byte, ownerVars>>

-----------------------------------------------------------------------------
(* The owner.                                                              *)

Waiting(h) == view[h] \in {"acquiring", "releasing"}
Free(o) == o \notin dead /\ \A h \in Handles : owner[h] = o => ~Waiting(h)

\* start_guard, guard_init and open_port.
Acquire(h) ==
  /\ Free(owner[h]) /\ view[h] = "unused"
  /\ view' = [view EXCEPT ![h] = "acquiring"]
  /\ guard' = [guard EXCEPT ![h] = "awaiting"]
  /\ port' = [port EXCEPT ![h] = "open"]
  /\ shim' = [shim EXCEPT ![h] = "setlk"]
  /\ UNCHANGED <<holder, tries, stalled, byte, wire, request, toOwner, owner, late,
                 dead>>

Told(h, message) == message \in toOwner[h]

AcquireReturns(h) ==
  /\ view[h] = "acquiring" /\ owner[h] \notin dead
  /\ \E message \in toOwner[h] \cap {"ok", "refused"} :
       /\ view' = [view EXCEPT ![h] = IF message = "ok" THEN "held" ELSE "refused"]
       /\ toOwner' = [toOwner EXCEPT ![h] = @ \ {message}]
  /\ UNCHANGED <<shimVars, port, byte, wire, guard, request, owner, late, dead>>

\* release: also of a lock that is lost, released or overdue.
Release(h) ==
  /\ Free(owner[h]) /\ view[h] \in {"held", "released", "overdue"}
  /\ view' = [view EXCEPT ![h] = "releasing"]
  /\ request' = [request EXCEPT ![h] = guard[h] # "gone"]
  /\ UNCHANGED <<shimVars, port, byte, wire, guard, toOwner, owner, late, dead>>

Replied(h) == Told(h, "released") \/ Told(h, "timeout")

\* The guard's reply, or its end without one.
ReleaseReturns(h) ==
  /\ view[h] = "releasing" /\ owner[h] \notin dead
  /\ Replied(h) \/ guard[h] = "gone"
  /\ view' = [view EXCEPT ![h] = IF Told(h, "timeout") THEN "overdue" ELSE "released"]
  /\ late' = [late EXCEPT ![h] = @ \/ Told(h, "timeout")]
  /\ toOwner' = [toOwner EXCEPT ![h] = @ \ {"released", "timeout"}]
  /\ UNCHANGED <<shimVars, port, byte, wire, guard, request, owner, dead>>

OwnerDies(o) ==
  /\ o \notin dead /\ dead' = dead \cup {o}
  /\ toOwner' = [h \in Handles |-> IF owner[h] = o THEN {} ELSE toOwner[h]]
  /\ UNCHANGED <<shimVars, port, byte, wire, guard, request, owner, view, late>>

-----------------------------------------------------------------------------

Shim(h) ==
  \/ ShimFails(h) \/ SetLock(h) \/ SetLockInterrupted(h) \/ GetLock(h) \/ SayOk(h)
  \/ WaitForRelease(h)
Guard(h) ==
  \/ Answer(h) \/ AnswerTimeout(h) \/ OwnerDown(h) \/ Lost(h) \/ ReleasePort(h)
  \/ Released(h) \/ ReleaseTimeout(h)
Returns(h) == AcquireReturns(h) \/ ReleaseReturns(h)

Next ==
  \/ \E h \in Handles :
       Shim(h) \/ ShimKilled(h) \/ ShimStops(h) \/ PortEnds(h) \/ Guard(h) \/ Acquire(h)
       \/ Release(h) \/ Returns(h)
  \/ ForeignLock
  \/ \E o \in Owners : OwnerDies(o)

\* A shim that is not stopped runs, a guard handles its messages and its
\* deadlines pass, and an owner receives its replies.
Fairness ==
  \A h \in Handles :
    /\ WF_vars(Shim(h)) /\ WF_vars(PortEnds(h)) /\ WF_vars(Returns(h))
    /\ WF_vars(Answer(h) \/ AnswerTimeout(h)) /\ WF_vars(OwnerDown(h) \/ Lost(h))
    /\ WF_vars(ReleasePort(h)) /\ WF_vars(Released(h) \/ ReleaseTimeout(h))

Spec == Init /\ [][Next]_vars
FairSpec == Spec /\ Fairness

-----------------------------------------------------------------------------
(* Properties.                                                             *)

HolderKnows == \A h \in Handles : holder = h <=> shim[h] \in {"locked", "waiting"}
PortEndsWithGuard == \A h \in Handles : guard[h] = "gone" => port[h] = "closed"

\* Every variable has its type, the kernel's holder is a shim that knows it,
\* and no port outlives its guard (lock.ex: the shim lives as long as it does).
TypeOK ==
  /\ holder \in Handles \cup {Nobody, Foreign}
  /\ shim \in [Handles -> {"none", "setlk", "getlk", "locked", "waiting", "gone"}]
  /\ tries \in [Handles -> 1..Attempts] /\ stalled \subseteq Handles
  /\ port \in [Handles -> {"none", "open", "closed"}] /\ byte \in [Handles -> BOOLEAN]
  /\ wire \in [Handles -> Seq(Lines)]
  /\ guard \in [Handles -> {"none", "awaiting", "holding", "releasing", "gone"}]
  /\ request \in [Handles -> BOOLEAN]
  /\ toOwner \in [Handles -> SUBSET {"ok", "refused", "lost", "released", "timeout"}]
  /\ owner \in Uses /\ dead \subseteq Owners
  /\ view \in [Handles -> {"unused", "acquiring", "held", "refused", "releasing",
                           "released", "overdue"}]
  /\ late \in [Handles -> BOOLEAN]
  /\ HolderKnows /\ PortEndsWithGuard

\* When release answers :ok, this lock is free, whether the shim heard the
\* request, died of itself, or was gone before.  After a release that timed
\* out, the guard is gone and a second release learns nothing of the shim
\* (lock.ex release, release_port).
ReleasedMeansFree ==
  \A h \in Handles : view[h] = "released" /\ ~late[h] => holder # h

\* Lock and handle agree in the end: acquire and release return whatever the
\* shim does, an owner whose lock is gone is told so unless it gives it up, and
\* a lock that is nobody's any more is freed unless its shim is stopped
\* (lock.ex release, hold, await_answer).
LockFollowsHandle ==
  \A h \in Handles :
    /\ Waiting(h) ~> (~Waiting(h) \/ owner[h] \in dead)
    /\ (view[h] = "held" /\ holder # h)
         ~> (Told(h, "lost") \/ view[h] # "held" \/ owner[h] \in dead)
    /\ (view[h] \in {"refused", "released", "overdue"} \/ owner[h] \in dead)
         ~> (~Alive(h) \/ h \in stalled)
=============================================================================
