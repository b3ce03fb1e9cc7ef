----------------------------- MODULE PortGuard -----------------------------
(***************************************************************************)
(* The port of one execution and the guard process that owns it            *)
(* (Shim.open, guard_port and close in lib/forcola/shim.ex), with the shim *)
(* behind it condensed to what its owner can tell apart.                   *)
(*                                                                         *)
(* The guard relays the port's messages to the process that opened it, and *)
(* closes the port when that process dies.  Erlang keeps the order of the  *)
(* messages of one sender, so the shim's frames pass through two queues,   *)
(* wire and mailbox; the death of the owner comes from another sender.     *)
(* Output bytes have an address: channel c carries bytes 1..Len(script).   *)
(***************************************************************************)
EXTENDS Naturals, Sequences, SequencesExt

CONSTANTS Requests

Channels == {"out", "err"}

\* One execution: its mode and options, what its child may write, and what
\* the world may do.  window is zero without backpressure; max stands for
\* max_output_bytes in a run, for max_line_bytes in a stream.
Request == [mode : {"run", "stream", "daemon"}, window : Nat, max : Nat, maxErr : Nat,
            out : Seq({"x", "n"}), err : Seq({"x", "n"}),
            timers : BOOLEAN, observed : BOOLEAN, faults : Nat]

\* positive! and positive_bound.
ASSUME RequestAssumption ==
  /\ Requests \subseteq Request
  /\ \A q \in Requests : q.window > 0 => q.max > 0 /\ (q.mode = "stream" => q.maxErr > 0)

VARIABLES
  req,
  child,       \* "none", "run" or "exited"
  doomed,      \* the shim is killing it
  said,        \* bytes the child wrote to each pipe
  read, eof,   \* bytes each pump forwarded; pumps that saw end of file
  avail,       \* Credit.available
  shim,        \* "new", "loop", "drain", "cut", "linger", "gone"
  discard, timedOut, \* supervise's discard_output and timed_out
  crashed,     \* the shim died without doing its work
  inbox,       \* frames on their way to the shim
  port,        \* "open" or "closed"
  wire,        \* what the port sends its guard
  guard,       \* "relay" or "gone"
  reported,    \* guard_port's reported_exit?
  mailbox,     \* what the guard sent the owner
  own          \* where the owner is

shimVars  == <<child, doomed, said, read, eof, avail, shim, discard, timedOut, crashed>>
portVars  == <<port, wire>>
guardVars == <<guard, reported, mailbox>>

Script(c) == IF c = "out" THEN req.out ELSE req.err
Gated == req.window > 0
Alive == shim # "gone"
Zero == [c \in Channels |-> 0]

-----------------------------------------------------------------------------
(* The child and the shim.  "loop": supervising; "drain": the strict drain; *)
(* "cut": the bounded one; "linger": EXIT is written.                       *)

SpawnChild ==
  /\ shim = "new" /\ port = "open"
  /\ shim' = "loop" /\ child' = "run"
  /\ UNCHANGED <<req, doomed, said, read, eof, avail, discard, timedOut, crashed, inbox,
                 portVars, guardVars, own>>

\* spawn_child fails: ERROR, and the shim ends.
SpawnFails ==
  /\ shim = "new" /\ port = "open"
  /\ shim' = "gone"
  /\ wire' = Append(wire, [kind |-> "error"])
  /\ UNCHANGED <<req, child, doomed, said, read, eof, avail, discard, timedOut, crashed,
                 inbox, port, guardVars, own>>

ChildWrite(c) ==
  /\ child = "run" /\ said[c] < Len(Script(c)) /\ Alive
  /\ said' = [said EXCEPT ![c] = @ + 1]
  /\ UNCHANGED <<req, child, doomed, read, eof, avail, shim, discard, timedOut, crashed,
                 inbox, portVars, guardVars, own>>

ChildExit ==
  /\ child = "run" /\ child' = "exited"
  /\ UNCHANGED <<req, doomed, said, read, eof, avail, shim, discard, timedOut, crashed,
                 inbox, portVars, guardVars, own>>

\* A read of k bytes and its frame.
PumpForward(c, k) ==
  /\ Alive /\ port = "open" /\ c \notin eof
  /\ read[c] + k <= said[c]
  /\ read' = [read EXCEPT ![c] = @ + k]
  /\ IF Gated
     THEN /\ k <= avail[c]
          /\ avail' = [avail EXCEPT ![c] = IF shim \in {"cut", "linger"} THEN 0 ELSE @ - k]
     ELSE UNCHANGED avail
  /\ wire' = Append(wire, [kind |-> "data", channel |-> c,
                           bytes |-> [i \in 1..k |-> read[c] + i]])
  /\ UNCHANGED <<req, child, doomed, said, eof, shim, discard, timedOut, crashed, inbox,
                 port, guardVars, own>>

PumpEof(c) ==
  /\ Alive /\ child = "exited" /\ c \notin eof /\ read[c] = said[c]
  /\ Gated => avail[c] > 0
  /\ eof' = eof \cup {c}
  /\ UNCHANGED <<req, child, doomed, said, read, avail, shim, discard, timedOut, crashed,
                 inbox, portVars, guardVars, own>>

\* Credit::cancel: a pump that holds a permit may still use it.
Cancel ==
  \E holding \in SUBSET Channels :
    avail' = [c \in Channels |-> IF c \in holding THEN avail[c] ELSE 0]

\* EOF for the child's input: of no consequence here, but it must be read.
ShimEof ==
  /\ shim \notin {"new", "gone"} /\ inbox # <<>> /\ Head(inbox).kind = "eof"
  /\ inbox' = Tail(inbox)
  /\ UNCHANGED <<req, shimVars, portVars, guardVars, own>>

ShimCredit ==
  /\ shim \in {"loop", "drain", "linger"} /\ inbox # <<>> /\ Head(inbox).kind = "credit"
  /\ inbox' = Tail(inbox)
  /\ IF shim = "linger" THEN UNCHANGED avail
     ELSE avail' = [avail EXCEPT ![Head(inbox).channel] = @ + Head(inbox).bytes]
  /\ UNCHANGED <<req, child, doomed, said, read, eof, shim, discard, timedOut, crashed,
                 portVars, guardVars, own>>

\* KILL: kill the child and give up its output; in the strict drain the
\* output alone.
ShimKill ==
  /\ shim \in {"loop", "drain", "linger"} /\ inbox # <<>> /\ Head(inbox).kind = "kill"
  /\ inbox' = Tail(inbox)
  /\ doomed' = (doomed \/ shim = "loop")
  /\ discard' = (discard \/ shim = "loop")
  /\ shim' = IF shim = "drain" THEN "cut" ELSE shim
  /\ IF shim = "drain" THEN Cancel ELSE UNCHANGED avail
  /\ UNCHANGED <<req, child, said, read, eof, timedOut, crashed, portVars, guardVars, own>>

ShimTimeout ==
  /\ shim = "loop" /\ req.timers /\ req.mode # "daemon" /\ ~timedOut
  /\ doomed' = TRUE /\ timedOut' = TRUE /\ discard' = TRUE
  /\ UNCHANGED <<req, child, said, read, eof, avail, shim, crashed, inbox,
                 portVars, guardVars, own>>

ShimReap ==
  /\ shim = "loop" /\ child = "exited"
  /\ shim' = IF Gated /\ ~discard THEN "drain" ELSE "cut"
  /\ IF Gated /\ discard THEN Cancel ELSE UNCHANGED avail
  /\ UNCHANGED <<req, child, doomed, said, read, eof, discard, timedOut, crashed, inbox,
                 portVars, guardVars, own>>

\* EXIT.  clean: a confirmed report of status zero.
ShimReport ==
  /\ port = "open"
  /\ shim = "cut" \/ (shim = "drain" /\ eof = Channels)
  /\ shim' = IF Gated THEN "linger" ELSE "gone"
  /\ \E clean \in BOOLEAN :
       wire' = Append(wire, [kind |-> "exit", clean |-> clean, timedOut |-> timedOut,
                             truncated |-> shim = "cut" /\ (Gated \/ eof # Channels)])
  /\ UNCHANGED <<req, child, doomed, said, read, eof, avail, discard, timedOut, crashed,
                 inbox, port, guardVars, own>>

\* The port was closed: the shim kills what is left and ends.
ShimLeft ==
  /\ Alive /\ port = "closed"
  /\ child # "run" \/ doomed
  /\ child' = (IF child = "run" THEN "exited" ELSE child)
  /\ shim' = "gone"
  /\ UNCHANGED <<req, doomed, said, read, eof, avail, discard, timedOut, crashed, inbox,
                 portVars, guardVars, own>>

ShimHearsClose ==
  /\ Alive /\ port = "closed" /\ child = "run" /\ ~doomed
  /\ doomed' = TRUE /\ discard' = TRUE
  /\ UNCHANGED <<req, child, said, read, eof, avail, shim, timedOut, crashed, inbox,
                 portVars, guardVars, own>>

ShimCrash ==
  /\ Alive /\ port = "open" /\ req.faults > 0
  /\ shim' = "gone" /\ crashed' = TRUE
  /\ UNCHANGED <<req, child, doomed, said, read, eof, avail, discard, timedOut, inbox,
                 portVars, guardVars, own>>

-----------------------------------------------------------------------------
(* The port and its guard.                                                 *)

\* The port's end: what it had read stays, and its link breaks last.
Closing(prefix, reason) ==
  /\ port' = "closed"
  /\ wire' = Append(prefix, [kind |-> "EXIT", normal |-> reason = "normal"])

\* The shim is gone: its status, or a driver error over a frame it never read,
\* which loses what the driver had not read.
PortEnds ==
  /\ ~Alive /\ port = "open"
  /\ \/ Closing(Append(wire, [kind |-> "exit_status"]), "normal")
     \/ inbox # <<>> /\ \E n \in 0..Len(wire) : Closing(SubSeq(wire, 1, n), "epipe")
  /\ UNCHANGED <<req, shimVars, inbox, guardVars, own>>

\* close_guarded_port: frames not yet read from the shim are lost.
CloseGuardedPort ==
  IF port = "closed" THEN UNCHANGED portVars
  ELSE \E n \in 0..Len(wire) : Closing(SubSeq(wire, 1, n), "killed")

Send(message) == mailbox' = IF own = "dead" THEN <<>> ELSE mailbox \o message

\* guard_port and the after clause of guard_open: a driver failure becomes the
\* exit_status its owner waits for.
GuardEnds ==
  /\ guard = "relay" /\ wire # <<>> /\ Head(wire).kind = "EXIT"
  /\ guard' = "gone" /\ wire' = Tail(wire)
  /\ Send((IF Head(wire).normal \/ reported THEN <<>> ELSE <<[kind |-> "exit_status"]>>)
          \o <<[kind |-> "guard_closed"]>>)
  /\ UNCHANGED <<req, shimVars, inbox, port, reported, own>>

GuardRelay ==
  /\ guard = "relay" /\ wire # <<>> /\ Head(wire).kind # "EXIT"
  /\ wire' = Tail(wire)
  /\ Send(<<Head(wire)>>)
  /\ reported' = (reported \/ Head(wire).kind = "exit_status")
  /\ UNCHANGED <<req, shimVars, inbox, port, guard, own>>

\* Mutant: the guard outlives its owner.
GuardDown_Stays == FALSE /\ UNCHANGED <<req, shimVars, inbox, portVars, guardVars, own>>

\* {:DOWN, ...}: the owner died.
GuardDown ==
  /\ guard = "relay" /\ own = "dead"
  /\ CloseGuardedPort
  /\ guard' = "gone"
  /\ UNCHANGED <<req, shimVars, inbox, reported, mailbox, own>>

ShimSteps ==
  \/ SpawnChild \/ SpawnFails \/ ChildExit \/ ShimEof \/ ShimCredit \/ ShimKill \/ ShimTimeout
  \/ ShimReap \/ ShimReport \/ ShimLeft \/ ShimHearsClose \/ ShimCrash
  \/ \E c \in Channels : ChildWrite(c) \/ PumpEof(c) \/ PumpForward(c, 1) \/ PumpForward(c, 2)

GuardSteps == PortEnds \/ GuardEnds \/ GuardRelay \/ GuardDown
=============================================================================
