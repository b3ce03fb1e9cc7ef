---------------------------- MODULE OrderedInput ----------------------------
(***************************************************************************)
(* What a duplex session promises the callers of send_line and send_eof,   *)
(* and nothing about how: what is sent keeps the order the session took it *)
(* in, an answer tells the truth about the frame, once and for all, and    *)
(* nothing follows the end of the input.                                   *)
(***************************************************************************)
EXTENDS Naturals, Sequences, SequencesExt

CONSTANTS
  Sends \* the calls of send_line and send_eof

VARIABLES
  kind,    \* "line" or "eof"
  answer,  \* what each call returned, or "none"
  waiting, \* calls the session took and has not answered, in order
  sent     \* calls whose frame the port took, in order

vars == <<kind, answer, waiting, sent>>

Init ==
  /\ kind \in [Sends -> {"line", "eof"}]
  /\ answer = [c \in Sends |-> "none"] /\ waiting = <<>> /\ sent = <<>>

Ended == \E i \in DOMAIN sent : kind[sent[i]] = "eof"
New(c) == answer[c] = "none" /\ ~Contains(waiting, c)

\* A call is sent at once only when none waits.
SendNew(c) ==
  /\ New(c) /\ waiting = <<>> /\ ~Ended
  /\ sent' = Append(sent, c) /\ answer' = [answer EXCEPT ![c] = "ok"]
  /\ UNCHANGED <<kind, waiting>>

\* The first of those that wait, up to an EOF.
SendWaiting(k) ==
  /\ ~Ended /\ \A i \in 1..(k - 1) : kind[waiting[i]] = "line"
  /\ sent' = sent \o SubSeq(waiting, 1, k)
  /\ waiting' = SubSeq(waiting, k + 1, Len(waiting))
  /\ answer' = [c \in Sends |-> IF Contains(SubSeq(waiting, 1, k), c) THEN "ok" ELSE answer[c]]
  /\ UNCHANGED kind

Queue(c) ==
  /\ New(c) /\ waiting' = Append(waiting, c)
  /\ UNCHANGED <<kind, answer, sent>>

Expire(c) ==
  /\ \E i \in DOMAIN waiting : waiting[i] = c /\ waiting' = RemoveAt(waiting, i)
  /\ answer' = [answer EXCEPT ![c] = "busy"]
  /\ UNCHANGED <<kind, sent>>

Refuse(c) ==
  /\ New(c) /\ answer' = [answer EXCEPT ![c] = "closed"]
  /\ UNCHANGED <<kind, waiting, sent>>

\* The session is over for everybody who waits.
Close ==
  /\ waiting # <<>> /\ waiting' = <<>>
  /\ answer' = [c \in Sends |-> IF Contains(waiting, c) THEN "closed" ELSE answer[c]]
  /\ UNCHANGED <<kind, sent>>

Next ==
  \/ Close \/ \E k \in 1..Len(waiting) : SendWaiting(k)
  \/ \E c \in Sends : SendNew(c) \/ Queue(c) \/ Expire(c) \/ Refuse(c)

Spec == Init /\ [][Next]_vars
=============================================================================
