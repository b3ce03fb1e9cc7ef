-------------------------- MODULE DeliveryOptions --------------------------
(* The options of `delivery: :pull` that every part of a session relies on. *)
EXTENDS Naturals

CONSTANTS
  Streams,     \* stdout and stderr, or stdout alone for a pty
  MaxLine,     \* max_line_bytes
  MaxPending   \* max_pending_bytes

\* validate_delivery_opts: positive options, ":max_pending_bytes must exceed
\* :max_line_bytes".
ASSUME WindowAssumption ==
  MaxLine \in Nat /\ MaxPending \in Nat /\ MaxPending > MaxLine
=============================================================================
