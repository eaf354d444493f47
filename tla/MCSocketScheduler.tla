-------------------------- MODULE MCSocketScheduler --------------------------
(* Small instances of the scheduler: the request sets and limits of the runs. *)
EXTENDS SocketScheduler

CONSTANTS r1, r2, k1, s1

Direct(id, class, payload, deadline) ==
  [transport |-> "direct", class |-> class, id |-> id, key |-> NoKey,
   payload |-> payload, session |-> NoSession, deadline |-> deadline, bytes |-> 1]

Tunnel(id, class, key, session, deadline) ==
  [transport |-> "tunnel", class |-> class, id |-> id, key |-> key,
   payload |-> "x", session |-> session, deadline |-> deadline, bytes |-> 1]

MCPayloads == {"x", "y"}

\* One direct id reused for another, malformed, command; the same two ids on the
\* tunnel, where they share an idempotency key or do without.  The clock stops
\* at 1: what has deadline 1 expires, and the interactive load of both transports
\* goes on for ever.
MixedEnvelopes ==
  {Direct(r1, "interactive", "x", 2), Direct(r2, "bulk", "x", 1),
   Direct(r1, "interactive", "y", 1),
   Tunnel(r1, "interactive", k1, s1, 2), Tunnel(r2, "bulk", k1, s1, 1),
   Tunnel(r2, "bulk", NoKey, s1, 1)}

MixedMalformed == {Direct(r1, "interactive", "y", 1)}

Both(n) == [t \in Transports |-> n]

Lanes(n) == [t \in Transports |-> [c \in Classes |-> n]]

MCTransport == Both(2)
MCLane == [Lanes(1) EXCEPT !["tunnel"].interactive = 2]
MCRetention == [direct |-> 1, tunnel |-> 2]
=============================================================================
