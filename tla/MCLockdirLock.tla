---------------------------- MODULE MCLockdirLock ----------------------------
(* The worlds a few processes and a cleaner are checked in.                *)
EXTENDS CifsLock, TLC

CONSTANTS p1, p2, p3, cl

OneHost == [a \in Actors |-> "here"]
TwoHosts == [a \in Actors |-> IF a = p1 THEN "there" ELSE "here"]
OneUser == [a \in Actors |-> "alice"]
World(who, host, user, mortal, exits, stalls) ==
  [strategy |-> "lockdir", actors |-> who, host |-> host, user |-> user, mortal |-> mortal,
   exits |-> exits, stalls |-> stalls]

\* Three processes that neither die nor exit.
Calm == World({p1, p2, p3}, OneHost, OneUser, {}, FALSE, FALSE)
\* One waiter; either process may be killed or exit.
Pair == World({p1, p2}, OneHost, OneUser, {p1, p2}, TRUE, FALSE)
\* A pair that may stall.
Slow == World({p1, p2}, OneHost, OneUser, {p1}, TRUE, TRUE)
\* A holder that may die on another host, and a cleaner.
Remote == World({p1, p2, cl}, TwoHosts, OneUser, {p1}, FALSE, FALSE)

\* ct-cleanup-locks does not look at the files of a CIFSLock, which gives up on a
\* holder that died on another host.
Cifs(world0) == [world0 EXCEPT !.strategy = "cifs"]

Ordinary == {Calm, Pair, Slow, Remote} \cup {Cifs(w) : w \in {Calm, Pair, Slow}}
==============================================================================
