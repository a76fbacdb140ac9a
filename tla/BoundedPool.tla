----------------------------- MODULE BoundedPool -----------------------------
(***************************************************************************)
(* What the rest of the program takes a connection pool to be: at most Size *)
(* tasks hold one of its connections, and a task that wants one waits.     *)
(* The chat endpoint (module GovernedChat: HasRoom, Acquire, Release) is    *)
(* written against this, once per database.                                *)
(***************************************************************************)
EXTENDS Naturals, FiniteSets

CONSTANTS Tasks, Size

VARIABLE holders   \* the tasks that hold a connection

Init == holders = {}

Take(t) ==
  /\ t \notin holders
  /\ Cardinality(holders) < Size
  /\ holders' = holders \union {t}

Give(t) ==
  /\ t \in holders
  /\ holders' = holders \ {t}

Next == \E t \in Tasks : Take(t) \/ Give(t)

Spec == Init /\ [][Next]_holders

=============================================================================
