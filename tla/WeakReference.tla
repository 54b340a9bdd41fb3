--------------------------- MODULE WeakReference ---------------------------
(***************************************************************************)
(* What util/refcount.h promises about an object with weak references: the *)
(* object lives as long as somebody holds a strong reference and never     *)
(* again after that; whoever asks for it gets it as long as it lives, and  *)
(* learns that it is gone only when it is; callbacks are called when it is *)
(* gone, none twice.                                                       *)
(***************************************************************************)
EXTENDS Sequences, Functions

CONSTANT Clients

VARIABLES
  strong,   \* the clients that hold a strong reference
  alive,
  missed,   \* the clients who asked for the object last and did not get it
  called    \* the calls of callbacks, in their order

vars == <<strong, alive, missed, called>>

Init == /\ \E c \in Clients : strong = {c}
        /\ alive = TRUE
        /\ missed = {}
        /\ called = <<>>

Share(c, d) == /\ c \in strong
               /\ strong' = strong \cup {d}
               /\ UNCHANGED <<alive, missed, called>>

Drop(c) == /\ c \in strong
           /\ strong' = strong \ {c}
           /\ alive' = (strong' # {})
           /\ UNCHANGED <<missed, called>>

Find(c) == /\ alive
           /\ strong' = strong \cup {c}
           /\ missed' = missed \ {c}
           /\ UNCHANGED <<alive, called>>

Miss(c) == /\ ~alive
           /\ missed' = missed \cup {c}
           /\ UNCHANGED <<strong, alive, called>>

(* A callback that was called before is not called again. *)
Call == /\ ~alive
        /\ \E i \in Range(called') \ Range(called) : called' = Append(called, i)
        /\ UNCHANGED <<strong, alive, missed>>

Next == \/ \E c, d \in Clients : Share(c, d)
        \/ \E c \in Clients : Drop(c) \/ Find(c) \/ Miss(c)
        \/ Call

Spec == Init /\ [][Next]_vars
=============================================================================
