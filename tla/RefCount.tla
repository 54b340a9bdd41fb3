------------------------------ MODULE RefCount ------------------------------
(***************************************************************************)
(* RefCounted, WeakRefCounted and WeakPtr of util/refcount.h: one object,  *)
(* and clients on threads of their own, each with at most one strong       *)
(* reference (a RefCountPtr) and one WeakPtr to it.  A thread with more of *)
(* them does what several clients do, in fewer orders.                     *)
(*                                                                         *)
(* A step is one atomic operation on ref_, or what is done between two of  *)
(* them, or what is done with the mutex held, if it is held for one step.  *)
(* Operations on one atomic are taken in one order that all threads see.   *)
(***************************************************************************)
EXTENDS Naturals, FiniteSets, Sequences, Functions

CONSTANTS
  Clients,
  Nobody,
  MaxNotifiers   \* the number of callbacks registered, at most

ASSUME ClientsAssumption ==
  IsFiniteSet(Clients) /\ Nobody \notin Clients /\ MaxNotifiers \in Nat

VARIABLES
  ref,                \* RefCounted::ref_ of the object
  freed,              \* its memory is
  data_ref,           \* RefCounted::ref_ of its WeakRefData
  data_freed,
  mu,                 \* the client that has locked WeakRefData::mu
  ptr,                \* WeakRefData::ptr is not nullptr
  notifiers, next_notifier_id,
  pc,                 \* what a client does next, or is within
  strong,             \* the clients with a strong reference
  weak,               \* the WeakPtr of a client: [data, id]
  from,               \* the client whose WeakPtr is moved to a client's
  old_ref,            \* the local of TryRef, 0 outside it
  fn,                 \* notify_fn in Notify, 0 outside it
  missed,             \* the clients whose last GetNewRef gave nullptr
  called              \* the calls of notifiers, in their order

object == <<ref, freed>>
data   == <<data_ref, data_freed, mu, ptr, notifiers, next_notifier_id>>
locals == <<from, old_ref, fn>>
vars   == <<ref, freed, data_ref, data_freed, mu, ptr, notifiers,
            next_notifier_id, pc, strong, weak, from, old_ref, fn, missed,
            called>>

NoWeak == [data |-> FALSE, id |-> 0]

Init == /\ ref = 1 /\ freed = FALSE
        /\ data_ref = 1 /\ data_freed = FALSE
        /\ mu = Nobody /\ ptr = TRUE
        /\ notifiers = {} /\ next_notifier_id = 1
        /\ pc = [c \in Clients |-> "idle"]
        /\ \E c \in Clients : strong = {c}
        /\ weak = [c \in Clients |-> NoWeak]
        /\ from = [c \in Clients |-> Nobody]
        /\ old_ref = [c \in Clients |-> 0]
        /\ fn = 0
        /\ missed = {} /\ called = <<>>

Goes(c, to) == pc' = [pc EXCEPT ![c] = to]
Idle(c)     == pc[c] = "idle"

-----------------------------------------------------------------------------
(* Strong references.                                                      *)

(* Ref: a client passes a reference on. *)
Ref(c, d) ==
  /\ Idle(c) /\ c \in strong
  /\ Idle(d) /\ d \notin strong
  /\ ref' = ref + 1
  /\ strong' = strong \cup {d}
  /\ UNCHANGED <<freed, data, pc, weak, locals, missed, called>>

(* Unref: whoever takes the count to zero goes on to delete the object.    *)
Unref(c) ==
  /\ Idle(c) /\ c \in strong
  /\ ref' = ref - 1
  /\ strong' = strong \ {c}
  /\ IF ref = 1 THEN Goes(c, "lock") ELSE UNCHANGED pc
  /\ UNCHANGED <<freed, data, weak, locals, missed, called>>

-----------------------------------------------------------------------------
(* The destructor of WeakRefCounted.                                       *)

(* Notify locks the mutex, and again after each callback. *)
Lock(c) ==
  /\ pc[c] = "lock" /\ mu = Nobody
  /\ mu' = c
  /\ Goes(c, "notify")
  /\ UNCHANGED <<object, data_ref, data_freed, ptr, notifiers,
                 next_notifier_id, strong, weak, locals, missed, called>>

(* Mutant: the callback stays in the map. *)
NotifyNextAgain(c) ==
  /\ pc[c] = "notify"
  /\ \E i \in notifiers :
       /\ \A j \in notifiers : i <= j
       /\ fn' = i
  /\ mu' = Nobody
  /\ Goes(c, "call")
  /\ UNCHANGED <<object, data_ref, data_freed, ptr, notifiers,
                 next_notifier_id, strong, weak, from, old_ref, missed, called>>

(* The next callback leaves the map before it is called, unlocked.         *)
NotifyNext(c) ==
  /\ pc[c] = "notify"
  /\ \E i \in notifiers :
       /\ \A j \in notifiers : i <= j
       /\ fn' = i
       /\ notifiers' = notifiers \ {i}
  /\ mu' = Nobody
  /\ Goes(c, "call")
  /\ UNCHANGED <<object, data_ref, data_freed, ptr, next_notifier_id, strong,
                 weak, from, old_ref, missed, called>>

Call(c) ==
  /\ pc[c] = "call"
  /\ called' = Append(called, fn)
  /\ fn' = 0
  /\ Goes(c, "lock")
  /\ UNCHANGED <<object, data, strong, weak, from, old_ref, missed>>

(* Mutant: an if for the while. *)
NotifyEndAfterOne(c) ==
  /\ pc[c] = "notify" /\ (notifiers = {} \/ called # <<>>)
  /\ ptr' = FALSE
  /\ mu' = Nobody
  /\ Goes(c, "drop_data")
  /\ UNCHANGED <<object, data_ref, data_freed, notifiers, next_notifier_id,
                 strong, weak, locals, missed, called>>

NotifyEnd(c) ==
  /\ pc[c] = "notify" /\ notifiers = {}
  /\ ptr' = FALSE
  /\ mu' = Nobody
  /\ Goes(c, "drop_data")
  /\ UNCHANGED <<object, data_ref, data_freed, notifiers, next_notifier_id,
                 strong, weak, locals, missed, called>>

(* Unref of the WeakRefData. *)
UnrefData == /\ data_ref' = data_ref - 1
             /\ data_freed' = (data_ref = 1)
             /\ UNCHANGED <<mu, ptr, notifiers, next_notifier_id>>

DropData(c) ==
  /\ pc[c] = "drop_data"
  /\ UnrefData
  /\ Goes(c, "delete")
  /\ UNCHANGED <<object, strong, weak, locals, missed, called>>

Delete(c) ==
  /\ pc[c] = "delete"
  /\ freed' = TRUE
  /\ Goes(c, "idle")
  /\ UNCHANGED <<ref, data, strong, weak, locals, missed, called>>

-----------------------------------------------------------------------------
(* WeakPtr.                                                                *)

(* The constructor, called with a strong reference in hand, and with a     *)
(* callback or not.                                                        *)
MakeWeak(c, notify) ==
  /\ Idle(c) /\ c \in strong /\ ~weak[c].data
  /\ notify => next_notifier_id + Cardinality({d \in Clients : pc[d] = "add"})
                 <= MaxNotifiers
  /\ data_ref' = data_ref + 1
  /\ weak' = [weak EXCEPT ![c] = [data |-> TRUE, id |-> 0]]
  /\ IF notify THEN Goes(c, "add") ELSE UNCHANGED pc
  /\ UNCHANGED <<object, data_freed, mu, ptr, notifiers, next_notifier_id,
                 strong, locals, missed, called>>

AddNotifier(c) ==
  /\ pc[c] = "add" /\ mu = Nobody
  /\ IF ptr
     THEN /\ weak' = [weak EXCEPT ![c].id = next_notifier_id]
          /\ notifiers' = notifiers \cup {next_notifier_id}
          /\ next_notifier_id' = next_notifier_id + 1
     ELSE UNCHANGED <<weak, notifiers, next_notifier_id>>
  /\ Goes(c, "idle")
  /\ UNCHANGED <<object, data_ref, data_freed, mu, ptr, strong, locals, missed,
                 called>>

(* The destructor gives up the callback, then the data. *)
Release(c) == Goes(c, IF weak[c].id # 0 THEN "remove" ELSE "unref_data")

DropWeak(c) ==
  /\ Idle(c) /\ weak[c].data
  /\ Release(c)
  /\ UNCHANGED <<object, data, strong, weak, locals, missed, called>>

(* The move constructor, and assignment to a WeakPtr to nothing. *)
MoveWeak(c, d) ==
  /\ Idle(c) /\ weak[c].data
  /\ Idle(d) /\ ~weak[d].data
  /\ weak' = [weak EXCEPT ![c] = NoWeak, ![d] = weak[c]]
  /\ UNCHANGED <<object, data, pc, strong, locals, missed, called>>

(* Move assignment: what d has is released first. *)
MoveAssignWeak(c, d) ==
  /\ c # d
  /\ Idle(c) /\ weak[c].data
  /\ Idle(d) /\ weak[d].data
  /\ from' = [from EXCEPT ![d] = c]
  /\ pc' = [pc EXCEPT ![c] = "moved",
                      ![d] = IF weak[d].id # 0 THEN "remove" ELSE "unref_data"]
  /\ UNCHANGED <<object, data, strong, weak, old_ref, fn, missed, called>>

RemoveNotifier(c) ==
  /\ pc[c] = "remove" /\ mu = Nobody
  /\ notifiers' = notifiers \ {weak[c].id}
  /\ Goes(c, "unref_data")
  /\ UNCHANGED <<object, data_ref, data_freed, mu, ptr, next_notifier_id,
                 strong, weak, locals, missed, called>>

(* Mutant: a WeakPtr moved from keeps what it had. *)
UnrefWeakCopying(c) ==
  /\ pc[c] = "unref_data"
  /\ UnrefData
  /\ IF from[c] = Nobody
     THEN /\ weak' = [weak EXCEPT ![c] = NoWeak]
          /\ Goes(c, "idle")
     ELSE /\ weak' = [weak EXCEPT ![c] = weak[from[c]]]
          /\ pc' = [pc EXCEPT ![c] = "idle", ![from[c]] = "idle"]
  /\ from' = [from EXCEPT ![c] = Nobody]
  /\ UNCHANGED <<object, strong, old_ref, fn, missed, called>>

UnrefWeak(c) ==
  /\ pc[c] = "unref_data"
  /\ UnrefData
  /\ IF from[c] = Nobody
     THEN /\ weak' = [weak EXCEPT ![c] = NoWeak]
          /\ Goes(c, "idle")
     ELSE /\ weak' = [weak EXCEPT ![c] = weak[from[c]], ![from[c]] = NoWeak]
          /\ pc' = [pc EXCEPT ![c] = "idle", ![from[c]] = "idle"]
  /\ from' = [from EXCEPT ![c] = Nobody]
  /\ UNCHANGED <<object, strong, old_ref, fn, missed, called>>

-----------------------------------------------------------------------------
(* GetNewRef, on a WeakPtr.                                                *)

GetNewRef(c) ==
  /\ Idle(c) /\ weak[c].data /\ c \notin strong
  /\ Goes(c, "get")
  /\ UNCHANGED <<object, data, strong, weak, locals, missed, called>>

(* nullptr is returned. *)
ReturnNull(c) == /\ missed' = missed \cup {c}
                 /\ Goes(c, "idle")

(* Mutant: the pointer is not looked at. *)
PtrIsTaken == TRUE

PtrIsValid == ptr

LockData(c) ==
  /\ pc[c] = "get" /\ mu = Nobody
  /\ IF PtrIsValid
     THEN mu' = c /\ Goes(c, "load") /\ UNCHANGED missed
     ELSE ReturnNull(c) /\ UNCHANGED mu
  /\ UNCHANGED <<object, data_ref, data_freed, ptr, notifiers,
                 next_notifier_id, strong, weak, locals, called>>

(* Mutant: the mutex stays locked. *)
TrySeeLocked(c, n) ==
  IF n = 0 THEN ReturnNull(c) /\ UNCHANGED mu
  ELSE Goes(c, "cas") /\ UNCHANGED <<mu, missed>>

(* TryRef has seen n; at zero it gives up. *)
TrySee(c, n) ==
  IF n = 0 THEN ReturnNull(c) /\ mu' = Nobody
  ELSE Goes(c, "cas") /\ UNCHANGED <<mu, missed>>

TryRef(c) ==
  /\ pc[c] = "load"
  /\ old_ref' = [old_ref EXCEPT ![c] = ref]
  /\ TrySee(c, ref)
  /\ UNCHANGED <<object, data_ref, data_freed, ptr, notifiers,
                 next_notifier_id, strong, weak, from, fn, called>>

CanExchange(c) == ref = old_ref[c]

Exchange(c) ==
  /\ pc[c] = "cas" /\ CanExchange(c)
  /\ ref' = old_ref[c] + 1
  /\ strong' = strong \cup {c}
  /\ missed' = missed \ {c}
  /\ mu' = Nobody
  /\ old_ref' = [old_ref EXCEPT ![c] = 0]
  /\ Goes(c, "idle")
  /\ UNCHANGED <<freed, data_ref, data_freed, ptr, notifiers,
                 next_notifier_id, weak, from, fn, called>>

(* The exchange fails, also for no reason (it is a weak one).              *)
ExchangeFails(c) ==
  /\ pc[c] = "cas"
  /\ old_ref' = [old_ref EXCEPT ![c] = ref]
  /\ TrySee(c, ref)
  /\ UNCHANGED <<object, data_ref, data_freed, ptr, notifiers,
                 next_notifier_id, strong, weak, from, fn, called>>

-----------------------------------------------------------------------------
Destroy(c) ==
  Lock(c) \/ NotifyNext(c) \/ Call(c) \/ NotifyEnd(c) \/ DropData(c) \/ Delete(c)

Next == \/ \E c, d \in Clients : Ref(c, d) \/ MoveWeak(c, d) \/ MoveAssignWeak(c, d)
        \/ \E c \in Clients, notify \in BOOLEAN : MakeWeak(c, notify)
        \/ \E c \in Clients :
             \/ Unref(c) \/ Destroy(c)
             \/ AddNotifier(c) \/ DropWeak(c) \/ RemoveNotifier(c) \/ UnrefWeak(c)
             \/ GetNewRef(c) \/ LockData(c) \/ TryRef(c)
             \/ Exchange(c) \/ ExchangeFails(c)

(* A thread goes on with what it does, once it is within it; the mutex     *)
(* lets everyone in that waits for it long enough.                         *)
Spec == /\ Init /\ [][Next]_vars
        /\ \A c \in Clients :
             /\ WF_vars(Destroy(c)) /\ SF_vars(Lock(c))
             /\ WF_vars(TryRef(c) \/ ExchangeFails(c))

-----------------------------------------------------------------------------
(* Properties.                                                             *)

Notifying  == {"lock", "notify", "call", "drop_data"}
Destroying == Notifying \cup {"delete"}

Calls == Seq(Nat)

TypeOK ==
  /\ ref \in Nat /\ freed \in BOOLEAN
  /\ data_ref \in Nat /\ data_freed \in BOOLEAN
  /\ mu \in Clients \cup {Nobody} /\ ptr \in BOOLEAN
  /\ next_notifier_id \in Nat \ {0}
  /\ notifiers \subseteq 1..next_notifier_id - 1
  /\ pc \in [Clients -> Destroying \cup
                 {"idle", "add", "moved", "remove", "unref_data", "get", "load",
                  "cas"}]
  /\ strong \subseteq Clients
  /\ weak \in [Clients -> [data : BOOLEAN, id : Nat]]
  /\ from \in [Clients -> Clients \cup {Nobody}]
  /\ old_ref \in [Clients -> Nat]
  /\ fn \in Nat
  /\ missed \subseteq Clients
  /\ called \in Calls

(* Both counts are those of the references there are: one of the data for  *)
(* each WeakPtr, and one for the object until it drops its own (Ref, Unref,*)
(* TryRef, the moves of WeakPtr).                                          *)
Holders    == {c \in Clients : weak[c].data}
ObjectHolds == ~freed /\ \A c \in Clients : pc[c] # "delete"

CountsExact ==
  /\ ref = Cardinality(strong)
  /\ data_ref = Cardinality(Holders) + (IF ObjectHolds THEN 1 ELSE 0)

(* Nobody uses what was deleted: the object, with a reference or to get    *)
(* one, and the data, through a WeakPtr or from the destructor; and the    *)
(* object is not resurrected before it is deleted (~RefCounted).           *)
NoUseAfterFree ==
  /\ strong # {} => ~freed /\ \A c \in Clients : pc[c] \notin Destroying
  /\ \A c \in Clients : pc[c] \in {"load", "cas"} => ~freed
  /\ \A c \in Clients : weak[c].data \/ pc[c] \in Notifying => ~data_freed

(* When the object is gone, the callback of every WeakPtr there still is   *)
(* was called, but of those that have just taken it back (WeakNotifyFn,    *)
(* Notify, RemoveNotifier).                                                *)
AllNotified ==
  ~ptr => \A c \in Clients :
            weak[c].id # 0 /\ pc[c] # "unref_data" => weak[c].id \in Range(called)

(* A lookup gets the object exactly as long as somebody has it, and        *)
(* callbacks are called when it is lost to all, none of them twice         *)
(* (GetNewRef, Notify).                                                    *)
Weak == INSTANCE WeakReference WITH alive <- ref # 0

ImplementsWeakReference == Weak!Spec

(* An object nobody has is deleted, whatever WeakPtrs do meanwhile.        *)
ObjectFreed == ref = 0 ~> freed
=============================================================================
