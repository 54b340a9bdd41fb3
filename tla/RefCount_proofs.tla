--------------------------- MODULE RefCount_proofs ---------------------------
(***************************************************************************)
(* Proofs about RefCount, for any finite set of clients and any number of  *)
(* callbacks.                                                              *)
(***************************************************************************)
EXTENDS RefCount, FiniteSetTheorems, SequenceTheorems, TLAPS

(* The mutex is held between the steps of those who have it over several.  *)
Locked == \A c \in Clients : mu = c <=> pc[c] \in {"notify", "load", "cas"}

(* The count reaches zero once, and whoever took it there destroys the     *)
(* object alone.                                                           *)
OneDestroyer ==
  /\ \A c, d \in Clients :
       pc[c] \in Destroying /\ pc[d] \in Destroying => c = d
  /\ \A c \in Clients : pc[c] \in Destroying => ref = 0 /\ ~freed
  /\ ref = 0 => freed \/ \E c \in Clients : pc[c] \in Destroying
  /\ freed => ref = 0 /\ ~ptr
  /\ \A c \in Clients : pc[c] \in {"drop_data", "delete"} => ~ptr
  /\ ~ptr => freed \/ \E c \in Clients : pc[c] \in {"drop_data", "delete"}

(* What a client within an operation has. *)
Within ==
  \A c \in Clients :
    /\ c \in strong => pc[c] \in {"idle", "add", "moved", "remove", "unref_data"}
    /\ pc[c] \in {"add", "moved", "remove", "unref_data", "get", "load", "cas"}
         => weak[c].data
    /\ pc[c] = "add" => c \in strong /\ weak[c].id = 0
    /\ pc[c] \in {"load", "cas"} => ptr
    /\ pc[c] = "cas" => old_ref[c] # 0
    /\ weak[c].id # 0 => weak[c].data

(* A WeakPtr is moved from by one other, which waits for nothing else.     *)
Moving ==
  /\ \A c \in Clients :
       from[c] # Nobody => /\ pc[c] \in {"remove", "unref_data"}
                           /\ from[c] \in Clients /\ pc[from[c]] = "moved"
  /\ \A c, d \in Clients : from[c] = from[d] /\ from[c] # Nobody => c = d

(* The data is freed with its count. *)
DataFreed == data_freed <=> data_ref = 0

(* Every id is given once, and is in the map, called, or about to be.      *)
Ids ==
  /\ Range(called) \subseteq 1..next_notifier_id - 1
  /\ fn < next_notifier_id
  /\ fn # 0 <=> \E c \in Clients : pc[c] = "call"
  /\ notifiers \cap Range(called) = {} /\ fn \notin Range(called) \cup notifiers
  /\ ~ptr => notifiers = {}
  /\ \A c \in Clients :
       /\ weak[c].id < next_notifier_id
       /\ weak[c].id # 0 /\ pc[c] # "unref_data"
            => weak[c].id \in notifiers \cup Range(called) \cup {fn}
       /\ \A d \in Clients : weak[c].id = weak[d].id /\ weak[c].id # 0 => c = d

IInv == /\ TypeOK /\ CountsExact /\ DataFreed
        /\ Locked /\ OneDestroyer /\ Within /\ Moving /\ Ids
-----------------------------------------------------------------------------
(* Proofs.                                                                 *)

(* One call more. *)
LEMMA CalledNext ==
  ASSUME NEW s \in Calls, NEW i \in Nat
  PROVE  /\ Append(s, i) \in Calls
         /\ Range(Append(s, i)) = Range(s) \cup {i}
<1> DEFINE t == Append(s, i)
<1>1. /\ t \in Seq(Nat) /\ Len(s) \in Nat /\ Len(t) = Len(s) + 1
      /\ DOMAIN s = 1..Len(s) /\ DOMAIN t = 1..(Len(s) + 1)
      /\ t[Len(s) + 1] = i /\ \A k \in 1..Len(s) : t[k] = s[k]
  BY DEF Calls
<1> HIDE DEF t
<1>2. \A x \in Range(t) : x \in Range(s) \cup {i}
  BY <1>1 DEF Range
<1>3. \A x \in Range(s) \cup {i} : x \in Range(t)
  BY <1>1 DEF Range
<1> QED
  BY <1>1, <1>2, <1>3 DEF t, Calls

(* Both counts are zero only when nobody holds a reference (CountsExact).  *)
LEMMA Counted ==
  ASSUME TypeOK, CountsExact
  PROVE  /\ IsFiniteSet(strong) /\ IsFiniteSet(Holders)
         /\ ref = 0 <=> strong = {}
         /\ Holders # {} \/ ObjectHolds => data_ref # 0
<1>1. IsFiniteSet(strong) /\ IsFiniteSet(Holders)
  BY ClientsAssumption, FS_Subset DEF TypeOK, Holders
<1>2. Cardinality(Holders) \in Nat /\ (Holders # {} => Cardinality(Holders) # 0)
  BY <1>1, FS_CardinalityType, FS_EmptySet
<1>3. ref = 0 <=> strong = {}
  BY <1>1, FS_EmptySet DEF CountsExact
<1> QED
  BY <1>1, <1>2, <1>3 DEF CountsExact

(* The mutex is taken by one. *)
LEMMA LockedStep ==
  ASSUME TypeOK, Moving, Locked, [Next]_vars
  PROVE  Locked'
<1> USE ClientsAssumption DEF object, data, locals, Idle, Goes, NoWeak, TypeOK, Locked, Moving, Destroying, Notifying
<1>1. ASSUME NEW c \in Clients, NEW d \in Clients, Ref(c, d)
      PROVE  Locked'
  BY <1>1 DEF Ref
<1>2. ASSUME NEW c \in Clients, NEW d \in Clients, MoveWeak(c, d)
      PROVE  Locked'
  BY <1>2 DEF MoveWeak
<1>3. ASSUME NEW c \in Clients, NEW d \in Clients, MoveAssignWeak(c, d)
      PROVE  Locked'
  BY <1>3 DEF MoveAssignWeak
<1>4. ASSUME NEW c \in Clients, NEW notify \in BOOLEAN, MakeWeak(c, notify)
      PROVE  Locked'
  BY <1>4 DEF MakeWeak
<1>5. ASSUME NEW c \in Clients, Unref(c)
      PROVE  Locked'
  BY <1>5 DEF Unref
<1>6. ASSUME NEW c \in Clients, Lock(c)
      PROVE  Locked'
  BY <1>6 DEF Lock
<1>7. ASSUME NEW c \in Clients, NotifyNext(c)
      PROVE  Locked'
  BY <1>7 DEF NotifyNext
<1>8. ASSUME NEW c \in Clients, Call(c)
      PROVE  Locked'
  BY <1>8 DEF Call
<1>9. ASSUME NEW c \in Clients, NotifyEnd(c)
      PROVE  Locked'
  BY <1>9 DEF NotifyEnd
<1>10. ASSUME NEW c \in Clients, DropData(c)
      PROVE  Locked'
  BY <1>10 DEF DropData, UnrefData
<1>11. ASSUME NEW c \in Clients, Delete(c)
      PROVE  Locked'
  BY <1>11 DEF Delete
<1>12. ASSUME NEW c \in Clients, AddNotifier(c)
      PROVE  Locked'
  BY <1>12 DEF AddNotifier
<1>13. ASSUME NEW c \in Clients, DropWeak(c)
      PROVE  Locked'
  BY <1>13 DEF DropWeak, Release
<1>14. ASSUME NEW c \in Clients, RemoveNotifier(c)
      PROVE  Locked'
  BY <1>14 DEF RemoveNotifier
<1>15. ASSUME NEW c \in Clients, UnrefWeak(c)
      PROVE  Locked'
  <2>1. CASE from[c] = Nobody
    BY <1>15, <2>1 DEF UnrefWeak, UnrefData
  <2>2. CASE from[c] # Nobody
    BY <1>15, <2>2 DEF UnrefWeak, UnrefData
  <2> QED
    BY <2>1, <2>2
<1>16. ASSUME NEW c \in Clients, GetNewRef(c)
      PROVE  Locked'
  BY <1>16 DEF GetNewRef
<1>17. ASSUME NEW c \in Clients, LockData(c)
      PROVE  Locked'
  BY <1>17 DEF LockData, PtrIsValid, ReturnNull
<1>18. ASSUME NEW c \in Clients, TryRef(c)
      PROVE  Locked'
  BY <1>18 DEF TryRef, TrySee, ReturnNull
<1>19. ASSUME NEW c \in Clients, Exchange(c)
      PROVE  Locked'
  BY <1>19 DEF Exchange, CanExchange
<1>20. ASSUME NEW c \in Clients, ExchangeFails(c)
      PROVE  Locked'
  BY <1>20 DEF ExchangeFails, TrySee, ReturnNull
<1>21. CASE UNCHANGED vars
  BY <1>21 DEF vars
<1> HIDE DEF object, data, locals, Idle, Goes, NoWeak, TypeOK, Locked, Moving, Destroying, Notifying
<1> QED
  BY <1>1, <1>2, <1>3, <1>4, <1>5, <1>6, <1>7, <1>8, <1>9, <1>10, <1>11, <1>12, <1>13, <1>14, <1>15, <1>16, <1>17, <1>18, <1>19, <1>20, <1>21 DEF Next, Destroy

(* Nobody destroys the object again, and it dies with its count. *)
LEMMA DyingStep ==
  ASSUME TypeOK, CountsExact, Locked, Within, Moving, OneDestroyer, [Next]_vars
  PROVE  OneDestroyer'
<1> USE ClientsAssumption DEF object, data, locals, Idle, Goes, NoWeak, TypeOK, Locked, Within, Moving, OneDestroyer, Destroying, Notifying
<1>0. ref = 0 <=> strong = {}
  BY Counted
<1>1. ASSUME NEW c \in Clients, NEW d \in Clients, Ref(c, d)
      PROVE  OneDestroyer'
  BY <1>1, <1>0 DEF Ref
<1>2. ASSUME NEW c \in Clients, NEW d \in Clients, MoveWeak(c, d)
      PROVE  OneDestroyer'
  BY <1>2, <1>0 DEF MoveWeak
<1>3. ASSUME NEW c \in Clients, NEW d \in Clients, MoveAssignWeak(c, d)
      PROVE  OneDestroyer'
  <2>1. UNCHANGED <<ref, freed, ptr>> /\ pc \in [Clients -> Destroying \cup
            {"idle", "add", "moved", "remove", "unref_data", "get", "load", "cas"}]
    BY <1>3 DEF MoveAssignWeak
  <2>2. \A x \in Clients : \/ pc'[x] = pc[x]
                         \/ /\ pc[x] = "idle"
                            /\ pc'[x] \in {"moved", "remove", "unref_data"}
    BY <1>3, <2>1 DEF MoveAssignWeak
  <2> QED
    BY <2>1, <2>2
<1>4. ASSUME NEW c \in Clients, NEW notify \in BOOLEAN, MakeWeak(c, notify)
      PROVE  OneDestroyer'
  BY <1>4, <1>0 DEF MakeWeak
<1>5. ASSUME NEW c \in Clients, Unref(c)
      PROVE  OneDestroyer'
  BY <1>5, <1>0 DEF Unref
<1>6. ASSUME NEW c \in Clients, Lock(c)
      PROVE  OneDestroyer'
  BY <1>6, <1>0 DEF Lock
<1>7. ASSUME NEW c \in Clients, NotifyNext(c)
      PROVE  OneDestroyer'
  BY <1>7, <1>0 DEF NotifyNext
<1>8. ASSUME NEW c \in Clients, Call(c)
      PROVE  OneDestroyer'
  BY <1>8, <1>0 DEF Call
<1>9. ASSUME NEW c \in Clients, NotifyEnd(c)
      PROVE  OneDestroyer'
  BY <1>9, <1>0 DEF NotifyEnd
<1>10. ASSUME NEW c \in Clients, DropData(c)
      PROVE  OneDestroyer'
  BY <1>10, <1>0 DEF DropData, UnrefData
<1>11. ASSUME NEW c \in Clients, Delete(c)
      PROVE  OneDestroyer'
  BY <1>11, <1>0 DEF Delete
<1>12. ASSUME NEW c \in Clients, AddNotifier(c)
      PROVE  OneDestroyer'
  BY <1>12, <1>0 DEF AddNotifier
<1>13. ASSUME NEW c \in Clients, DropWeak(c)
      PROVE  OneDestroyer'
  BY <1>13, <1>0 DEF DropWeak, Release
<1>14. ASSUME NEW c \in Clients, RemoveNotifier(c)
      PROVE  OneDestroyer'
  BY <1>14, <1>0 DEF RemoveNotifier
<1>15. ASSUME NEW c \in Clients, UnrefWeak(c)
      PROVE  OneDestroyer'
  <2>1. \A x \in Clients : pc'[x] = IF x = c \/ x = from[c] THEN "idle" ELSE pc[x]
    BY <1>15 DEF UnrefWeak, UnrefData
  <2>2. pc[c] = "unref_data" /\ (from[c] \in Clients => pc[from[c]] = "moved")
    BY <1>15 DEF UnrefWeak
  <2>3. \A x \in Clients, S \in {Destroying, {"drop_data", "delete"}} :
          pc'[x] \in S <=> pc[x] \in S
    BY <2>1, <2>2
  <2>4. UNCHANGED <<ref, freed, ptr>>
    BY <1>15 DEF UnrefWeak, UnrefData
  <2> HIDE DEF Destroying
  <2> QED
    BY <2>3, <2>4
<1>16. ASSUME NEW c \in Clients, GetNewRef(c)
      PROVE  OneDestroyer'
  BY <1>16, <1>0 DEF GetNewRef
<1>17. ASSUME NEW c \in Clients, LockData(c)
      PROVE  OneDestroyer'
  BY <1>17, <1>0 DEF LockData, PtrIsValid, ReturnNull
<1>18. ASSUME NEW c \in Clients, TryRef(c)
      PROVE  OneDestroyer'
  BY <1>18, <1>0 DEF TryRef, TrySee, ReturnNull
<1>19. ASSUME NEW c \in Clients, Exchange(c)
      PROVE  OneDestroyer'
  BY <1>19, <1>0 DEF Exchange, CanExchange
<1>20. ASSUME NEW c \in Clients, ExchangeFails(c)
      PROVE  OneDestroyer'
  BY <1>20, <1>0 DEF ExchangeFails, TrySee, ReturnNull
<1>21. CASE UNCHANGED vars
  BY <1>21 DEF vars
<1> HIDE DEF object, data, locals, Idle, Goes, NoWeak, TypeOK, Locked, Within, Moving, OneDestroyer, Destroying, Notifying
<1> QED
  BY <1>1, <1>2, <1>3, <1>4, <1>5, <1>6, <1>7, <1>8, <1>9, <1>10, <1>11, <1>12, <1>13, <1>14, <1>15, <1>16, <1>17, <1>18, <1>19, <1>20, <1>21 DEF Next, Destroy

(* A client within an operation keeps what it has. *)
LEMMA WithinStep ==
  ASSUME TypeOK, Locked, OneDestroyer, Moving, Within, [Next]_vars
  PROVE  Within'
<1> USE ClientsAssumption DEF object, data, locals, Idle, Goes, NoWeak, TypeOK, Locked, Within, Moving, OneDestroyer, Destroying, Notifying
<1>1. ASSUME NEW c \in Clients, NEW d \in Clients, Ref(c, d)
      PROVE  Within'
  BY <1>1 DEF Ref
<1>2. ASSUME NEW c \in Clients, NEW d \in Clients, MoveWeak(c, d)
      PROVE  Within'
  BY <1>2 DEF MoveWeak
<1>3. ASSUME NEW c \in Clients, NEW d \in Clients, MoveAssignWeak(c, d)
      PROVE  Within'
  BY <1>3 DEF MoveAssignWeak
<1>4. ASSUME NEW c \in Clients, NEW notify \in BOOLEAN, MakeWeak(c, notify)
      PROVE  Within'
  BY <1>4 DEF MakeWeak
<1>5. ASSUME NEW c \in Clients, Unref(c)
      PROVE  Within'
  BY <1>5 DEF Unref
<1>6. ASSUME NEW c \in Clients, Lock(c)
      PROVE  Within'
  BY <1>6 DEF Lock
<1>7. ASSUME NEW c \in Clients, NotifyNext(c)
      PROVE  Within'
  BY <1>7 DEF NotifyNext
<1>8. ASSUME NEW c \in Clients, Call(c)
      PROVE  Within'
  BY <1>8 DEF Call
<1>9. ASSUME NEW c \in Clients, NotifyEnd(c)
      PROVE  Within'
  BY <1>9 DEF NotifyEnd
<1>10. ASSUME NEW c \in Clients, DropData(c)
      PROVE  Within'
  BY <1>10 DEF DropData, UnrefData
<1>11. ASSUME NEW c \in Clients, Delete(c)
      PROVE  Within'
  BY <1>11 DEF Delete
<1>12. ASSUME NEW c \in Clients, AddNotifier(c)
      PROVE  Within'
  <2>1. UNCHANGED <<strong, ptr, old_ref>> /\ pc' = [pc EXCEPT ![c] = "idle"]
    BY <1>12 DEF AddNotifier
  <2>2. weak[c].data
    BY <1>12 DEF AddNotifier
  <2>3. \A x \in Clients : /\ weak'[x].data = weak[x].data
                           /\ x # c => weak'[x].id = weak[x].id
    BY <1>12 DEF AddNotifier
  <2>4. \A x \in Clients : pc'[x] = IF x = c THEN "idle" ELSE pc[x]
    BY <2>1
  <2> HIDE DEF TypeOK, Locked, Moving, OneDestroyer, Destroying, Notifying
  <2>5. ASSUME NEW x \in Clients
        PROVE  /\ x \in strong
                    => pc'[x] \in {"idle", "add", "moved", "remove", "unref_data"}
               /\ pc'[x] \in {"add", "moved", "remove", "unref_data", "get", "load", "cas"}
                    => weak'[x].data
               /\ pc'[x] = "add" => x \in strong /\ weak'[x].id = 0
               /\ pc'[x] \in {"load", "cas"} => ptr
               /\ pc'[x] = "cas" => old_ref[x] # 0
               /\ weak'[x].id # 0 => weak'[x].data
    <3>1. CASE x = c
      BY <2>2, <2>3, <2>4, <3>1
    <3>2. CASE x # c
      <4>1. pc'[x] = pc[x] /\ weak'[x].data = weak[x].data /\ weak'[x].id = weak[x].id
        BY <2>3, <2>4, <3>2
      <4> QED
        BY <4>1
    <3> QED
      BY <3>1, <3>2
  <2> QED
    BY <2>1, <2>5
<1>13. ASSUME NEW c \in Clients, DropWeak(c)
      PROVE  Within'
  BY <1>13 DEF DropWeak, Release
<1>14. ASSUME NEW c \in Clients, RemoveNotifier(c)
      PROVE  Within'
  BY <1>14 DEF RemoveNotifier
<1>15. ASSUME NEW c \in Clients, UnrefWeak(c)
      PROVE  Within'
  BY <1>15 DEF UnrefWeak, UnrefData
<1>16. ASSUME NEW c \in Clients, GetNewRef(c)
      PROVE  Within'
  BY <1>16 DEF GetNewRef
<1>17. ASSUME NEW c \in Clients, LockData(c)
      PROVE  Within'
  BY <1>17 DEF LockData, PtrIsValid, ReturnNull
<1>18. ASSUME NEW c \in Clients, TryRef(c)
      PROVE  Within'
  BY <1>18 DEF TryRef, TrySee, ReturnNull
<1>19. ASSUME NEW c \in Clients, Exchange(c)
      PROVE  Within'
  BY <1>19 DEF Exchange, CanExchange
<1>20. ASSUME NEW c \in Clients, ExchangeFails(c)
      PROVE  Within'
  BY <1>20 DEF ExchangeFails, TrySee, ReturnNull
<1>21. CASE UNCHANGED vars
  BY <1>21 DEF vars
<1> HIDE DEF object, data, locals, Idle, Goes, NoWeak, TypeOK, Locked, Within, Moving, OneDestroyer, Destroying, Notifying
<1> QED
  BY <1>1, <1>2, <1>3, <1>4, <1>5, <1>6, <1>7, <1>8, <1>9, <1>10, <1>11, <1>12, <1>13, <1>14, <1>15, <1>16, <1>17, <1>18, <1>19, <1>20, <1>21 DEF Next, Destroy

(* Who is moved from stays there until it is. *)
LEMMA MovingStep ==
  ASSUME TypeOK, Moving, [Next]_vars
  PROVE  Moving'
<1> USE ClientsAssumption DEF object, data, locals, Idle, Goes, NoWeak, TypeOK, Moving, Destroying, Notifying
<1>1. ASSUME NEW c \in Clients, NEW d \in Clients, Ref(c, d)
      PROVE  Moving'
  BY <1>1 DEF Ref
<1>2. ASSUME NEW c \in Clients, NEW d \in Clients, MoveWeak(c, d)
      PROVE  Moving'
  BY <1>2 DEF MoveWeak
<1>3. ASSUME NEW c \in Clients, NEW d \in Clients, MoveAssignWeak(c, d)
      PROVE  Moving'
  BY <1>3 DEF MoveAssignWeak
<1>4. ASSUME NEW c \in Clients, NEW notify \in BOOLEAN, MakeWeak(c, notify)
      PROVE  Moving'
  BY <1>4 DEF MakeWeak
<1>5. ASSUME NEW c \in Clients, Unref(c)
      PROVE  Moving'
  BY <1>5 DEF Unref
<1>6. ASSUME NEW c \in Clients, Lock(c)
      PROVE  Moving'
  BY <1>6 DEF Lock
<1>7. ASSUME NEW c \in Clients, NotifyNext(c)
      PROVE  Moving'
  BY <1>7 DEF NotifyNext
<1>8. ASSUME NEW c \in Clients, Call(c)
      PROVE  Moving'
  BY <1>8 DEF Call
<1>9. ASSUME NEW c \in Clients, NotifyEnd(c)
      PROVE  Moving'
  BY <1>9 DEF NotifyEnd
<1>10. ASSUME NEW c \in Clients, DropData(c)
      PROVE  Moving'
  BY <1>10 DEF DropData, UnrefData
<1>11. ASSUME NEW c \in Clients, Delete(c)
      PROVE  Moving'
  BY <1>11 DEF Delete
<1>12. ASSUME NEW c \in Clients, AddNotifier(c)
      PROVE  Moving'
  BY <1>12 DEF AddNotifier
<1>13. ASSUME NEW c \in Clients, DropWeak(c)
      PROVE  Moving'
  BY <1>13 DEF DropWeak, Release
<1>14. ASSUME NEW c \in Clients, RemoveNotifier(c)
      PROVE  Moving'
  BY <1>14 DEF RemoveNotifier
<1>15. ASSUME NEW c \in Clients, UnrefWeak(c)
      PROVE  Moving'
  BY <1>15 DEF UnrefWeak, UnrefData
<1>16. ASSUME NEW c \in Clients, GetNewRef(c)
      PROVE  Moving'
  BY <1>16 DEF GetNewRef
<1>17. ASSUME NEW c \in Clients, LockData(c)
      PROVE  Moving'
  BY <1>17 DEF LockData, PtrIsValid, ReturnNull
<1>18. ASSUME NEW c \in Clients, TryRef(c)
      PROVE  Moving'
  BY <1>18 DEF TryRef, TrySee, ReturnNull
<1>19. ASSUME NEW c \in Clients, Exchange(c)
      PROVE  Moving'
  BY <1>19 DEF Exchange, CanExchange
<1>20. ASSUME NEW c \in Clients, ExchangeFails(c)
      PROVE  Moving'
  BY <1>20 DEF ExchangeFails, TrySee, ReturnNull
<1>21. CASE UNCHANGED vars
  BY <1>21 DEF vars
<1> HIDE DEF object, data, locals, Idle, Goes, NoWeak, TypeOK, Moving, Destroying, Notifying
<1> QED
  BY <1>1, <1>2, <1>3, <1>4, <1>5, <1>6, <1>7, <1>8, <1>9, <1>10, <1>11, <1>12, <1>13, <1>14, <1>15, <1>16, <1>17, <1>18, <1>19, <1>20, <1>21 DEF Next, Destroy

(* An id is not lost. *)
LEMMA IdsStep ==
  ASSUME TypeOK, OneDestroyer, Within, Moving, Ids, [Next]_vars
  PROVE  Ids'
<1> USE ClientsAssumption DEF object, data, locals, Idle, Goes, NoWeak, TypeOK, Within, Moving, OneDestroyer, Ids, Destroying, Notifying
<1>1. ASSUME NEW c \in Clients, NEW d \in Clients, Ref(c, d)
      PROVE  Ids'
  BY <1>1 DEF Ref
<1>2. ASSUME NEW c \in Clients, NEW d \in Clients, MoveWeak(c, d)
      PROVE  Ids'
  <2>1. /\ c # d /\ weak[d].id = 0 /\ pc[c] = "idle"
        /\ \A x \in Clients : weak'[x].id = IF x = d THEN weak[c].id ELSE
                                            IF x = c THEN 0 ELSE weak[x].id
    BY <1>2 DEF MoveWeak
  <2>2. UNCHANGED <<notifiers, called, fn, next_notifier_id, pc, ptr>>
    BY <1>2 DEF MoveWeak
  <2>3. ASSUME NEW x \in Clients
        PROVE  /\ weak'[x].id < next_notifier_id
               /\ weak'[x].id # 0 /\ pc[x] # "unref_data"
                    => weak'[x].id \in notifiers \cup Range(called) \cup {fn}
    BY <2>1
  <2>4. ASSUME NEW x \in Clients, NEW y \in Clients,
               weak'[x].id = weak'[y].id, weak'[x].id # 0
        PROVE  x = y
    BY <2>1, <2>4
  <2> QED
    BY <2>2, <2>3, <2>4
<1>3. ASSUME NEW c \in Clients, NEW d \in Clients, MoveAssignWeak(c, d)
      PROVE  Ids'
  BY <1>3 DEF MoveAssignWeak
<1>4. ASSUME NEW c \in Clients, NEW notify \in BOOLEAN, MakeWeak(c, notify)
      PROVE  Ids'
  BY <1>4 DEF MakeWeak
<1>5. ASSUME NEW c \in Clients, Unref(c)
      PROVE  Ids'
  BY <1>5 DEF Unref
<1>6. ASSUME NEW c \in Clients, Lock(c)
      PROVE  Ids'
  BY <1>6 DEF Lock
<1>7. ASSUME NEW c \in Clients, NotifyNext(c)
      PROVE  Ids'
  BY <1>7 DEF NotifyNext
<1>8. ASSUME NEW c \in Clients, Call(c)
      PROVE  Ids'
  <2>1. /\ pc[c] = "call" /\ called' = Append(called, fn) /\ fn' = 0
        /\ pc' = [pc EXCEPT ![c] = "lock"]
        /\ UNCHANGED <<notifiers, next_notifier_id, ptr, weak>>
    BY <1>8 DEF Call
  <2>2. Range(called') = Range(called) \cup {fn}
    BY <2>1, CalledNext
  <2>3. \A x \in Clients : pc'[x] # "call" /\ (pc'[x] = "unref_data" <=> pc[x] = "unref_data")
    BY <2>1
  <2>4. fn # 0 /\ 0 \notin Range(called) \cup notifiers
    BY <2>1
  <2> QED
    BY <2>1, <2>2, <2>3, <2>4
<1>9. ASSUME NEW c \in Clients, NotifyEnd(c)
      PROVE  Ids'
  BY <1>9 DEF NotifyEnd
<1>10. ASSUME NEW c \in Clients, DropData(c)
      PROVE  Ids'
  BY <1>10 DEF DropData, UnrefData
<1>11. ASSUME NEW c \in Clients, Delete(c)
      PROVE  Ids'
  BY <1>11 DEF Delete
<1>12. ASSUME NEW c \in Clients, AddNotifier(c)
      PROVE  Ids'
  BY <1>12 DEF AddNotifier
<1>13. ASSUME NEW c \in Clients, DropWeak(c)
      PROVE  Ids'
  BY <1>13 DEF DropWeak, Release
<1>14. ASSUME NEW c \in Clients, RemoveNotifier(c)
      PROVE  Ids'
  <2>1. /\ notifiers' = notifiers \ {weak[c].id} /\ pc[c] = "remove"
        /\ pc' = [pc EXCEPT ![c] = "unref_data"]
        /\ UNCHANGED <<called, fn, next_notifier_id, ptr, weak>>
    BY <1>14 DEF RemoveNotifier
  <2>2. \A x \in Clients :
          /\ pc'[x] = "call" <=> pc[x] = "call"
          /\ pc'[x] # "unref_data" => x # c /\ pc[x] # "unref_data"
    BY <2>1
  <2>3. ASSUME NEW x \in Clients, weak[x].id # 0, pc'[x] # "unref_data"
        PROVE  weak[x].id \in notifiers' \cup Range(called) \cup {fn}
    BY <2>1, <2>2, <2>3
  <2>4. /\ notifiers' \subseteq notifiers
        /\ UNCHANGED <<called, fn, next_notifier_id, ptr, weak>>
    BY <2>1
  <2>5. fn # 0 <=> \E x \in Clients : pc'[x] = "call"
    BY <2>2
  <2>6. notifiers' \cap Range(called) = {} /\ fn \notin Range(called) \cup notifiers'
    BY <2>4
  <2> QED
    BY <2>3, <2>4, <2>5, <2>6
<1>15. ASSUME NEW c \in Clients, UnrefWeak(c)
      PROVE  Ids'
  <2>1. CASE from[c] = Nobody
    <3>1. /\ \A x \in Clients : weak'[x].id = IF x = c THEN 0 ELSE weak[x].id
          /\ \A x \in Clients : pc'[x] = IF x = c THEN "idle" ELSE pc[x]
          /\ pc[c] = "unref_data"
      BY <1>15, <2>1 DEF UnrefWeak
    <3>2. UNCHANGED <<notifiers, called, fn, next_notifier_id, ptr>>
      BY <1>15 DEF UnrefWeak, UnrefData
    <3> QED
      BY <3>1, <3>2
  <2>2. CASE from[c] # Nobody
    <3>1. /\ from[c] \in Clients /\ from[c] # c
          /\ pc[c] = "unref_data" /\ pc[from[c]] = "moved"
      BY <1>15, <2>2 DEF UnrefWeak
    <3>2. /\ \A x \in Clients :
               weak'[x].id = IF x = c THEN weak[from[c]].id ELSE
                             IF x = from[c] THEN 0 ELSE weak[x].id
          /\ \A x \in Clients :
               pc'[x] = IF x = c \/ x = from[c] THEN "idle" ELSE pc[x]
      BY <1>15, <2>2, <3>1 DEF UnrefWeak
    <3>3. UNCHANGED <<notifiers, called, fn, next_notifier_id, ptr>>
      BY <1>15 DEF UnrefWeak, UnrefData
    <3> QED
      BY <3>1, <3>2, <3>3
  <2> QED
    BY <2>1, <2>2
<1>16. ASSUME NEW c \in Clients, GetNewRef(c)
      PROVE  Ids'
  BY <1>16 DEF GetNewRef
<1>17. ASSUME NEW c \in Clients, LockData(c)
      PROVE  Ids'
  BY <1>17 DEF LockData, PtrIsValid, ReturnNull
<1>18. ASSUME NEW c \in Clients, TryRef(c)
      PROVE  Ids'
  BY <1>18 DEF TryRef, TrySee, ReturnNull
<1>19. ASSUME NEW c \in Clients, Exchange(c)
      PROVE  Ids'
  BY <1>19 DEF Exchange, CanExchange
<1>20. ASSUME NEW c \in Clients, ExchangeFails(c)
      PROVE  Ids'
  BY <1>20 DEF ExchangeFails, TrySee, ReturnNull
<1>21. CASE UNCHANGED vars
  BY <1>21 DEF vars
<1> HIDE DEF object, data, locals, Idle, Goes, NoWeak, TypeOK, Within, Moving, OneDestroyer, Ids, Destroying, Notifying
<1> QED
  BY <1>1, <1>2, <1>3, <1>4, <1>5, <1>6, <1>7, <1>8, <1>9, <1>10, <1>11, <1>12, <1>13, <1>14, <1>15, <1>16, <1>17, <1>18, <1>19, <1>20, <1>21 DEF Next, Destroy

(* No count goes below zero. *)
LEMMA TypeStep ==
  ASSUME TypeOK, CountsExact, Within, Moving, OneDestroyer, [Next]_vars
  PROVE  TypeOK'
<1> USE ClientsAssumption DEF object, data, locals, Idle, Goes, NoWeak, TypeOK, Within, Moving, OneDestroyer, Destroying, Notifying
<1>0. /\ ref = 0 <=> strong = {}
      /\ Holders # {} \/ ObjectHolds => data_ref # 0
  BY Counted
<1>1. ASSUME NEW c \in Clients, NEW d \in Clients, Ref(c, d)
      PROVE  TypeOK'
  BY <1>1 DEF Ref
<1>2. ASSUME NEW c \in Clients, NEW d \in Clients, MoveWeak(c, d)
      PROVE  TypeOK'
  BY <1>2 DEF MoveWeak
<1>3. ASSUME NEW c \in Clients, NEW d \in Clients, MoveAssignWeak(c, d)
      PROVE  TypeOK'
  BY <1>3 DEF MoveAssignWeak
<1>4. ASSUME NEW c \in Clients, NEW notify \in BOOLEAN, MakeWeak(c, notify)
      PROVE  TypeOK'
  <2>1. weak' \in [Clients -> [data : BOOLEAN, id : Nat]]
    BY <1>4 DEF MakeWeak
  <2>2. pc' \in [Clients -> Destroying \cup
                   {"idle", "add", "moved", "remove", "unref_data", "get",
                    "load", "cas"}]
    BY <1>4 DEF MakeWeak
  <2>3. data_ref' \in Nat
    BY <1>4 DEF MakeWeak
  <2> QED
    BY <1>4, <2>1, <2>2, <2>3 DEF MakeWeak
<1>5. ASSUME NEW c \in Clients, Unref(c)
      PROVE  TypeOK'
  <2>1. ref' \in Nat
    BY <1>5, <1>0 DEF Unref
  <2>2. pc' \in [Clients -> Destroying \cup
                   {"idle", "add", "moved", "remove", "unref_data", "get",
                    "load", "cas"}]
    BY <1>5 DEF Unref
  <2> QED
    BY <1>5, <2>1, <2>2 DEF Unref
<1>6. ASSUME NEW c \in Clients, Lock(c)
      PROVE  TypeOK'
  BY <1>6 DEF Lock
<1>7. ASSUME NEW c \in Clients, NotifyNext(c)
      PROVE  TypeOK'
  BY <1>7 DEF NotifyNext
<1>8. ASSUME NEW c \in Clients, Call(c)
      PROVE  TypeOK'
  <2>1. called' \in Calls
    BY <1>8, CalledNext DEF Call
  <2> QED
    BY <1>8, <2>1 DEF Call
<1>9. ASSUME NEW c \in Clients, NotifyEnd(c)
      PROVE  TypeOK'
  BY <1>9 DEF NotifyEnd
<1>10. ASSUME NEW c \in Clients, DropData(c)
      PROVE  TypeOK'
  <2>1. data_ref # 0
    BY <1>10, <1>0 DEF DropData, ObjectHolds
  <2> QED
    BY <1>10, <2>1 DEF DropData, UnrefData
<1>11. ASSUME NEW c \in Clients, Delete(c)
      PROVE  TypeOK'
  BY <1>11 DEF Delete
<1>12. ASSUME NEW c \in Clients, AddNotifier(c)
      PROVE  TypeOK'
  BY <1>12 DEF AddNotifier
<1>13. ASSUME NEW c \in Clients, DropWeak(c)
      PROVE  TypeOK'
  BY <1>13 DEF DropWeak, Release
<1>14. ASSUME NEW c \in Clients, RemoveNotifier(c)
      PROVE  TypeOK'
  BY <1>14 DEF RemoveNotifier
<1>15. ASSUME NEW c \in Clients, UnrefWeak(c)
      PROVE  TypeOK'
  <2>1. c \in Holders
    BY <1>15 DEF UnrefWeak, Holders
  <2>2. data_ref # 0
    BY <2>1, <1>0
  <2>3. from[c] # Nobody => from[c] \in Clients
    <3>1. from \in [Clients -> Clients \cup {Nobody}] /\ c \in Clients
      BY DEF TypeOK
    <3> QED
      BY <3>1
  <2>4. weak' \in [Clients -> [data : BOOLEAN, id : Nat]]
    <3> DEFINE W == [data : BOOLEAN, id : Nat]
    <3>1. weak \in [Clients -> W] /\ NoWeak \in W
      BY DEF TypeOK
    <3>2. \/ weak' = [weak EXCEPT ![c] = NoWeak]
          \/ /\ from[c] \in Clients
             /\ weak' = [weak EXCEPT ![c] = weak[from[c]], ![from[c]] = NoWeak]
      BY <1>15, <2>3 DEF UnrefWeak
    <3> HIDE DEF W, NoWeak
    <3>3. weak' \in [Clients -> W]
      BY <3>1, <3>2
    <3> QED
      BY <3>3 DEF W
  <2>5. pc' \in [Clients -> Destroying \cup {"idle", "add", "moved", "remove",
                                             "unref_data", "get", "load", "cas"}]
    BY <1>15, <2>3 DEF UnrefWeak
  <2>6. from' \in [Clients -> Clients \cup {Nobody}]
    BY <1>15 DEF UnrefWeak
  <2>7. data_ref' \in Nat /\ data_freed' \in BOOLEAN
    BY <1>15, <2>2 DEF UnrefWeak, UnrefData
  <2>8. UNCHANGED <<ref, freed, mu, ptr, notifiers, next_notifier_id, strong,
                    old_ref, fn, missed, called>>
    BY <1>15 DEF UnrefWeak, UnrefData
  <2> QED
    BY <2>4, <2>5, <2>6, <2>7, <2>8
<1>16. ASSUME NEW c \in Clients, GetNewRef(c)
      PROVE  TypeOK'
  BY <1>16 DEF GetNewRef
<1>17. ASSUME NEW c \in Clients, LockData(c)
      PROVE  TypeOK'
  BY <1>17 DEF LockData, PtrIsValid, ReturnNull
<1>18. ASSUME NEW c \in Clients, TryRef(c)
      PROVE  TypeOK'
  BY <1>18 DEF TryRef, TrySee, ReturnNull
<1>19. ASSUME NEW c \in Clients, Exchange(c)
      PROVE  TypeOK'
  BY <1>19 DEF Exchange, CanExchange
<1>20. ASSUME NEW c \in Clients, ExchangeFails(c)
      PROVE  TypeOK'
  BY <1>20 DEF ExchangeFails, TrySee, ReturnNull
<1>21. CASE UNCHANGED vars
  BY <1>21 DEF vars
<1> HIDE DEF object, data, locals, Idle, Goes, NoWeak, TypeOK, Within, Moving, OneDestroyer, Destroying, Notifying
<1> QED
  BY <1>1, <1>2, <1>3, <1>4, <1>5, <1>6, <1>7, <1>8, <1>9, <1>10, <1>11, <1>12, <1>13, <1>14, <1>15, <1>16, <1>17, <1>18, <1>19, <1>20, <1>21 DEF Next, Destroy

(* Counts are changed with the references they count. *)
LEMMA CountsStep ==
  ASSUME TypeOK, Within, Moving, OneDestroyer, CountsExact, [Next]_vars
  PROVE  CountsExact'
<1> USE ClientsAssumption DEF object, data, locals, Idle, Goes, NoWeak, TypeOK, Within, Moving, OneDestroyer, Destroying, Notifying
<1>0. IsFiniteSet(strong) /\ IsFiniteSet(Holders)
  BY Counted
<1>1. Cardinality(Holders) \in Nat
  BY <1>0, FS_CardinalityType
<1>2. ASSUME NEW c \in Clients, NEW d \in Clients, Ref(c, d)
      PROVE  CountsExact'
  <2>1. /\ d \notin strong /\ strong' = strong \cup {d} /\ ref' = ref + 1
        /\ UNCHANGED <<data_ref, Holders, ObjectHolds>>
    BY <1>2 DEF Ref, Holders, ObjectHolds
  <2>2. Cardinality(strong') = Cardinality(strong) + 1
    BY <2>1, <1>0, FS_AddElement
  <2> QED
    BY <2>1, <2>2 DEF CountsExact
<1>3. ASSUME NEW c \in Clients, NEW d \in Clients, MoveWeak(c, d)
      PROVE  CountsExact'
  <2>1. /\ c \in Holders /\ d \notin Holders \ {c}
        /\ Holders' = (Holders \ {c}) \cup {d}
    BY <1>3 DEF MoveWeak, Holders
  <2>2. /\ IsFiniteSet(Holders \ {c})
        /\ Cardinality(Holders \ {c}) = Cardinality(Holders) - 1
    <3>1. IsFiniteSet(Holders)
      BY <1>0
    <3> QED
      BY <2>1, <3>1, FS_RemoveElement
  <2>3. Cardinality(Holders') = Cardinality(Holders \ {c}) + 1
    BY <2>1, <2>2, FS_AddElement
  <2>4. UNCHANGED <<ref, strong, data_ref, ObjectHolds>>
    BY <1>3 DEF MoveWeak, ObjectHolds
  <2> QED
    BY <2>2, <2>3, <2>4, <1>1 DEF CountsExact
<1>4. ASSUME NEW c \in Clients, NEW d \in Clients, MoveAssignWeak(c, d)
      PROVE  CountsExact'
  <2>1. UNCHANGED <<ref, strong, data_ref, Holders, ObjectHolds>>
    BY <1>4 DEF MoveAssignWeak, Holders, ObjectHolds
  <2> QED
    BY <2>1 DEF CountsExact
<1>5. ASSUME NEW c \in Clients, NEW notify \in BOOLEAN, MakeWeak(c, notify)
      PROVE  CountsExact'
  <2>1. /\ c \notin Holders /\ Holders' = Holders \cup {c}
        /\ data_ref' = data_ref + 1
        /\ UNCHANGED <<ref, strong, ObjectHolds>>
    <3>1. weak[c].data = FALSE /\ weak' = [weak EXCEPT ![c] = [data |-> TRUE, id |-> 0]]
      BY <1>5 DEF MakeWeak
    <3>2. \A x \in Clients : weak'[x].data <=> x = c \/ weak[x].data
      BY <3>1
    <3>3. Holders' = Holders \cup {c} /\ c \notin Holders
      BY <3>1, <3>2 DEF Holders
    <3> QED
      BY <1>5, <3>3 DEF MakeWeak, ObjectHolds
  <2>2. Cardinality(Holders') = Cardinality(Holders) + 1
    BY <2>1, <1>0, FS_AddElement
  <2> QED
    BY <2>1, <2>2, <1>1 DEF CountsExact
<1>6. ASSUME NEW c \in Clients, Unref(c)
      PROVE  CountsExact'
  <2>1. /\ c \in strong /\ strong' = strong \ {c} /\ ref' = ref - 1
        /\ UNCHANGED <<data_ref, Holders, ObjectHolds>>
    BY <1>6 DEF Unref, Holders, ObjectHolds
  <2>2. Cardinality(strong') = Cardinality(strong) - 1
    BY <2>1, <1>0, FS_RemoveElement
  <2> QED
    BY <2>1, <2>2 DEF CountsExact
<1>7. ASSUME NEW c \in Clients, Lock(c)
      PROVE  CountsExact'
  <2>1. UNCHANGED <<ref, strong, data_ref, Holders, ObjectHolds>>
    BY <1>7 DEF Lock, Holders, ObjectHolds
  <2> QED
    BY <2>1 DEF CountsExact
<1>8. ASSUME NEW c \in Clients, NotifyNext(c)
      PROVE  CountsExact'
  <2>1. UNCHANGED <<ref, strong, data_ref, Holders, ObjectHolds>>
    BY <1>8 DEF NotifyNext, Holders, ObjectHolds
  <2> QED
    BY <2>1 DEF CountsExact
<1>9. ASSUME NEW c \in Clients, Call(c)
      PROVE  CountsExact'
  <2>1. UNCHANGED <<ref, strong, data_ref, Holders, ObjectHolds>>
    BY <1>9 DEF Call, Holders, ObjectHolds
  <2> QED
    BY <2>1 DEF CountsExact
<1>10. ASSUME NEW c \in Clients, NotifyEnd(c)
      PROVE  CountsExact'
  <2>1. UNCHANGED <<ref, strong, data_ref, Holders, ObjectHolds>>
    BY <1>10 DEF NotifyEnd, Holders, ObjectHolds
  <2> QED
    BY <2>1 DEF CountsExact
<1>11. ASSUME NEW c \in Clients, DropData(c)
      PROVE  CountsExact'
  <2>1. ObjectHolds /\ ~ObjectHolds' /\ data_ref' = data_ref - 1
    BY <1>11 DEF DropData, UnrefData, ObjectHolds
  <2>2. UNCHANGED <<ref, strong, Holders>>
    BY <1>11 DEF DropData, Holders
  <2> QED
    BY <2>1, <2>2, <1>1 DEF CountsExact
<1>12. ASSUME NEW c \in Clients, Delete(c)
      PROVE  CountsExact'
  <2>1. UNCHANGED <<ref, strong, data_ref, Holders, ObjectHolds>>
    BY <1>12 DEF Delete, Holders, ObjectHolds
  <2> QED
    BY <2>1 DEF CountsExact
<1>13. ASSUME NEW c \in Clients, AddNotifier(c)
      PROVE  CountsExact'
  <2>1. UNCHANGED <<ref, strong, data_ref, Holders, ObjectHolds>>
    <3>1. UNCHANGED <<ref, freed, strong, data_ref>> /\ pc[c] = "add"
          /\ pc' = [pc EXCEPT ![c] = "idle"]
      BY <1>13 DEF AddNotifier
    <3>2. \A x \in Clients : weak'[x].data = weak[x].data
      BY <1>13 DEF AddNotifier
    <3>3. UNCHANGED Holders
      BY <3>2 DEF Holders
    <3>4. UNCHANGED ObjectHolds
      BY <3>1 DEF ObjectHolds
    <3> QED
      BY <3>1, <3>3, <3>4
  <2> QED
    BY <2>1 DEF CountsExact
<1>14. ASSUME NEW c \in Clients, DropWeak(c)
      PROVE  CountsExact'
  <2>1. UNCHANGED <<ref, strong, data_ref, Holders, ObjectHolds>>
    BY <1>14 DEF DropWeak, Release, Holders, ObjectHolds
  <2> QED
    BY <2>1 DEF CountsExact
<1>15. ASSUME NEW c \in Clients, RemoveNotifier(c)
      PROVE  CountsExact'
  <2>1. UNCHANGED <<ref, strong, data_ref, Holders, ObjectHolds>>
    BY <1>15 DEF RemoveNotifier, Holders, ObjectHolds
  <2> QED
    BY <2>1 DEF CountsExact
<1>16. ASSUME NEW c \in Clients, UnrefWeak(c)
      PROVE  CountsExact'
  <2> DEFINE x == IF from[c] = Nobody THEN c ELSE from[c]
  <2>1. x \in Clients /\ weak[x].data /\ weak[c].data /\ (x # c => pc[x] = "moved")
    BY <1>16 DEF UnrefWeak
  <2>2. /\ \A y \in Clients : weak'[y].data <=> y # x /\ weak[y].data
        /\ \A y \in Clients : pc'[y] = "delete" <=> pc[y] = "delete"
    <3>1. CASE from[c] = Nobody
      BY <1>16, <3>1 DEF UnrefWeak
    <3>2. CASE from[c] # Nobody
      BY <1>16, <3>2, <2>1 DEF UnrefWeak
    <3> QED
      BY <3>1, <3>2
  <2>3. x \in Holders /\ Holders' = Holders \ {x}
    BY <2>1, <2>2 DEF Holders
  <2>4. /\ data_ref' = data_ref - 1
        /\ UNCHANGED <<ref, strong, ObjectHolds>>
    BY <1>16, <2>2 DEF UnrefWeak, UnrefData, ObjectHolds
  <2>5. Cardinality(Holders') = Cardinality(Holders) - 1
    BY <2>3, <1>0, FS_RemoveElement
  <2> QED
    BY <2>4, <2>5, <1>1 DEF CountsExact
<1>17. ASSUME NEW c \in Clients, GetNewRef(c)
      PROVE  CountsExact'
  <2>1. UNCHANGED <<ref, strong, data_ref, Holders, ObjectHolds>>
    BY <1>17 DEF GetNewRef, Holders, ObjectHolds
  <2> QED
    BY <2>1 DEF CountsExact
<1>18. ASSUME NEW c \in Clients, LockData(c)
      PROVE  CountsExact'
  <2>1. UNCHANGED <<ref, strong, data_ref, Holders, ObjectHolds>>
    BY <1>18 DEF LockData, PtrIsValid, ReturnNull, Holders, ObjectHolds
  <2> QED
    BY <2>1 DEF CountsExact
<1>19. ASSUME NEW c \in Clients, TryRef(c)
      PROVE  CountsExact'
  <2>1. UNCHANGED <<ref, strong, data_ref, Holders, ObjectHolds>>
    BY <1>19 DEF TryRef, TrySee, ReturnNull, Holders, ObjectHolds
  <2> QED
    BY <2>1 DEF CountsExact
<1>20. ASSUME NEW c \in Clients, Exchange(c)
      PROVE  CountsExact'
  <2>1. /\ c \notin strong /\ strong' = strong \cup {c} /\ ref' = ref + 1
        /\ UNCHANGED <<data_ref, Holders, ObjectHolds>>
    BY <1>20 DEF Exchange, CanExchange, Holders, ObjectHolds
  <2>2. Cardinality(strong') = Cardinality(strong) + 1
    BY <2>1, <1>0, FS_AddElement
  <2> QED
    BY <2>1, <2>2 DEF CountsExact
<1>21. ASSUME NEW c \in Clients, ExchangeFails(c)
      PROVE  CountsExact'
  <2>1. UNCHANGED <<ref, strong, data_ref, Holders, ObjectHolds>>
    BY <1>21 DEF ExchangeFails, TrySee, ReturnNull, Holders, ObjectHolds
  <2> QED
    BY <2>1 DEF CountsExact
<1>22. CASE UNCHANGED vars
  BY <1>22 DEF vars, CountsExact, Holders, ObjectHolds
<1> QED
  BY <1>2, <1>3, <1>4, <1>5, <1>6, <1>7, <1>8, <1>9, <1>10, <1>11, <1>12, <1>13, <1>14, <1>15, <1>16, <1>17, <1>18, <1>19, <1>20, <1>21, <1>22 DEF Next, Destroy

(* The data is freed with its last reference, and not referred to again. *)
LEMMA DataFreedStep ==
  ASSUME TypeOK, CountsExact, Within, OneDestroyer, DataFreed, [Next]_vars
  PROVE  DataFreed'
<1> USE DEF object, data, DataFreed
<1>0. /\ ref = 0 <=> strong = {}
      /\ Holders # {} \/ ObjectHolds => data_ref # 0
  BY Counted
<1>1. ASSUME NEW c \in Clients, NEW notify \in BOOLEAN, MakeWeak(c, notify)
      PROVE  DataFreed'
  <2>1. ref # 0 /\ ~freed
    BY <1>0, <1>1 DEF MakeWeak, OneDestroyer
  <2>2. ObjectHolds
    BY <2>1 DEF ObjectHolds, OneDestroyer, Destroying
  <2> QED
    BY <1>0, <1>1, <2>2 DEF MakeWeak, TypeOK
<1>2. ASSUME NEW c \in Clients, UnrefWeak(c) \/ DropData(c)
      PROVE  DataFreed'
  <2>1. ObjectHolds \/ c \in Holders
    BY <1>2 DEF UnrefWeak, DropData, ObjectHolds, OneDestroyer, Within, Holders,
                Destroying, Notifying
  <2>2. data_ref \in Nat \ {0}
    BY <1>0, <2>1 DEF TypeOK
  <2>3. data_ref' = data_ref - 1 /\ (data_freed' <=> data_ref = 1)
    BY <1>2 DEF UnrefWeak, DropData, UnrefData
  <2> QED
    BY <2>2, <2>3
<1>3. CASE UNCHANGED <<data_ref, data_freed>>
  BY <1>3
<1> QED
  BY <1>1, <1>2, <1>3
  DEF Next, Destroy, vars, Ref, MoveWeak, MoveAssignWeak, Unref, Lock,
      NotifyNext, Call, NotifyEnd, Delete, AddNotifier, DropWeak,
      RemoveNotifier, GetNewRef, LockData, TryRef, Exchange, ExchangeFails

(* IInv is inductive: initially one client has the object, and the steps   *)
(* above keep each part.                                                   *)
THEOREM Inductive == Spec => []IInv
<1>1. Init => IInv
  <2> SUFFICES ASSUME Init PROVE IInv
    OBVIOUS
  <2> USE ClientsAssumption DEF Init, NoWeak
  <2>1. TypeOK
    <3>1. /\ ref \in Nat /\ data_ref \in Nat /\ fn \in Nat
          /\ mu \in Clients \cup {Nobody} /\ next_notifier_id \in Nat \ {0}
          /\ notifiers \subseteq 1..next_notifier_id - 1
      OBVIOUS
    <3>2. /\ strong \subseteq Clients
          /\ weak \in [Clients -> [data : BOOLEAN, id : Nat]]
      OBVIOUS
    <3>3. freed \in BOOLEAN /\ data_freed \in BOOLEAN /\ ptr \in BOOLEAN
      OBVIOUS
    <3>4. called \in Calls /\ pc \in [Clients -> {"idle"}]
      BY DEF Calls
    <3> QED
      BY <3>1, <3>2, <3>3, <3>4 DEF TypeOK
  <2>2. CountsExact
    <3>1. PICK c \in Clients : strong = {c}
      OBVIOUS
    <3>2. Cardinality(strong) = 1 /\ Cardinality(Holders) = 0
      <4>1. Holders = {}
        BY DEF Holders
      <4>2. strong = {} \cup {c}
        BY <3>1
      <4>3. IsFiniteSet({}) /\ Cardinality({}) = 0
        BY FS_EmptySet
      <4>4. Cardinality({} \cup {c}) =
              IF c \in {} THEN Cardinality({}) ELSE Cardinality({}) + 1
        BY <4>3, FS_AddElement
      <4>5. Cardinality({} \cup {c}) = 1
        BY <4>3, <4>4
      <4> QED
        BY <4>1, <4>2, <4>3, <4>5
    <3> QED
      BY <3>2 DEF CountsExact, ObjectHolds
  <2>3. Range(called) = {}
    BY DEF Range
  <2>4. DataFreed /\ Locked /\ OneDestroyer /\ Within /\ Moving /\ Ids
    BY <2>3 DEF DataFreed, Locked, OneDestroyer, Within, Moving, Ids, Destroying,
           Notifying
  <2> QED
    BY <2>1, <2>2, <2>4 DEF IInv
<1>2. IInv /\ [Next]_vars => IInv'
  BY TypeStep, CountsStep, DataFreedStep, LockedStep, DyingStep, WithinStep,
     MovingStep, IdsStep DEF IInv
<1> QED
  BY <1>1, <1>2, PTL DEF Spec

(* Types, and both counts, for any number of clients (Ref, Unref, TryRef). *)
THEOREM TypeCorrect == Spec => []TypeOK
<1>1. IInv => TypeOK
  BY DEF IInv
<1> QED
  BY <1>1, Inductive, PTL

THEOREM CountsStayExact == Spec => []CountsExact
<1>1. IInv => CountsExact
  BY DEF IInv
<1> QED
  BY <1>1, Inductive, PTL

(* What IInv says of the object and the data.                              *)
LEMMA NothingFreedIsUsed == IInv => NoUseAfterFree
<1> SUFFICES ASSUME IInv PROVE NoUseAfterFree
  OBVIOUS
<1> USE DEF IInv
<1>1. /\ ref = 0 <=> strong = {}
      /\ Holders # {} \/ ObjectHolds => data_ref # 0
  BY Counted
<1>2. strong # {} => ~freed /\ \A c \in Clients : pc[c] \notin Destroying
  BY <1>1 DEF OneDestroyer
<1>3. ASSUME NEW c \in Clients, pc[c] \in {"load", "cas"}
      PROVE  ~freed
  BY <1>3 DEF OneDestroyer, Within
<1>4. ASSUME NEW c \in Clients, weak[c].data \/ pc[c] \in Notifying
      PROVE  ~data_freed
  <2>1. CASE weak[c].data
    BY <1>1, <2>1 DEF Holders, DataFreed
  <2>2. CASE pc[c] \in Notifying
    <3>1. ObjectHolds
      BY <2>2 DEF ObjectHolds, OneDestroyer, Destroying, Notifying
    <3> QED
      BY <1>1, <3>1 DEF DataFreed
  <2> QED
    BY <1>4, <2>1, <2>2
<1> QED
  BY <1>2, <1>3, <1>4 DEF NoUseAfterFree

(* Nobody uses the object or the data after they were deleted, and no      *)
(* lookup brings the object back while it is destroyed (GetNewRef, TryRef, *)
(* Unref).                                                                 *)
THEOREM NeverUsedAfterFree == Spec => []NoUseAfterFree
<1> QED
  BY NothingFreedIsUsed, Inductive, PTL

(* When the object is gone nobody is left waiting for a callback (Notify). *)
THEOREM AllAreNotified == Spec => []AllNotified
<1>1. IInv => AllNotified
  <2> SUFFICES ASSUME IInv, ~ptr, NEW c \in Clients, weak[c].id # 0,
                      pc[c] # "unref_data"
               PROVE  weak[c].id \in Range(called)
    BY DEF AllNotified
  <2> USE DEF IInv
  <2>1. weak[c].id \in notifiers \cup Range(called) \cup {fn} /\ notifiers = {}
    BY DEF Ids
  <2>2. \A d \in Clients : pc[d] # "call"
    BY DEF OneDestroyer, Destroying, Notifying
  <2>3. fn = 0
    BY <2>2 DEF Ids
  <2> QED
    BY <2>1, <2>3
<1> QED
  BY <1>1, Inductive, PTL

(* Somebody has the object as long as its count is not zero. *)
CountTells == /\ ref \in Nat /\ (ref = 0 <=> strong = {})
              /\ ~ptr => ref = 0

LEMMA Held == IInv => CountTells
<1> SUFFICES ASSUME IInv PROVE CountTells
  OBVIOUS
<1>1. ref = 0 <=> strong = {}
  BY Counted DEF IInv
<1>2. ref \in Nat
  BY DEF IInv, TypeOK
<1>3. ~ptr => ref = 0
  BY DEF IInv, OneDestroyer, Destroying, Notifying
<1> QED
  BY <1>1, <1>2, <1>3 DEF CountTells

LEMMA HeldNext == (IInv => CountTells)'
<1> QED
  BY Held, PTL

(* Each step is one of WeakReference, or none: a lookup that fails is a    *)
(* miss, at a time when the count is zero.                                 *)
LEMMA StepOfWeakReference ==
  ASSUME IInv, IInv', [Next]_vars
  PROVE  [Weak!Next]_(Weak!vars)
<1>0. /\ ref \in Nat /\ (ref = 0 <=> strong = {})
      /\ ref' \in Nat /\ (ref' = 0 <=> strong' = {})
      /\ ~ptr => ref = 0
  BY Held, HeldNext DEF CountTells
<1> USE DEF IInv, object, data, locals, Idle, Goes, Weak!vars
<1>1. ASSUME NEW c \in Clients, NEW d \in Clients, Ref(c, d)
      PROVE  Weak!Next
  <2>1. Weak!Share(c, d)
    BY <1>0, <1>1 DEF Ref, Weak!Share
  <2> QED
    BY <2>1 DEF Weak!Next
<1>2. ASSUME NEW c \in Clients, Unref(c)
      PROVE  Weak!Next
  <2>1. Weak!Drop(c)
    BY <1>0, <1>2 DEF Unref, Weak!Drop
  <2> QED
    BY <2>1 DEF Weak!Next
<1>3. ASSUME NEW c \in Clients, Exchange(c)
      PROVE  Weak!Next
  <2>1. ref = old_ref[c] /\ old_ref[c] # 0 /\ ref' = ref + 1
    BY <1>3 DEF Exchange, CanExchange, Within
  <2>2. Weak!Find(c)
    BY <1>0, <1>3, <2>1 DEF Exchange, Weak!Find
  <2> QED
    BY <2>2 DEF Weak!Next
<1>4. ASSUME NEW c \in Clients, LockData(c) \/ TryRef(c) \/ ExchangeFails(c)
      PROVE  Weak!Next \/ UNCHANGED Weak!vars
  <2>1. CASE missed' = missed
    BY <1>4, <2>1 DEF LockData, TryRef, ExchangeFails
  <2>2. CASE missed' # missed
    <3>1. ref = 0 /\ missed' = missed \cup {c} /\ UNCHANGED <<ref, strong, called>>
      BY <1>0, <1>4, <2>2
      DEF LockData, PtrIsValid, TryRef, ExchangeFails, TrySee, ReturnNull
    <3>2. Weak!Miss(c)
      BY <3>1 DEF Weak!Miss
    <3> QED
      BY <3>2 DEF Weak!Next
  <2> QED
    BY <2>1, <2>2
<1>5. ASSUME NEW c \in Clients, Call(c)
      PROVE  Weak!Next
  <2>1. ref = 0 /\ UNCHANGED <<ref, strong, missed>> /\ called' = Append(called, fn)
    BY <1>5 DEF Call, OneDestroyer, Destroying, Notifying
  <2>2. Range(called') = Range(called) \cup {fn} /\ fn \notin Range(called)
    BY <2>1, CalledNext DEF TypeOK, Ids
  <2>3. fn \in Range(called') \ Range(called)
    BY <2>2
  <2>4. Weak!Range(called') = Range(called') /\ Weak!Range(called) = Range(called)
    BY Zenon DEF Range, Weak!Range
  <2>5. \E i \in Weak!Range(called') \ Weak!Range(called) : called' = Append(called, i)
    BY <2>1, <2>3, <2>4, Zenon
  <2>6. ~(ref # 0) /\ UNCHANGED <<strong, ref # 0, missed>>
    BY <2>1
  <2>7. Weak!Call
    BY <2>5, <2>6, Zenon DEF Weak!Call
  <2> QED
    BY <2>7 DEF Weak!Next
<1>6. CASE UNCHANGED <<ref, strong, missed, called>>
  BY <1>6
<1> QED
  BY <1>1, <1>2, <1>3, <1>4, <1>5, <1>6
  DEF Next, Destroy, vars, MoveWeak, MoveAssignWeak, MakeWeak, Lock, NotifyNext,
      NotifyEnd, DropData, Delete, AddNotifier, DropWeak, RemoveNotifier,
      UnrefWeak, GetNewRef

(* An object lives as long as somebody has it, is found exactly as long,   *)
(* and is not found again; callbacks are called only after that, and none  *)
(* is called twice (GetNewRef, TryRef, Unref, Notify).                     *)
THEOREM RefinesWeakReference == Spec => ImplementsWeakReference
<1>1. Init => Weak!Init
  BY DEF Init, Weak!Init
<1> QED
  BY <1>1, Inductive, StepOfWeakReference, PTL
  DEF Spec, ImplementsWeakReference, Weak!Spec
=============================================================================
