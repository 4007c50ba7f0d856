--------------------------- MODULE DelegateProofs ---------------------------
(***************************************************************************)
(* Theorems about the delegate of include/utils/Delegate.h, for both       *)
(* classes, any methods, any finite number of lists and of calls:          *)
(* no list is deleted while a call uses it, nothing is leaked, released    *)
(* twice or written past its room, and the delegate implements the         *)
(* sequence of methods of DelegateList.                                    *)
(*                                                                         *)
(* IInv says where the list of a call can be (it is the current one or a   *)
(* retired one) and what the count of a list that is kept means: in        *)
(* _Delegate one more than its calls, in _Delegate_S one.  What the        *)
(* changes put into the lists does not matter for that: they are           *)
(* abstracted to what they do to the memory of lists (Built).              *)
(*                                                                         *)
(* MemInv adds what is in the memory: free memory is empty, a list is a    *)
(* prefix of its array, an array counts its lists and has room for its     *)
(* methods.  A change makes a list with certain methods (Makes) and leaves *)
(* the content of all others alone, because pushing behind a list does     *)
(* not change it.  DInv adds that the list a change has built, and will    *)
(* install, is a result of the current one; it stays so while calls go on. *)
(***************************************************************************)
EXTENDS Delegate, FiniteSetTheorems, SequenceTheorems, TLAPS

Kept == (retired \cup edit \cup {current}) \ {Null}

Counted(l) == lists[l].refs = 1 + (IF flavor = "_Delegate" THEN Cardinality(Users(l)) ELSE 0)

ListsOK ==
  /\ lists = [l \in Lists |-> lists[l]]
  /\ \A l \in Lists : "refs" \in DOMAIN lists[l] /\ lists[l].refs \in Nat

OwnersOK ==
  /\ flavor \in {"_Delegate", "_Delegate_S"}
  /\ current \in {Null} \cup Lists
  /\ retired \subseteq Lists /\ edit \subseteq {Null} \cup Lists
  /\ retired \cap (edit \cup {current}) = {}

CallsOK ==
  /\ call \in [Calls -> [list : {Null} \cup Lists, next : Int]]
  /\ \A c \in Calls : IF call[c] = Idle THEN call[c].list = Null
                      ELSE call[c].list \in (retired \cup {current}) \ {Null}

IInv == ListsOK /\ OwnersOK /\ CallsOK /\ \A l \in Kept : Counted(l)

-----------------------------------------------------------------------------
(* Counts of calls. *)

LEMMA NullIsNoAddress == Null \notin Lists
BY DelegateAssumption

LEMMA UsersFinite ==
  ASSUME NEW l
  PROVE  IsFiniteSet(Users(l)) /\ Cardinality(Users(l)) \in Nat
<1>1. Users(l) \subseteq Calls
  BY DEF Users
<1> QED
  BY <1>1, DelegateAssumption, FS_Subset, FS_CardinalityType

LEMMA NoUsers ==
  ASSUME NEW l, Users(l) = {}
  PROVE  Cardinality(Users(l)) = 0
BY FS_EmptySet

(* A list with a call counts more than one in _Delegate. *)
LEMMA UsedCount ==
  ASSUME NEW l, Users(l) # {}
  PROVE  Cardinality(Users(l)) > 0
BY UsersFinite, FS_EmptySet

-----------------------------------------------------------------------------
(* The operators that build a list. *)

LEMMA OwnArrayBuilds ==
  ASSUME NEW ms, NEW cap, OwnArray(ms, cap)
  PROVE  \E n \in FreeIn(lists) : \E a, size :
           /\ lists' = [lists EXCEPT ![n] = [array |-> a, size |-> size, refs |-> 1]]
           /\ edit' = {n}
BY DEF OwnArray

LEMMA SharedArrayBuilds ==
  ASSUME NEW ms, NEW s, SharedArray(ms, s)
  PROVE  \E n \in FreeIn(lists) : \E a, size :
           /\ lists' = [lists EXCEPT ![n] = [array |-> a, size |-> size, refs |-> 1]]
           /\ edit' = {n}
BY DEF SharedArray

Built ==
  \/ \E l \in {current, Null} : edit' = {l} /\ lists' = lists
  \/ \E n \in FreeIn(lists) : \E a, size :
       /\ lists' = [lists EXCEPT ![n] = [array |-> a, size |-> size, refs |-> 1]]
       /\ edit' = {n}

LEMMA AddToBuilds ==
  ASSUME NEW old, NEW ms, NEW byList, AddTo(old, ms, byList)
  PROVE  Built
<1>1. \/ \E s, cap : OwnArray(s, cap)
      \/ \E s, size : SharedArray(s, size)
  BY DEF AddTo
<1> QED
  BY <1>1, OwnArrayBuilds, SharedArrayBuilds DEF Built

LEMMA RemoveMethodBuilds ==
  ASSUME NEW m, RemoveMethod(m)
  PROVE  Built
<1>1. \/ Install(current) \/ Install(Null)
      \/ \E s, cap : OwnArray(s, cap)
      \/ \E s, size : SharedArray(s, size)
  BY DEF RemoveMethod
<1>2. Install(current) \/ Install(Null) => Built
  BY DEF Install, Built
<1> QED
  BY <1>1, <1>2, OwnArrayBuilds, SharedArrayBuilds DEF Built

LEMMA RemoveListBuilds ==
  ASSUME NEW ms, RemoveList(ms)
  PROVE  Built
<1>1. \/ Install(current) \/ Install(Null)
      \/ RemoveMethod(ms[1])
      \/ \E s, cap : OwnArray(s, cap)
  BY DEF RemoveList
<1>2. Install(current) \/ Install(Null) => Built
  BY DEF Install, Built
<1> QED
  BY <1>1, <1>2, OwnArrayBuilds, RemoveMethodBuilds DEF Built

(* Every change begins by building a list, or by choosing one it has. *)
LEMMA ChangesBuild ==
  ASSUME \/ Clear \/ AddSelf
         \/ \E ms \in Args : SetValueInternal(ms) \/ AddInternal(ms) \/ RemoveInternal(ms)
  PROVE  edit = {} /\ Built /\ UNCHANGED <<flavor, current, retired, call>>
<1>1. CASE Clear
  BY <1>1 DEF Clear, CanLock, Install, Built
<1>2. CASE AddSelf
  BY <1>2, AddToBuilds DEF AddSelf, CanLock
<1>3. ASSUME NEW ms \in Args, SetValueInternal(ms)
      PROVE  edit = {} /\ Built /\ UNCHANGED <<flavor, current, retired, call>>
  BY <1>3, AddToBuilds DEF SetValueInternal, CanLock
<1>4. ASSUME NEW ms \in Args, AddInternal(ms)
      PROVE  edit = {} /\ Built /\ UNCHANGED <<flavor, current, retired, call>>
  BY <1>4, AddToBuilds DEF AddInternal, CanLock
<1>5. ASSUME NEW ms \in Args, RemoveInternal(ms)
      PROVE  edit = {} /\ Built /\ UNCHANGED <<flavor, current, retired, call>>
  BY <1>5, RemoveListBuilds DEF RemoveInternal, CanLock
<1> QED
  BY <1>1, <1>2, <1>3, <1>4, <1>5

-----------------------------------------------------------------------------
(* Each step keeps the invariant.                                          *)

LEMMA InitInvariant == Init => IInv
<1> SUFFICES ASSUME Init PROVE IInv
  OBVIOUS
<1>1. ListsOK
  BY DEF Init, ListsOK, FreeList
<1>2. OwnersOK
  BY DelegateAssumption DEF Init, OwnersOK
<1>3. CallsOK
  BY DEF Init, CallsOK, Idle
<1>4. Kept = {}
  BY DEF Init, Kept
<1> QED
  BY <1>1, <1>2, <1>3, <1>4 DEF IInv

(* The memory of a new list is in no one's use. *)
LEMMA BuildKeeps ==
  ASSUME IInv, edit = {}, Built, UNCHANGED <<flavor, current, retired, call>>
  PROVE  IInv'
<1> USE NullIsNoAddress
<1>1. CASE \E l \in {current, Null} : edit' = {l} /\ lists' = lists
  <2>1. ListsOK' /\ OwnersOK' /\ CallsOK'
    BY <1>1 DEF IInv, ListsOK, OwnersOK, CallsOK, Idle
  <2>2. ASSUME NEW l \in Kept' PROVE Counted(l)'
    <3>1. l \in Kept
      BY <1>1, <2>2 DEF Kept
    <3>2. Users(l)' = Users(l)
      BY DEF Users
    <3> QED
      BY <1>1, <3>1, <3>2 DEF IInv, Counted
  <2> QED
    BY <2>1, <2>2 DEF IInv
<1>2. ASSUME NEW n \in FreeIn(lists), NEW a, NEW size,
             lists' = [lists EXCEPT ![n] = [array |-> a, size |-> size, refs |-> 1]],
             edit' = {n}
      PROVE  IInv'
  <2>1. n \in Lists /\ lists[n].refs = 0
    BY <1>2 DEF FreeIn, IInv, ListsOK
  <2>2. n \notin Kept
    <3>1. Counted(n) => lists[n].refs # 0
      BY UsersFinite DEF Counted
    <3> QED
      BY <2>1, <3>1 DEF IInv
  <2>3. n \notin retired \cup {current}
    BY <2>1, <2>2 DEF Kept
  <2>4. Users(n) = {}
    BY <2>1, <2>3 DEF IInv, CallsOK, Users
  <2>5. ListsOK'
    BY <1>2, <2>1 DEF IInv, ListsOK
  <2>6. OwnersOK'
    BY <1>2, <2>1, <2>3 DEF IInv, OwnersOK
  <2>7. CallsOK'
    BY DEF IInv, CallsOK, Idle
  <2>8. ASSUME NEW l \in Kept' PROVE Counted(l)'
    <3>1. Users(l)' = Users(l)
      BY DEF Users
    <3>2. CASE l = n
      <4>1. lists'[n].refs = 1
        BY <1>2, <2>1 DEF IInv, ListsOK
      <4> QED
        BY <4>1, <3>1, <3>2, <2>4, NoUsers DEF Counted
    <3>3. CASE l # n
      <4>1. l \in Kept /\ l \in Lists
        BY <1>2, <2>8, <3>3 DEF Kept, IInv, OwnersOK
      <4>2. lists'[l] = lists[l]
        BY <1>2, <3>3, <4>1 DEF IInv, ListsOK
      <4> QED
        BY <3>1, <4>1, <4>2 DEF IInv, Counted
    <3> QED
      BY <3>2, <3>3
  <2> QED
    BY <2>5, <2>6, <2>7, <2>8 DEF IInv
<1> QED
  BY <1>1, <1>2 DEF Built

(* What is deleted has no call; the counts of the others stay. *)
LEMMA DeleteKeeps ==
  ASSUME IInv, NEW gone \in SUBSET Lists, Delete(gone),
         UNCHANGED <<flavor, call>>,
         retired' \subseteq (retired \cup {current}) \ {Null}, edit' = {},
         current' \in edit \cup {current, Null},
         current' \notin retired',
         ((retired' \cup {current'}) \ {Null}) \cap gone = {},
         \A c \in Calls : call[c] # Idle => call[c].list \in retired' \cup {current'}
  PROVE  IInv'
<1> USE NullIsNoAddress
<1>1. \A l \in Lists : lists'[l] = IF l \in gone THEN FreeList ELSE lists[l]
  BY DEF Delete
<1>2. ListsOK'
  BY <1>1 DEF IInv, ListsOK, Delete, FreeList
<1>3. retired' \subseteq Lists
  BY DEF IInv, OwnersOK
<1>4. OwnersOK'
  BY DEF IInv, OwnersOK
<1>5. CallsOK'
  BY DEF IInv, CallsOK, Idle
<1>6. ASSUME NEW l \in Kept' PROVE Counted(l)'
  <2>1. l \in Kept /\ l \in Lists /\ l \notin gone
    BY <1>6 DEF Kept, IInv, OwnersOK
  <2>2. lists'[l] = lists[l] /\ Users(l)' = Users(l)
    BY <1>1, <2>1 DEF Users
  <2> QED
    BY <2>1, <2>2 DEF IInv, Counted
<1> QED
  BY <1>2, <1>4, <1>5, <1>6 DEF IInv

(* The lists that SetMethodList deletes have no call. *)
LEMMA SetMethodListKeeps == IInv /\ SetMethodList => IInv'
<1> SUFFICES ASSUME IInv, SetMethodList PROVE IInv'
  OBVIOUS
<1> USE NullIsNoAddress
<1>1. PICK new \in edit :
        LET gone == {l \in Examined(new) : ~ InUse(l)}
        IN  /\ Delete(gone)
            /\ retired' = (retired \cup Old(new)) \ gone
            /\ current' = new /\ edit' = {}
            /\ UNCHANGED <<flavor, call>>
  BY DEF SetMethodList
<1> DEFINE gone == {l \in Examined(new) : ~ InUse(l)}
<1>2. Examined(new) \subseteq Lists /\ Examined(new) \subseteq Kept
  BY DEF Examined, Old, Kept, IInv, OwnersOK
<1>3. ASSUME NEW c \in Calls, call[c] # Idle
      PROVE  call[c].list \notin gone
  <2>1. SUFFICES ASSUME call[c].list \in Examined(new), flavor = "_Delegate"
                 PROVE  lists[call[c].list].refs > 1
    BY DEF InUse, IInv, OwnersOK
  <2>2. c \in Users(call[c].list)
    BY DEF Users
  <2>3. Counted(call[c].list)
    BY <1>2, <2>1 DEF IInv
  <2> QED
    BY <2>1, <2>2, <2>3, UsedCount, UsersFinite DEF Counted
<1>4. new \notin gone /\ new \notin Examined(new)
  BY DEF Examined, Old, IInv, OwnersOK
<1>5. \A c \in Calls : call[c] # Idle => call[c].list \in retired' \cup {current'}
  BY <1>1, <1>3 DEF IInv, CallsOK, Old
<1>6. retired' \subseteq (retired \cup {current}) \ {Null} /\ current' \notin retired'
  BY <1>1, <1>2, <1>4 DEF Old, Examined
<1>7. ((retired' \cup {current'}) \ {Null}) \cap gone = {}
  BY <1>1, <1>4
<1> QED
  BY <1>1, <1>2, <1>5, <1>6, <1>7, DeleteKeeps

(* The two operations that delete whatever is retired run while no call    *)
(* does.                                                                   *)
LEMMA TrimKeeps == IInv /\ (TrimExcess \/ Destroy) => IInv'
<1> USE NullIsNoAddress
<1>1. ASSUME IInv, TrimExcess PROVE IInv'
  <2>1. retired \in SUBSET Lists /\ current \notin retired
    BY <1>1 DEF IInv, OwnersOK
  <2> QED
    BY <1>1, <2>1, DeleteKeeps DEF TrimExcess, CanLock
<1>2. ASSUME IInv, Destroy PROVE IInv'
  <2>1. (retired \cup {current}) \ {Null} \in SUBSET Lists
    BY <1>2 DEF IInv, OwnersOK
  <2> QED
    BY <1>2, <2>1, DeleteKeeps DEF Destroy
<1> QED
  BY <1>1, <1>2

(* A call that begins or returns counts itself. *)
LEMMA CallKeeps == ASSUME IInv, NEW c \in Calls, Call(c) PROVE IInv'
<1> USE NullIsNoAddress
<1>1. call[c].list = Null /\ current \in Lists /\ current \in Kept
  BY DEF Call, IInv, CallsOK, OwnersOK, Kept
<1>2. Users(current)' = Users(current) \cup {c} /\ c \notin Users(current)
  BY <1>1 DEF Call, Users, IInv, CallsOK, Idle
<1>3. Cardinality(Users(current)') = Cardinality(Users(current)) + 1
  BY <1>2, UsersFinite, FS_AddElement
<1>4. ListsOK'
  BY <1>1 DEF Call, Ref, IInv, ListsOK
<1>5. OwnersOK'
  BY DEF Call, IInv, OwnersOK
<1>6. CallsOK'
  BY <1>1 DEF Call, IInv, CallsOK, Idle
<1>7. ASSUME NEW l \in Kept' PROVE Counted(l)'
  <2>1. l \in Kept /\ l \in Lists
    BY <1>7 DEF Call, Kept, IInv, OwnersOK
  <2>2. CASE l = current
    <3>1. flavor = "_Delegate" => lists'[l].refs = lists[l].refs + 1
      BY <1>1, <2>2 DEF Call, Ref, IInv, ListsOK
    <3>2. flavor # "_Delegate" => lists'[l].refs = lists[l].refs
      BY <1>1, <2>2 DEF Call, Ref, IInv, ListsOK
    <3>3. current' = current /\ flavor' = flavor
      BY DEF Call
    <3> QED
      BY <1>3, <2>1, <2>2, <3>1, <3>2, <3>3, UsersFinite DEF IInv, Counted
  <2>3. CASE l # current
    <3>1. lists'[l] = lists[l]
      BY <2>1, <2>3 DEF Call, Ref, IInv, ListsOK
    <3>2. Users(l)' = Users(l)
      BY <1>1, <2>1, <2>3 DEF Call, Users, IInv, CallsOK
    <3> QED
      BY <2>1, <3>1, <3>2 DEF Call, IInv, Counted
  <2> QED
    BY <2>2, <2>3
<1> QED
  BY <1>4, <1>5, <1>6, <1>7 DEF IInv

LEMMA InvokeKeeps == ASSUME IInv, NEW c \in Calls, Invoke(c) PROVE IInv'
<1>1. \A l : Users(l)' = Users(l)
  BY DEF Invoke, Users, IInv, CallsOK
<1>2. ListsOK' /\ OwnersOK'
  BY DEF Invoke, IInv, ListsOK, OwnersOK
<1>3. CallsOK'
  BY NullIsNoAddress DEF Invoke, IInv, CallsOK, Idle
<1>4. \A l \in Kept' : Counted(l)'
  BY <1>1 DEF Invoke, IInv, Kept, Counted
<1> QED
  BY <1>2, <1>3, <1>4 DEF IInv

LEMMA ReturnKeeps == ASSUME IInv, NEW c \in Calls, Return(c) PROVE IInv'
<1> USE NullIsNoAddress
<1>0. PICK m : m = call[c].list
  OBVIOUS
<1>1. m \in Lists /\ m \in Kept
  BY <1>0 DEF Return, IInv, CallsOK, OwnersOK, Kept
<1>2. Users(m)' = Users(m) \ {c} /\ c \in Users(m)
  BY <1>0, <1>1 DEF Return, Users, IInv, CallsOK, Idle
<1>3. Cardinality(Users(m)') = Cardinality(Users(m)) - 1 /\ Cardinality(Users(m)) > 0
  BY <1>2, UsersFinite, UsedCount, FS_RemoveElement
<1>4. flavor = "_Delegate" => lists'[m].refs = lists[m].refs - 1
  BY <1>0, <1>1 DEF Return, Ref, IInv, ListsOK
<1>5. flavor # "_Delegate" => lists'[m].refs = lists[m].refs
  BY <1>0, <1>1 DEF Return, Ref, IInv, ListsOK
<1>6. \A l \in Lists : l # m => lists'[l] = lists[l]
  BY <1>0, <1>1 DEF Return, Ref, IInv, ListsOK
<1>7. lists[m].refs > 0 /\ (flavor = "_Delegate" => lists[m].refs - 1 \in Nat)
  BY <1>1, <1>3, UsersFinite DEF IInv, Counted
<1>8. ListsOK'
  <2>1. lists' = [l \in Lists |-> lists'[l]]
    BY <1>0, <1>1 DEF Return, Ref, IInv, ListsOK
  <2>2. "refs" \in DOMAIN lists'[m] /\ lists'[m].refs \in Nat
    <3>1. "refs" \in DOMAIN lists'[m]
      BY <1>0, <1>1 DEF Return, Ref, IInv, ListsOK
    <3> QED
      BY <1>1, <1>4, <1>5, <1>7, <3>1 DEF IInv, ListsOK
  <2> QED
    BY <1>6, <2>1, <2>2 DEF IInv, ListsOK
<1>9. OwnersOK' /\ CallsOK'
  BY DEF Return, IInv, OwnersOK, CallsOK, Idle
<1>10. ASSUME NEW l \in Kept' PROVE Counted(l)'
  <2>1. l \in Kept /\ l \in Lists /\ flavor' = flavor
    BY <1>10 DEF Return, Kept, IInv, OwnersOK
  <2>2. CASE l = m
    BY <1>1, <1>3, <1>4, <1>5, <2>1, <2>2, UsersFinite DEF IInv, Counted
  <2>3. CASE l # m
    <3>1. Users(l)' = Users(l)
      BY <1>0, <1>1, <2>1, <2>3 DEF Return, Users, IInv, CallsOK, Idle
    <3> QED
      BY <1>6, <2>1, <2>3, <3>1 DEF IInv, Counted
  <2> QED
    BY <2>2, <2>3
<1> QED
  BY <1>8, <1>9, <1>10 DEF IInv

LEMMA StepKeeps == IInv /\ [Next]_vars => IInv'
<1> SUFFICES ASSUME IInv, [Next]_vars PROVE IInv'
  OBVIOUS
<1>1. CASE \/ Clear \/ AddSelf
           \/ \E ms \in Args : SetValueInternal(ms) \/ AddInternal(ms) \/ RemoveInternal(ms)
  BY <1>1, ChangesBuild, BuildKeeps
<1>2. CASE SetMethodList \/ TrimExcess \/ Destroy
  BY <1>2, SetMethodListKeeps, TrimKeeps
<1>3. CASE CallStep
  BY <1>3, CallKeeps, InvokeKeeps, ReturnKeeps DEF CallStep
<1>4. CASE UNCHANGED vars
  <2>1. Kept' = Kept /\ \A l : Users(l)' = Users(l)
    BY <1>4 DEF vars, Kept, Users
  <2> QED
    BY <1>4, <2>1 DEF vars, IInv, ListsOK, OwnersOK, CallsOK, Counted
<1> QED
  BY <1>1, <1>2, <1>3, <1>4 DEF Next, Change

(* A list that a call is using is never deleted: in _Delegate, whose       *)
(* methods may change the delegate that calls them (lines 143-151 and      *)
(* 554-572), and in _Delegate_S, whose other threads may (641-663).        *)
THEOREM ListsInUseStay == Spec => []NoUseAfterFree
<1>1. IInv => NoUseAfterFree
  <2> SUFFICES ASSUME IInv, NEW c \in Calls, call[c] # Idle PROVE Live(call[c].list)
    BY DEF NoUseAfterFree
  <2>1. call[c].list \in Kept
    BY DEF IInv, CallsOK, Kept
  <2> QED
    BY <2>1, UsersFinite DEF IInv, Counted, Live
<1> QED
  BY <1>1, InitInvariant, StepKeeps, PTL DEF Spec

(* After a change of a _Delegate only lists that a call uses are kept      *)
(* (lines 563-571).                                                        *)
THEOREM OnlyUsedAreKept == Spec => KeepsOnlyUsed
<1> DEFINE P == flavor = "_Delegate" /\ edit # {} /\ edit' = {}
                  => \A l \in retired' : Users(l) # {}
<1>1. IInv /\ [Next]_vars => [P]_vars
  <2> SUFFICES ASSUME IInv, Next, flavor = "_Delegate", edit # {}, edit' = {},
                      NEW l \in retired'
               PROVE  Users(l) # {}
    OBVIOUS
  <2>1. SetMethodList
    BY ChangesBuild DEF Next, Change, CallStep, TrimExcess, CanLock, Destroy, Call, Invoke, Return
  <2>2. l \in Examined(current') /\ InUse(l) /\ current' \in edit
    BY <2>1 DEF SetMethodList, Examined
  <2>3. l \in Kept
    BY <2>2, NullIsNoAddress DEF Examined, Old, Kept, IInv, OwnersOK
  <2> QED
    BY <2>2, <2>3, NoUsers DEF InUse, IInv, Counted
<1> QED
  BY <1>1, InitInvariant, StepKeeps, PTL DEF Spec, KeepsOnlyUsed

-----------------------------------------------------------------------------
(* Memory: which lists have an array, and what is in it.                   *)

Holders(x) == {l \in Lists : lists[l].array = x}

Typed ==
  /\ flavor \in Flavors
  /\ lists \in [Lists -> [array : {Null} \cup Arrays, size : Nat, refs : Nat]]
  /\ arrays \in [Arrays -> [items : Seq(Methods), cap : Nat, refs : Nat]]
  /\ edit = {} \/ \E n \in {Null} \cup Lists : edit = {n}

(* Nothing is left in memory that is free. *)
FreeIsEmpty ==
  /\ \A l \in Lists : l \notin Kept => lists[l] = FreeList
  /\ \A x \in Arrays : arrays[x].refs = 0 => arrays[x] = FreeArray

(* A list is a prefix of its array, and is not empty. *)
ListsHold ==
  \A l \in Lists : l \in Kept =>
    /\ lists[l].array \in Arrays
    /\ lists[l].size \in 1 .. Len(arrays[lists[l].array].items)

(* An array counts its lists, and has room for what was pushed into it. *)
ArraysHeld ==
  \A x \in Arrays : /\ arrays[x].refs = Cardinality(Holders(x))
                    /\ Len(arrays[x].items) <= arrays[x].cap

MemInv == IInv /\ Typed /\ FreeIsEmpty /\ ListsHold /\ ArraysHeld

LEMMA HoldersFinite ==
  ASSUME NEW x
  PROVE  IsFiniteSet(Holders(x)) /\ Cardinality(Holders(x)) \in Nat
<1>1. Holders(x) \in SUBSET Lists
  BY DEF Holders
<1> QED
  BY <1>1, DelegateAssumption, FS_Subset, FS_CardinalityType

(* What the fields of lists and arrays are. *)
LEMMA Fields ==
  ASSUME Typed
  PROVE  /\ \A l \in Lists : /\ lists[l].array \in {Null} \cup Arrays
                             /\ lists[l].size \in Nat /\ lists[l].refs \in Nat
         /\ \A x \in Arrays : /\ arrays[x].items \in Seq(Methods)
                              /\ Len(arrays[x].items) \in Nat
                              /\ arrays[x].cap \in Nat /\ arrays[x].refs \in Nat
         /\ DOMAIN lists = Lists /\ DOMAIN arrays = Arrays
<1>1. \A x \in Arrays : arrays[x].items \in Seq(Methods)
  BY DEF Typed
<1>2. \A x \in Arrays : Len(arrays[x].items) \in Nat
  BY <1>1, LenProperties
<1> QED
  BY <1>1, <1>2 DEF Typed

LEMMA KeptAreLists == IInv => Kept \subseteq Lists
BY DEF IInv, OwnersOK, Kept

(* The content of a list that is kept: a prefix of its array. *)
LEMMA ContentOfKept ==
  ASSUME MemInv, NEW l \in Kept
  PROVE  /\ l \in Lists /\ l # Null /\ lists[l].array \in Arrays
         /\ Content(l) = SubSeq(arrays[lists[l].array].items, 1, lists[l].size)
         /\ Content(l) \in Seq(Methods)
         /\ Len(Content(l)) = lists[l].size
         /\ lists[l].size \in 1 .. Len(arrays[lists[l].array].items)
         /\ lists[l].size \in Nat /\ lists[l].size >= 1
<1>1. l \in Lists /\ l # Null
  BY KeptAreLists DEF MemInv, Kept
<1>2. /\ lists[l].array \in Arrays
      /\ lists[l].size \in 1 .. Len(arrays[lists[l].array].items)
  BY <1>1 DEF MemInv, ListsHold
<1>3. PICK s \in Seq(Methods), n \in Nat :
        s = arrays[lists[l].array].items /\ n = lists[l].size
  BY <1>1, <1>2, Fields DEF MemInv
<1>4. Len(s) \in Nat /\ n \in 1 .. Len(s)
  BY <1>2, <1>3, LenProperties
<1>5. \A i \in 1 .. n : s[i] \in Methods
  BY <1>4, ElementOfSeq
<1>6. SubSeq(s, 1, n) \in Seq(Methods) /\ Len(SubSeq(s, 1, n)) = n
  BY <1>4, <1>5, SubSeqProperties
<1>7. Content(l) = SubSeq(s, 1, n)
  BY <1>1, <1>3 DEF Content
<1> QED
  BY <1>1, <1>2, <1>3, <1>4, <1>6, <1>7

LEMMA ContentTyped ==
  ASSUME MemInv, NEW l \in Kept \cup {Null}
  PROVE  Content(l) \in Seq(Methods) /\ Len(Content(l)) \in Nat
<1>1. CASE l = Null
  BY <1>1, EmptySeq DEF Content
<1>2. CASE l # Null
  BY <1>2, ContentOfKept
<1> QED
  BY <1>1, <1>2

(* A list whose own memory and array are as they were, but for what was    *)
(* pushed behind it, has its content.                                      *)
LEMMA ContentStays ==
  ASSUME MemInv, NEW l \in Kept, NEW ms \in Seq(Methods),
         lists'[l].array = lists[l].array, lists'[l].size = lists[l].size,
         LET x == lists[l].array
         IN  arrays'[x].items \in {arrays[x].items, arrays[x].items \o ms}
  PROVE  Content(l)' = Content(l)
<1>1. l \in Lists /\ l # Null /\ lists[l].array \in Arrays
  BY ContentOfKept
<1>2. PICK s \in Seq(Methods), n \in Nat :
        s = arrays[lists[l].array].items /\ n = lists[l].size
  BY <1>1, Fields DEF MemInv
<1>3. Len(s) \in Nat /\ n \in 1 .. Len(s) /\ 1 \in 1 .. Len(s)
  BY <1>2, ContentOfKept
<1>4. SubSeq(s \o ms, 1, n) = SubSeq(s, 1, n)
  BY <1>3, SubSeqOfConcat1
<1>5. Content(l) = SubSeq(s, 1, n)
  BY <1>1, <1>2 DEF Content
<1>6. Content(l)' = SubSeq(arrays'[lists[l].array].items, 1, n)
  BY <1>1, <1>2 DEF Content
<1> QED
  BY <1>2, <1>4, <1>5, <1>6

-----------------------------------------------------------------------------
(* A new list.                                                             *)

LEMMA FreeAddresses ==
  ASSUME MemInv
  PROVE  /\ \A n \in FreeIn(lists) : /\ n \in Lists /\ n # Null /\ n \notin Kept
                                     /\ lists[n] = FreeList
         /\ \A x \in FreeIn(arrays) : x \in Arrays /\ Holders(x) = {}
<1>1. ASSUME NEW n \in FreeIn(lists)
      PROVE  n \in Lists /\ n # Null /\ n \notin Kept /\ lists[n] = FreeList
  <2>1. n \in Lists /\ lists[n].refs = 0
    BY <1>1, Fields DEF MemInv, FreeIn
  <2>2. Counted(n) => lists[n].refs # 0
    BY UsersFinite DEF Counted
  <2>3. n \notin Kept
    BY <2>1, <2>2 DEF MemInv, IInv
  <2> QED
    BY <2>1, <2>3, NullIsNoAddress DEF MemInv, FreeIsEmpty
<1>2. ASSUME NEW x \in FreeIn(arrays)
      PROVE  x \in Arrays /\ Holders(x) = {}
  <2>1. x \in Arrays /\ arrays[x].refs = 0
    BY <1>2, Fields DEF MemInv, FreeIn
  <2>2. Cardinality(Holders(x)) = 0
    BY <2>1 DEF MemInv, ArraysHeld
  <2> QED
    BY <2>1, <2>2, HoldersFinite, FS_EmptySet
<1> QED
  BY <1>1, <1>2

(* One more list has the array x. *)
LEMMA OneMoreHolder ==
  ASSUME MemInv, NEW n \in FreeIn(lists), NEW x \in Arrays, NEW size,
         lists' = [lists EXCEPT ![n] = [array |-> x, size |-> size, refs |-> 1]]
  PROVE  /\ Cardinality(Holders(x)') = Cardinality(Holders(x)) + 1
         /\ \A y \in Arrays : y # x => Holders(y)' = Holders(y)
<1>1. n \in Lists /\ lists[n].array = Null /\ Null \notin Arrays
  BY FreeAddresses, DelegateAssumption DEF FreeList
<1>2. \A l \in Lists : lists'[l].array = IF l = n THEN x ELSE lists[l].array
  BY <1>1, Fields DEF MemInv
<1>3. Holders(x)' = Holders(x) \cup {n} /\ n \notin Holders(x)
  BY <1>1, <1>2 DEF Holders
<1>4. \A y \in Arrays : y # x => Holders(y)' = Holders(y)
  BY <1>1, <1>2 DEF Holders
<1>5. Cardinality(Holders(x) \cup {n}) = Cardinality(Holders(x)) + 1
  BY <1>3, HoldersFinite, FS_AddElement
<1> QED
  BY <1>3, <1>4, <1>5

(* The memory after a list was built in n with the array x. *)
LEMMA NewListKeeps ==
  ASSUME MemInv, IInv', edit = {}, UNCHANGED <<flavor, current, retired, call>>,
         NEW n \in FreeIn(lists), NEW x \in Arrays, NEW size \in Nat \ {0},
         lists' = [lists EXCEPT ![n] = [array |-> x, size |-> size, refs |-> 1]],
         edit' = {n},
         arrays' \in [Arrays -> [items : Seq(Methods), cap : Nat, refs : Nat]],
         \A y \in Arrays : y # x => arrays'[y] = arrays[y],
         arrays'[x].refs = Cardinality(Holders(x)) + 1,
         size <= Len(arrays'[x].items), Len(arrays'[x].items) <= arrays'[x].cap,
         \A l \in Kept : lists[l].array = x
                           => Len(arrays[x].items) <= Len(arrays'[x].items)
  PROVE  MemInv'
<1>1. n \in Lists /\ n # Null /\ n \notin Kept
  BY FreeAddresses
<1>2. \A l \in Lists : lists'[l] = IF l = n THEN [array |-> x, size |-> size, refs |-> 1]
                                            ELSE lists[l]
  BY <1>1, Fields DEF MemInv
<1>3. Kept' = Kept \cup {n}
  BY <1>1 DEF Kept
<1>4. Typed'
  <2>1. lists' \in [Lists -> [array : {Null} \cup Arrays, size : Nat, refs : Nat]]
    BY DEF MemInv, Typed
  <2> QED
    BY <1>1, <2>1 DEF MemInv, Typed
<1>5. FreeIsEmpty'
  <2>1. ASSUME NEW l \in Lists, l \notin Kept' PROVE lists'[l] = FreeList
    BY <1>2, <1>3, <2>1 DEF MemInv, FreeIsEmpty
  <2>2. ASSUME NEW y \in Arrays, arrays'[y].refs = 0 PROVE arrays'[y] = FreeArray
    <3>1. y # x
      BY <2>2, HoldersFinite
    <3> QED
      BY <2>2, <3>1 DEF MemInv, FreeIsEmpty
  <2> QED
    BY <2>1, <2>2 DEF FreeIsEmpty
<1>6. \A y \in Arrays : Len(arrays'[y].items) \in Nat
  BY LenProperties
<1>7. ListsHold'
  <2> SUFFICES ASSUME NEW l \in Lists, l \in Kept'
               PROVE  /\ lists'[l].array \in Arrays
                      /\ lists'[l].size \in 1 .. Len(arrays'[lists'[l].array].items)
    BY DEF ListsHold
  <2>1. CASE l = n
    <3>1. lists'[l].array = x /\ lists'[l].size = size
      BY <1>2, <2>1
    <3> QED
      BY <1>6, <3>1
  <2>2. CASE l # n
    <3>1. l \in Kept /\ lists'[l] = lists[l]
      BY <1>2, <1>3, <2>2
    <3>2. PICK y \in Arrays, k \in Nat, old \in Nat, new \in Nat :
            /\ y = lists[l].array /\ k = lists[l].size /\ k >= 1 /\ k <= old
            /\ old = Len(arrays[y].items) /\ new = Len(arrays'[y].items)
      <4>1. /\ lists[l].array \in Arrays
            /\ lists[l].size \in 1 .. Len(arrays[lists[l].array].items)
        BY <3>1 DEF MemInv, ListsHold
      <4>2. lists[l].size \in Nat /\ Len(arrays[lists[l].array].items) \in Nat
        BY <4>1, Fields DEF MemInv
      <4>3. Len(arrays'[lists[l].array].items) \in Nat
        BY <1>6, <4>1
      <4> QED
        BY <4>1, <4>2, <4>3
    <3>3. old <= new
      <4>1. CASE y = x
        BY <3>1, <3>2, <4>1
      <4>2. CASE y # x
        <5>1. old = new
          BY <3>2, <4>2
        <5> QED
          BY <5>1
      <4> QED
        BY <4>1, <4>2
    <3>4. k \in 1 .. new
      <4>1. k >= 1 /\ k <= old
        BY <3>2
      <4> QED
        BY <3>3, <4>1
    <3> QED
      BY <3>1, <3>2, <3>4
  <2> QED
    BY <2>1, <2>2
<1>8. ArraysHeld'
  <2> SUFFICES ASSUME NEW y \in Arrays
               PROVE  /\ arrays'[y].refs = Cardinality(Holders(y)')
                      /\ Len(arrays'[y].items) <= arrays'[y].cap
    BY DEF ArraysHeld
  <2>1. CASE y = x
    BY <2>1, OneMoreHolder
  <2>2. CASE y # x
    <3>1. Holders(y)' = Holders(y)
      BY <2>2, OneMoreHolder
    <3> QED
      BY <2>2, <3>1 DEF MemInv, ArraysHeld
  <2> QED
    BY <2>1, <2>2
<1> QED
  BY <1>4, <1>5, <1>7, <1>8 DEF MemInv

-----------------------------------------------------------------------------
(* A change makes a list with the methods v, or takes one that is there.   *)

Makes(v) ==
  \/ \E cap \in Nat : v \in Seq(Methods) /\ Len(v) \in 1 .. cap /\ OwnArray(v, cap)
  \/ \E ms \in Seq(Methods) :
       LET array == arrays[lists[current].array]
       IN  /\ current # Null /\ SharedArray(ms, Len(v))
           /\ Len(array.items \o ms) <= array.cap
           /\ Len(v) \in 1 .. Len(array.items \o ms)
           /\ v = SubSeq(array.items \o ms, 1, Len(v))
  \/ v = << >> /\ Install(Null)
  \/ v = Content(current) /\ Install(current)

(* What a change makes is v, and no list that is kept gets another content. *)
Made(v) ==
  /\ MemInv'
  /\ \A n \in edit' : Content(n)' = v
  /\ \A l \in Kept : Content(l)' = Content(l) /\ lists'[l] = lists[l]

LEMMA OwnArrayMakes ==
  ASSUME MemInv, IInv', edit = {}, UNCHANGED <<flavor, current, retired, call>>,
         NEW v \in Seq(Methods), NEW cap \in Nat, Len(v) \in 1 .. cap, OwnArray(v, cap)
  PROVE  Made(v)
<1>1. PICK x \in FreeIn(arrays), n \in FreeIn(lists) :
        /\ arrays' = [arrays EXCEPT ![x] = [items |-> v, cap |-> cap, refs |-> 1]]
        /\ lists' = [lists EXCEPT ![n] = [array |-> x, size |-> Len(v), refs |-> 1]]
        /\ edit' = {n}
  BY DEF OwnArray
<1>2. x \in Arrays /\ Holders(x) = {} /\ n \in Lists /\ n # Null /\ n \notin Kept
  BY FreeAddresses
<1>3. Len(v) \in Nat /\ Len(v) >= 1 /\ Len(v) <= cap
  BY LenProperties
<1>4. /\ arrays' \in [Arrays -> [items : Seq(Methods), cap : Nat, refs : Nat]]
      /\ arrays'[x] = [items |-> v, cap |-> cap, refs |-> 1]
      /\ \A y \in Arrays : y # x => arrays'[y] = arrays[y]
  BY <1>1, <1>2 DEF MemInv, Typed
<1>5. Cardinality(Holders(x)) = 0
  BY <1>2, FS_EmptySet
<1>6. \A l \in Lists : lists[l].array # x
  BY <1>2 DEF Holders
<1>7. MemInv'
  <2>1. \A l \in Kept : lists[l].array # x
    BY <1>6, ContentOfKept
  <2>2. arrays'[x].refs = Cardinality(Holders(x)) + 1
    BY <1>4, <1>5
  <2>3. arrays'[x].items = v /\ arrays'[x].cap = cap
    BY <1>4
  <2>4. Len(v) \in Nat \ {0}
    BY <1>3
  <2>5. Len(v) <= Len(arrays'[x].items) /\ Len(arrays'[x].items) <= arrays'[x].cap
    BY <1>3, <2>3
  <2> QED
    BY <1>1, <1>2, <1>4, <2>1, <2>2, <2>4, <2>5, NewListKeeps
<1>8. Content(n)' = v
  <2>1. lists'[n].array = x /\ lists'[n].size = Len(v)
    BY <1>1, <1>2, Fields DEF MemInv
  <2>2. Content(n)' = SubSeq(arrays'[x].items, 1, Len(v))
    BY <1>2, <2>1 DEF Content
  <2> QED
    BY <1>4, <2>2, SubSeqFull
<1>9. ASSUME NEW l \in Kept PROVE Content(l)' = Content(l) /\ lists'[l] = lists[l]
  <2>1. l \in Lists /\ lists[l].array \in Arrays /\ lists'[l] = lists[l]
    BY <1>1, <1>2, ContentOfKept, Fields DEF MemInv
  <2>2. arrays'[lists[l].array].items = arrays[lists[l].array].items
    BY <1>4, <1>6, <2>1
  <2>3. << >> \in Seq(Methods)
    BY EmptySeq
  <2> QED
    BY <2>1, <2>2, <2>3, ContentStays
<1> QED
  BY <1>1, <1>7, <1>8, <1>9 DEF Made

LEMMA SharedArrayMakes ==
  ASSUME MemInv, IInv', edit = {}, UNCHANGED <<flavor, current, retired, call>>,
         current # Null, NEW ms \in Seq(Methods), NEW v, NEW array,
         array = arrays[lists[current].array],
         Len(array.items \o ms) <= array.cap,
         Len(v) \in 1 .. Len(array.items \o ms),
         v = SubSeq(array.items \o ms, 1, Len(v)),
         SharedArray(ms, Len(v))
  PROVE  Made(v)
<1>1. current \in Kept
  BY DEF Kept
<1>2. PICK x \in Arrays : x = lists[current].array
  BY <1>1, ContentOfKept
<1>3. PICK n \in FreeIn(lists) :
        /\ arrays' = [arrays EXCEPT ![x].items = @ \o ms, ![x].refs = @ + 1]
        /\ lists' = [lists EXCEPT ![n] = [array |-> x, size |-> Len(v), refs |-> 1]]
        /\ edit' = {n}
  BY <1>2 DEF SharedArray
<1>4. n \in Lists /\ n # Null /\ n \notin Kept
  BY FreeAddresses
<1>5. PICK s \in Seq(Methods) : s = array.items
  BY <1>2, Fields DEF MemInv
<1>6. /\ s \o ms \in Seq(Methods) /\ Len(s \o ms) = Len(s) + Len(ms)
      /\ Len(s) \in Nat /\ Len(ms) \in Nat /\ Len(s \o ms) \in Nat
  BY ConcatProperties, LenProperties
<1>7. Len(v) \in Nat /\ Len(v) >= 1 /\ Len(v) <= Len(s \o ms)
  BY <1>5, <1>6
<1>8. /\ arrays' \in [Arrays -> [items : Seq(Methods), cap : Nat, refs : Nat]]
      /\ arrays'[x].items = s \o ms /\ arrays'[x].cap = array.cap
      /\ arrays'[x].refs = array.refs + 1
      /\ \A y \in Arrays : y # x => arrays'[y] = arrays[y]
  <2>1. \A y \in Arrays : /\ y # x => arrays'[y] = arrays[y]
                          /\ y = x => arrays'[y] = [items |-> s \o ms, cap |-> array.cap,
                                                    refs |-> array.refs + 1]
    BY <1>2, <1>3, <1>5 DEF MemInv, Typed
  <2>2. array.refs + 1 \in Nat /\ array.cap \in Nat
    BY <1>2, Fields DEF MemInv
  <2>3. arrays' = [y \in Arrays |-> arrays'[y]]
    BY <1>3 DEF MemInv, Typed
  <2>4. \A y \in Arrays : arrays'[y] \in [items : Seq(Methods), cap : Nat, refs : Nat]
    <3>1. ASSUME NEW y \in Arrays, y # x
          PROVE  arrays'[y] \in [items : Seq(Methods), cap : Nat, refs : Nat]
      BY <2>1, <3>1 DEF MemInv, Typed
    <3>2. arrays'[x] = [items |-> s \o ms, cap |-> array.cap, refs |-> array.refs + 1]
      BY <2>1
    <3>3. arrays'[x] \in [items : Seq(Methods), cap : Nat, refs : Nat]
      BY <1>6, <2>2, <3>2
    <3> QED
      BY <3>1, <3>3
  <2> QED
    BY <2>1, <2>3, <2>4
<1>9. MemInv'
  <2>1. arrays'[x].refs = Cardinality(Holders(x)) + 1
    BY <1>2, <1>8 DEF MemInv, ArraysHeld
  <2>2. Len(v) \in Nat \ {0}
    BY <1>7
  <2>3. Len(v) <= Len(arrays'[x].items) /\ Len(arrays'[x].items) <= arrays'[x].cap
    BY <1>5, <1>7, <1>8
  <2>4. Len(arrays[x].items) <= Len(arrays'[x].items)
    <3>1. Len(s) <= Len(s \o ms)
      BY <1>6
    <3> QED
      BY <1>2, <1>5, <1>8, <3>1
  <2> QED
    BY <1>3, <1>4, <1>8, <2>1, <2>2, <2>3, <2>4, NewListKeeps
<1>10. Content(n)' = v
  <2>1. lists'[n].array = x /\ lists'[n].size = Len(v)
    BY <1>3, <1>4, Fields DEF MemInv
  <2>2. Content(n)' = SubSeq(arrays'[x].items, 1, Len(v))
    BY <1>4, <2>1 DEF Content
  <2> QED
    BY <1>5, <1>8, <2>2
<1>11. ASSUME NEW l \in Kept PROVE Content(l)' = Content(l) /\ lists'[l] = lists[l]
  <2>1. l \in Lists /\ lists[l].array \in Arrays /\ lists'[l] = lists[l]
    BY <1>3, <1>4, ContentOfKept, Fields DEF MemInv
  <2>2. arrays'[lists[l].array].items \in {arrays[lists[l].array].items, arrays[lists[l].array].items \o ms}
    BY <1>2, <1>5, <1>8, <2>1
  <2> QED
    BY <2>1, <2>2, ContentStays
<1> QED
  BY <1>3, <1>9, <1>10, <1>11 DEF Made

LEMMA InstallMakes ==
  ASSUME MemInv, IInv', edit = {}, UNCHANGED <<flavor, current, retired, call>>,
         NEW l \in {Null, current}, Install(l)
  PROVE  Made(Content(l))
<1>1. edit' = {l} /\ lists' = lists /\ arrays' = arrays /\ l \in {Null} \cup Lists
  BY DEF Install, MemInv, IInv, OwnersOK
<1>2. Kept' = Kept /\ \A x : Holders(x)' = Holders(x)
  BY <1>1 DEF Kept, Holders
<1>3. MemInv'
  BY <1>1, <1>2 DEF MemInv, Typed, FreeIsEmpty, ListsHold, ArraysHeld
<1>4. \A k : Content(k)' = Content(k)
  BY <1>1 DEF Content
<1> QED
  BY <1>1, <1>3, <1>4 DEF Made

LEMMA MakesIsMade ==
  ASSUME MemInv, IInv', edit = {}, UNCHANGED <<flavor, current, retired, call>>,
         NEW v, Makes(v)
  PROVE  Made(v)
<1>1. CASE v = << >> /\ Install(Null)
  <2>1. Content(Null) = << >>
    BY DEF Content
  <2> QED
    BY <1>1, <2>1, InstallMakes
<1>2. CASE v = Content(current) /\ Install(current)
  BY <1>2, InstallMakes
<1> QED
  BY <1>1, <1>2, OwnArrayMakes, SharedArrayMakes DEF Makes

-----------------------------------------------------------------------------
(* What the operations on the current list make.                           *)

(* MethodList::Add has room for what it pushes (lines 232-268). *)
LEMMA RoomToAdd ==
  ASSUME NEW array, NEW s \in Nat, NEW m \in Nat, NEW byList \in BOOLEAN,
         m >= 1, byList \/ m = 1,
         Len(array.items) \in Nat, array.cap \in Nat, array.cap >= 1,
         s <= Len(array.items), Len(array.items) <= array.cap,
         s = 0 => Len(array.items) = 0 /\ array.cap = 4
  PROVE  /\ Forks(array, s) \/ Full(array, s + m, byList)
              => /\ Grown(array, s, s + m, byList) \in Nat
                 /\ s + m <= Grown(array, s, s + m, byList)
         /\ ~ (Forks(array, s) \/ Full(array, s + m, byList))
              => s = Len(array.items) /\ s + m <= array.cap
<1>0. PICK k \in Nat, cap \in Nat : k = Len(array.items) /\ cap = array.cap
  OBVIOUS
<1>1. Forks(array, s) <=> s < k
  BY <1>0 DEF Forks
<1>2. CASE byList
  <2>1. Grown(array, s, s + m, byList) = 2 * (s + m)
    BY <1>2 DEF Grown
  <2>2. Full(array, s + m, byList) <=> s + m >= cap - 1
    BY <1>0, <1>2 DEF Full
  <2> QED
    BY <1>0, <1>1, <2>1, <2>2
<1>3. CASE ~byList
  <2>1. Grown(array, s, s + m, byList) = 2 * (IF s < k THEN s ELSE cap)
    BY <1>0, <1>1, <1>3 DEF Grown
  <2>2. Full(array, s + m, byList) <=> k = cap
    BY <1>0, <1>3 DEF Full
  <2>3. m = 1
    BY <1>3
  <2>4. 2 * s \in Nat /\ 2 * cap \in Nat
    OBVIOUS
  <2> QED
    BY <1>0, <1>1, <2>1, <2>2, <2>3, <2>4
<1> QED
  BY <1>2, <1>3

LEMMA AddToMakes ==
  ASSUME MemInv, NEW old \in {Null, current}, NEW ms \in Seq(Methods), ms # << >>,
         NEW byList \in BOOLEAN, byList \/ Len(ms) = 1, AddTo(old, ms, byList)
  PROVE  Makes(Content(old) \o ms)
<1> DEFINE array == IF old = Null THEN [items |-> << >>, cap |-> 4]
                                  ELSE arrays[lists[old].array]
<1>1. old \in Kept \cup {Null}
  BY DEF Kept
<1>2. PICK c \in Seq(Methods), s \in Nat : c = Content(old) /\ s = Len(c)
  BY <1>1, ContentTyped
<1>3. PICK m \in Nat : m = Len(ms) /\ m >= 1
  BY EmptySeq
<1>4. c \o ms \in Seq(Methods) /\ Len(c \o ms) = s + m
  BY <1>2, <1>3, ConcatProperties
<1>5. PICK items \in Seq(Methods), k \in Nat, cap \in Nat :
        /\ items = array.items /\ k = Len(items) /\ cap = array.cap /\ cap >= 1
        /\ s <= k /\ k <= cap /\ (s = 0 => k = 0 /\ cap = 4)
        /\ old # Null => c = SubSeq(items, 1, s)
  <2>1. CASE old = Null
    <3>1. c = << >> /\ s = 0
      BY <1>2, <2>1, EmptySeq DEF Content
    <3>2. array.items = << >> /\ array.cap = 4
      BY <2>1
    <3>3. << >> \in Seq(Methods) /\ Len(<< >>) = 0 /\ 0 \in Nat /\ 4 \in Nat
      BY EmptySeq
    <3>4. 0 = Len(<< >>) /\ 4 >= 1 /\ s <= 0 /\ 0 <= 4
      BY <3>1, <3>3
    <3> HIDE DEF array
    <3> QED
      BY <2>1, <3>2, <3>3, <3>4
  <2>2. CASE old # Null
    <3>1. old \in Kept /\ array = arrays[lists[old].array] /\ lists[old].array \in Arrays
      BY <1>1, <2>2, ContentOfKept
    <3>2. PICK items \in Seq(Methods), k \in Nat, cap \in Nat :
            items = array.items /\ k = Len(items) /\ cap = array.cap
      BY <3>1, Fields DEF MemInv
    <3>3. k <= cap
      BY <3>1, <3>2 DEF MemInv, ArraysHeld
    <3>4. s = lists[old].size /\ s \in 1 .. k /\ c = SubSeq(items, 1, s)
      BY <1>2, <3>1, <3>2, ContentOfKept
    <3>5. s >= 1 /\ s <= k /\ cap >= 1
      BY <3>3, <3>4
    <3>6. s = 0 => k = 0 /\ cap = 4
      BY <3>5
    <3> HIDE DEF array
    <3> QED
      BY <2>2, <3>2, <3>3, <3>4, <3>5, <3>6
  <2> QED
    BY <2>1, <2>2
<1> DEFINE copies == Forks(array, s) \/ Full(array, s + m, byList)
<1>6. /\ copies => /\ Grown(array, s, s + m, byList) \in Nat
                   /\ s + m <= Grown(array, s, s + m, byList)
      /\ ~copies => s = k /\ s + m <= cap
  <2> HIDE DEF array
  <2>1. Len(array.items) = k /\ array.cap = cap
    BY <1>5
  <2>2. byList \/ m = 1
    BY <1>3
  <2>3. m >= 1 /\ s <= k /\ k <= cap /\ cap >= 1 /\ (s = 0 => k = 0 /\ cap = 4)
    BY <1>3, <1>5
  <2>4. Len(array.items) \in Nat /\ array.cap \in Nat
    BY <2>1
  <2>5. /\ s <= Len(array.items) /\ Len(array.items) <= array.cap /\ array.cap >= 1
        /\ s = 0 => Len(array.items) = 0 /\ array.cap = 4
    BY <2>1, <2>3
  <2>6. /\ copies => /\ Grown(array, s, s + m, byList) \in Nat
                     /\ s + m <= Grown(array, s, s + m, byList)
        /\ ~copies => s = Len(array.items) /\ s + m <= array.cap
    BY <2>2, <2>3, <2>4, <2>5, RoomToAdd
  <2> QED
    BY <2>1, <2>6
<1>7. \/ copies /\ OwnArray(c \o ms, Grown(array, s, s + m, byList))
      \/ ~copies /\ old = Null /\ OwnArray(ms, 4)
      \/ ~copies /\ old # Null /\ SharedArray(ms, s + m)
  BY <1>2, <1>3 DEF AddTo
<1>8. s + m \in Nat /\ s + m >= 1
  BY <1>3
<1>9. CASE copies /\ OwnArray(c \o ms, Grown(array, s, s + m, byList))
  <2> HIDE DEF array
  <2>1. Len(c \o ms) \in 1 .. Grown(array, s, s + m, byList)
    BY <1>4, <1>6, <1>8, <1>9
  <2> QED
    BY <1>2, <1>4, <1>6, <1>9, <2>1 DEF Makes
<1>10. CASE ~copies /\ old = Null /\ OwnArray(ms, 4)
  <2>1. c = << >> /\ c \o ms = ms
    BY <1>2, <1>10, ConcatEmptySeq DEF Content
  <2>2. s = 0
    BY <1>2, <2>1, EmptySeq
  <2>3. m \in 1 .. 4
    BY <1>3, <1>5, <1>6, <1>10, <2>2
  <2> QED
    BY <1>2, <1>3, <1>10, <2>1, <2>3 DEF Makes
<1>11. CASE ~copies /\ old # Null /\ SharedArray(ms, s + m)
  <2>1. old = current /\ current # Null /\ array = arrays[lists[current].array]
    BY <1>11
  <2>2. s = k /\ s + m <= cap
    BY <1>6, <1>11
  <2>3. c = items
    BY <1>5, <1>11, <2>2, SubSeqFull
  <2>4. c \o ms = SubSeq(items \o ms, 1, Len(c \o ms))
    BY <1>4, <2>3, SubSeqFull
  <2>5. Len(items \o ms) <= cap /\ Len(c \o ms) \in 1 .. Len(items \o ms)
    BY <1>4, <1>8, <2>2, <2>3
  <2> HIDE DEF array
  <2>6. SharedArray(ms, Len(c \o ms))
    BY <1>4, <1>11
  <2> QED
    BY <1>2, <1>5, <2>1, <2>4, <2>5, <2>6 DEF Makes
<1> QED
  BY <1>7, <1>9, <1>10, <1>11

(* A bounded set of numbers has a greatest element. *)
LEMMA Greatest ==
  ASSUME NEW T \in SUBSET Nat, T # {}, NEW b \in Nat, \A n \in T : n <= b
  PROVE  Max(T) \in T /\ \A k \in T : Max(T) >= k
<1> DEFINE U == {m \in Nat : b - m \in T}
<1>1. U # {} /\ U \subseteq Nat
  <2>1. PICK n \in T : TRUE
    OBVIOUS
  <2>2. b - n \in Nat /\ b - (b - n) = n
    OBVIOUS
  <2> QED
    BY <2>2
<1>2. PICK m \in U : \A k \in U : ~ (<<k, m>> \in OpToRel(<, Nat))
  <2>1. IsWellFoundedOn(OpToRel(<, Nat), Nat)
    BY NatLessThanWellFounded
  <2> HIDE DEF OpToRel, U
  <2> QED
    BY <1>1, <2>1, WFMin
<1>3. \A k \in U : ~ (k < m)
  BY <1>2 DEF OpToRel
<1>4. ASSUME NEW k \in T PROVE b - m >= k
  <2>1. b - k \in Nat /\ b - (b - k) = k
    OBVIOUS
  <2>2. b - k \in U
    BY <2>1
  <2>3. m \in Nat /\ ~ (b - k < m)
    BY <1>3, <2>2
  <2> QED
    BY <2>1, <2>3
<1> QED
  BY <1>4 DEF Max

(* The occurrence that a removal of one method finds is the last. *)
LEMMA LastOccurrence ==
  ASSUME NEW s \in Seq(Methods), NEW m \in Range(s)
  PROVE  LET i == Max(Occurrences(s, m))
         IN  i \in DOMAIN s /\ s[i] = m /\ \A j \in DOMAIN s : s[j] = m => j <= i
<1>1. Len(s) \in Nat /\ DOMAIN s = 1 .. Len(s)
  BY LenProperties
<1>2. /\ Occurrences(s, m) \in SUBSET Nat /\ Occurrences(s, m) # {}
      /\ \A n \in Occurrences(s, m) : n <= Len(s)
  BY <1>1 DEF Occurrences, Range
<1> DEFINE i == Max(Occurrences(s, m))
<1>3. i \in Occurrences(s, m) /\ \A k \in Occurrences(s, m) : i >= k
  BY <1>1, <1>2, Greatest
<1>4. ASSUME NEW j \in DOMAIN s, s[j] = m PROVE j <= i
  <2>1. j \in Occurrences(s, m)
    BY <1>4 DEF Occurrences
  <2>2. i >= j /\ i \in Nat /\ j \in Nat
    BY <1>2, <1>3, <2>1
  <2> QED
    BY <2>2
<1>5. i \in DOMAIN s /\ s[i] = m
  BY <1>3 DEF Occurrences
<1> QED
  BY <1>4, <1>5

LEMMA RemoveAtProperties ==
  ASSUME NEW s \in Seq(Methods), NEW i \in 1 .. Len(s)
  PROVE  /\ RemoveAt(s, i) \in Seq(Methods)
         /\ Len(RemoveAt(s, i)) = Len(s) - 1
         /\ \A k \in 1 .. Len(s) - 1 : RemoveAt(s, i)[k] = IF k < i THEN s[k] ELSE s[k + 1]
<1>1. PICK n \in Nat : n = Len(s) /\ DOMAIN s = 1 .. n
  BY LenProperties
<1>2. i \in Nat /\ i >= 1 /\ i <= n /\ i - 1 \in Nat /\ i + 1 \in Nat /\ n - i \in Nat
  BY <1>1
<1> DEFINE a == SubSeq(s, 1, i - 1)
           b == SubSeq(s, i + 1, n)
<1>3. /\ a \in Seq(Methods) /\ Len(a) = i - 1
      /\ \A k \in 1 .. i - 1 : a[k] = s[k]
  <2>1. \A k \in 1 .. i - 1 : s[k] \in Methods
    BY <1>1, <1>2, ElementOfSeq
  <2>2. /\ a \in Seq(Methods)
        /\ Len(a) = IF 1 <= i - 1 THEN (i - 1) - 1 + 1 ELSE 0
        /\ \A k \in 1 .. (i - 1) - 1 + 1 : a[k] = s[1 + k - 1]
    BY <1>2, <2>1, SubSeqProperties
  <2> HIDE DEF a
  <2>3. (i - 1) - 1 + 1 = i - 1 /\ (~ (1 <= i - 1) => i - 1 = 0)
    BY <1>2
  <2>4. \A k \in Nat : 1 + k - 1 = k
    OBVIOUS
  <2> QED
    BY <2>2, <2>3, <2>4
<1>4. /\ b \in Seq(Methods) /\ Len(b) = n - i
      /\ \A k \in 1 .. n - i : b[k] = s[i + k]
  <2>1. \A k \in i + 1 .. n : s[k] \in Methods
    BY <1>1, <1>2, ElementOfSeq
  <2>2. /\ b \in Seq(Methods)
        /\ Len(b) = IF i + 1 <= n THEN n - (i + 1) + 1 ELSE 0
        /\ \A k \in 1 .. n - (i + 1) + 1 : b[k] = s[(i + 1) + k - 1]
    BY <1>2, <2>1, SubSeqProperties
  <2> HIDE DEF b
  <2>3. n - (i + 1) + 1 = n - i /\ (~ (i + 1 <= n) => n - i = 0)
    BY <1>2
  <2>4. \A k \in Nat : (i + 1) + k - 1 = i + k
    BY <1>2
  <2>5. ASSUME NEW k \in 1 .. n - i PROVE b[k] = s[i + k]
    <3>1. k \in 1 .. n - (i + 1) + 1 /\ k \in Nat
      BY <1>2, <2>3, <2>5
    <3>2. b[k] = s[(i + 1) + k - 1]
      BY <2>2, <3>1
    <3> QED
      BY <2>4, <3>1, <3>2
  <2> QED
    BY <2>2, <2>3, <2>5
<1>5. RemoveAt(s, i) = a \o b
  BY <1>1 DEF RemoveAt
<1> HIDE DEF a, b
<1>6. /\ a \o b \in Seq(Methods) /\ Len(a \o b) = (i - 1) + (n - i)
      /\ \A k \in 1 .. (i - 1) + (n - i) : (a \o b)[k] = IF k <= i - 1 THEN a[k] ELSE b[k - (i - 1)]
  <2>1. /\ a \o b \in Seq(Methods) /\ Len(a \o b) = Len(a) + Len(b)
        /\ \A k \in 1 .. Len(a) + Len(b) :
             (a \o b)[k] = IF k <= Len(a) THEN a[k] ELSE b[k - Len(a)]
    BY <1>3, <1>4, ConcatProperties
  <2>2. Len(a) = i - 1 /\ Len(b) = n - i
    BY <1>3, <1>4
  <2> QED
    BY <2>1, <2>2
<1>7. (i - 1) + (n - i) = n - 1
  BY <1>2
<1>8. ASSUME NEW k \in 1 .. n - 1
      PROVE  (a \o b)[k] = IF k < i THEN s[k] ELSE s[k + 1]
  <2>1. (a \o b)[k] = IF k <= i - 1 THEN a[k] ELSE b[k - (i - 1)]
    BY <1>6, <1>7
  <2>2. CASE k < i
    <3>1. k \in 1 .. i - 1 /\ k <= i - 1
      BY <1>2, <2>2
    <3> QED
      BY <1>3, <2>1, <2>2, <3>1
  <2>3. CASE ~ (k < i)
    <3>1. ~ (k <= i - 1) /\ k - (i - 1) \in 1 .. n - i /\ i + (k - (i - 1)) = k + 1
      BY <1>2, <2>3
    <3>2. b[k - (i - 1)] = s[i + (k - (i - 1))]
      BY <1>4, <3>1
    <3> QED
      BY <2>1, <2>3, <3>1, <3>2
  <2> QED
    BY <2>2, <2>3
<1> QED
  BY <1>1, <1>5, <1>6, <1>7, <1>8

(* The abstract specification counts with the same operator. *)
LEMMA AbstractCardinality == \A S : Abstract!Cardinality(S) = Cardinality(S)
BY DEF Abstract!Cardinality, Cardinality

(* Removing the last occurrence of a method is removing the list of it. *)
LEMMA RemoveOneIsWithout ==
  ASSUME NEW s \in Seq(Methods), NEW i \in 1 .. Len(s),
         \A j \in DOMAIN s : s[j] = s[i] => j <= i
  PROVE  RemoveAt(s, i) \in Abstract!Without(s, <<s[i]>>)
<1>1. PICK n \in Nat : n = Len(s) /\ DOMAIN s = 1 .. n
  BY LenProperties
<1>2. i \in Nat /\ i >= 1 /\ i <= n /\ n - 1 \in Nat
  BY <1>1
<1> DEFINE later(j) == {k \in j + 1 .. n : s[k] = s[j]}
           kept == {j \in 1 .. n : Cardinality(later(j)) >= Abstract!Count(<<s[i]>>, s[j])}
<1>3. \A j \in 1 .. n : IsFiniteSet(later(j)) /\ Cardinality(later(j)) \in Nat
  <2> TAKE j \in 1 .. n
  <2>1. IsFiniteSet(j + 1 .. n) /\ later(j) \in SUBSET (j + 1 .. n)
    BY FS_Interval
  <2> HIDE DEF later
  <2> QED
    BY <2>1, FS_Subset, FS_CardinalityType
<1>4. \A j \in 1 .. n : Abstract!Count(<<s[i]>>, s[j]) = IF s[j] = s[i] THEN 1 ELSE 0
  <2> TAKE j \in 1 .. n
  <2>1. Abstract!Count(<<s[i]>>, s[j]) = Cardinality({k \in DOMAIN <<s[i]>> : <<s[i]>>[k] = s[j]})
    BY AbstractCardinality DEF Abstract!Count
  <2>2. DOMAIN <<s[i]>> = {1} /\ <<s[i]>>[1] = s[i]
    OBVIOUS
  <2>3. {k \in DOMAIN <<s[i]>> : <<s[i]>>[k] = s[j]} = IF s[j] = s[i] THEN {1} ELSE {}
    BY <2>2
  <2> QED
    BY <2>1, <2>3, FS_EmptySet, FS_Singleton
<1>5. kept = (1 .. n) \ {i}
  <2>1. ASSUME NEW j \in 1 .. n, j # i PROVE j \in kept
    <3>1. CASE s[j] # s[i]
      <4>1. Abstract!Count(<<s[i]>>, s[j]) = 0 /\ Cardinality(later(j)) \in Nat
        BY <1>3, <1>4, <3>1
      <4> HIDE DEF later
      <4> QED
        BY <4>1
    <3>2. CASE s[j] = s[i]
      <4>1. j < i
        BY <1>1, <1>2, <2>1, <3>2
      <4>2. i \in later(j)
        BY <1>2, <3>2, <4>1
      <4>3. Cardinality(later(j)) # 0
        <5> HIDE DEF later
        <5> QED
          BY <1>3, <4>2, FS_EmptySet
      <4>4. Cardinality(later(j)) >= 1
        <5> HIDE DEF later
        <5> QED
          BY <1>3, <4>3
      <4> QED
        BY <1>4, <3>2, <4>4
    <3> QED
      BY <3>1, <3>2
  <2>2. i \notin kept
    <3>1. later(i) = {}
      BY <1>1, <1>2
    <3>2. Cardinality(later(i)) = 0
      BY <3>1, FS_EmptySet
    <3>3. i \in 1 .. n
      BY <1>2
    <3> QED
      BY <1>4, <3>2, <3>3
  <2> QED
    BY <2>1, <2>2
<1>6. Cardinality(kept) = n - 1
  <2>1. IsFiniteSet(1 .. n) /\ Cardinality(1 .. n) = n
    BY <1>2, FS_Interval
  <2>2. i \in 1 .. n
    BY <1>2
  <2> HIDE DEF kept
  <2> QED
    BY <1>5, <2>1, <2>2, FS_RemoveElement
<1> DEFINE f == [k \in 1 .. n - 1 |-> IF k < i THEN k ELSE k + 1]
<1>7. /\ f \in [1 .. n - 1 -> kept] /\ DOMAIN f = 1 .. n - 1
      /\ \A k, l \in DOMAIN f : k < l => f[k] < f[l]
  <2> HIDE DEF kept
  <2> QED
    BY <1>2, <1>5
<1>8. RemoveAt(s, i) = [k \in DOMAIN f |-> s[f[k]]]
  <2>1. /\ RemoveAt(s, i) \in Seq(Methods) /\ Len(RemoveAt(s, i)) = n - 1
        /\ \A k \in 1 .. n - 1 : RemoveAt(s, i)[k] = IF k < i THEN s[k] ELSE s[k + 1]
    BY <1>1, RemoveAtProperties
  <2>2. RemoveAt(s, i) = [k \in 1 .. n - 1 |-> RemoveAt(s, i)[k]]
    BY <2>1, LenProperties
  <2>3. \A k \in 1 .. n - 1 : RemoveAt(s, i)[k] = s[f[k]]
    BY <2>1
  <2>4. DOMAIN f = 1 .. n - 1
    OBVIOUS
  <2> HIDE DEF f
  <2> QED
    BY <2>2, <2>3, <2>4
<1>9. Abstract!Without(s, <<s[i]>>) =
        {[k \in DOMAIN g |-> s[g[k]]] :
           g \in {h \in [1 .. Cardinality(kept) -> kept] :
                    \A k, l \in DOMAIN h : k < l => h[k] < h[l]}}
  BY <1>1, AbstractCardinality DEF Abstract!Without
<1> HIDE DEF kept, f
<1> QED
  BY <1>6, <1>7, <1>8, <1>9

Results(s) ==
  {s, << >>, s \o s} \cup UNION {{args, s \o args} \cup Abstract!Without(s, args) : args \in Args}

LEMMA SubSeqIsRemoveAt ==
  ASSUME NEW s \in Seq(Methods), Len(s) > 1
  PROVE  SubSeq(s, 1, Len(s) - 1) = RemoveAt(s, Len(s))
<1>1. PICK n \in Nat : n = Len(s) /\ n > 1 /\ n - 1 \in Nat
  BY LenProperties
<1>2. SubSeq(s, n + 1, n) = << >>
  BY <1>1, SubSeqEmpty
<1>3. \A k \in 1 .. n - 1 : s[k] \in Methods
  BY <1>1, ElementOfSeq
<1>4. SubSeq(s, 1, n - 1) \in Seq(Methods)
  BY <1>1, <1>3, SubSeqProperties
<1>5. RemoveAt(s, n) = SubSeq(s, 1, n - 1) \o << >>
  BY <1>1, <1>2 DEF RemoveAt
<1> QED
  BY <1>1, <1>4, <1>5, ConcatEmptySeq

(* Removing one method (lines 269-295). *)
LEMMA RemoveMethodMakes ==
  ASSUME MemInv, current # Null, NEW m, RemoveMethod(m)
  PROVE  \E v \in {Content(current), << >>} \cup Abstract!Without(Content(current), <<m>>) : Makes(v)
<1>1. current \in Kept
  BY DEF Kept
<1>2. PICK s \in Seq(Methods), n \in Nat :
        s = Content(current) /\ n = Len(s) /\ n >= 1 /\ DOMAIN s = 1 .. n
  BY <1>1, ContentOfKept, LenProperties
<1>3. CASE Install(current)
  BY <1>3 DEF Makes
<1>4. CASE Install(Null)
  BY <1>4 DEF Makes
<1>5. ASSUME n > 1, Last(s) = m, SharedArray(<< >>, n - 1)
      PROVE  \E v \in Abstract!Without(s, <<m>>) : Makes(v)
  <2> DEFINE v == SubSeq(s, 1, n - 1)
  <2>1. v = RemoveAt(s, n) /\ s[n] = m
    BY <1>2, <1>5, SubSeqIsRemoveAt DEF Last
  <2>2. n \in 1 .. n
    BY <1>2
  <2>3. v \in Abstract!Without(s, <<m>>)
    <3>1. \A j \in DOMAIN s : s[j] = s[n] => j <= n
      BY <1>2
    <3> HIDE DEF v
    <3> QED
      BY <1>2, <2>1, <2>2, <3>1, RemoveOneIsWithout
  <2>4. v \in Seq(Methods) /\ Len(v) = n - 1
    <3> HIDE DEF v
    <3> QED
      BY <1>2, <2>1, <2>2, RemoveAtProperties
  <2>5. PICK items \in Seq(Methods), k \in Nat :
          /\ items = arrays[lists[current].array].items /\ k = Len(items)
          /\ n <= k /\ s = SubSeq(items, 1, n) /\ k <= arrays[lists[current].array].cap
    <3>1. lists[current].array \in Arrays /\ n = lists[current].size /\ s = SubSeq(arrays[lists[current].array].items, 1, n)
          /\ n \in 1 .. Len(arrays[lists[current].array].items)
      BY <1>1, <1>2, ContentOfKept
    <3>2. PICK items \in Seq(Methods), k \in Nat :
            items = arrays[lists[current].array].items /\ k = Len(items)
      BY <3>1, Fields DEF MemInv
    <3>3. k <= arrays[lists[current].array].cap
      BY <3>1, <3>2 DEF MemInv, ArraysHeld
    <3>4. n <= k /\ s = SubSeq(items, 1, n)
      BY <3>1, <3>2
    <3> QED
      BY <3>2, <3>3, <3>4
  <2>6. items \o << >> = items /\ << >> \in Seq(Methods)
    BY ConcatEmptySeq, EmptySeq
  <2>7. v = SubSeq(items, 1, n - 1)
    <3>1. 1 \in 1 .. k /\ n \in 1 .. k /\ 1 \in 1 .. n - 1 + 1 /\ n - 1 \in 1 .. n - 1 + 1
      BY <1>2, <1>5, <2>5
    <3>2. SubSeq(SubSeq(items, 1, n), 1, n - 1) = SubSeq(items, 1 + 1 - 1, 1 + (n - 1) - 1)
      BY <2>5, <3>1, SubSeqOfSubSeq
    <3> QED
      BY <1>2, <2>5, <3>2
  <2>8. n - 1 \in 1 .. k
    BY <1>2, <1>5, <2>5
  <2> HIDE DEF v
  <2>9. /\ SharedArray(<< >>, Len(v)) /\ Len(items \o << >>) <= arrays[lists[current].array].cap
        /\ Len(v) \in 1 .. Len(items \o << >>) /\ v = SubSeq(items \o << >>, 1, Len(v))
    BY <1>5, <2>4, <2>5, <2>6, <2>7, <2>8
  <2>10. Makes(v)
    BY <2>5, <2>6, <2>9 DEF Makes
  <2> QED
    BY <2>3, <2>10
<1>6. ASSUME m \in Range(s), Last(s) # m, OwnArray(RemoveAt(s, Max(Occurrences(s, m))), 2 * (n - 1))
      PROVE  \E v \in Abstract!Without(s, <<m>>) : Makes(v)
  <2>1. PICK i : i = Max(Occurrences(s, m))
    OBVIOUS
  <2>2. i \in 1 .. n /\ s[i] = m /\ \A j \in DOMAIN s : s[j] = m => j <= i
    BY <1>2, <1>6, <2>1, LastOccurrence
  <2>3. i # n
    BY <1>2, <1>6, <2>2 DEF Last
  <2>4. n > 1
    BY <1>2, <2>2, <2>3
  <2>5. RemoveAt(s, i) \in Abstract!Without(s, <<m>>)
    BY <1>2, <2>2, RemoveOneIsWithout
  <2>6. RemoveAt(s, i) \in Seq(Methods) /\ Len(RemoveAt(s, i)) = n - 1
    BY <1>2, <2>2, RemoveAtProperties
  <2>7. 2 * (n - 1) \in Nat /\ n - 1 \in 1 .. 2 * (n - 1)
    BY <1>2, <2>4
  <2> QED
    BY <1>6, <2>1, <2>5, <2>6, <2>7 DEF Makes
<1> QED
  BY <1>2, <1>3, <1>4, <1>5, <1>6 DEF RemoveMethod

(* Picking some elements of a sequence. *)
LEMMA PickedProperties ==
  ASSUME NEW s \in Seq(Methods), NEW indexes \in SUBSET DOMAIN s, NEW p \in Picked(s, indexes)
  PROVE  p \in Seq(Methods) /\ Len(p) = Cardinality(indexes) /\ Cardinality(indexes) \in Nat
<1>1. PICK n \in Nat : n = Len(s) /\ DOMAIN s = 1 .. n /\ \A k \in 1 .. n : s[k] \in Methods
  BY LenProperties, ElementOfSeq
<1>2. PICK c \in Nat : c = Cardinality(indexes)
  <2>1. IsFiniteSet(1 .. n) /\ indexes \in SUBSET (1 .. n)
    BY <1>1, FS_Interval
  <2>2. IsFiniteSet(indexes)
    BY <2>1, FS_Subset
  <2> QED
    BY <2>2, FS_CardinalityType
<1>3. PICK f \in [1 .. c -> indexes] : p = [k \in DOMAIN f |-> s[f[k]]]
  BY <1>2 DEF Picked
<1>4. p = [k \in 1 .. c |-> s[f[k]]] /\ \A k \in 1 .. c : s[f[k]] \in Methods
  BY <1>1, <1>3
<1>5. p \in [1 .. c -> Methods]
  BY <1>4
<1> QED
  BY <1>2, <1>5

(* Removing another list: what it leaves is what the abstract specification *)
(* says (lines 296-368).                                                   *)
LEMMA PickedIsWithout ==
  ASSUME NEW s \in Seq(Methods), NEW ms
  PROVE  Picked(s, LeftIndexes(s, ms)) = Abstract!Without(s, ms)
<1>1. PICK n \in Nat : n = Len(s) /\ DOMAIN s = 1 .. n
  BY LenProperties
<1>2. \A i \in 1 .. n : {j \in Occurrences(s, s[i]) : j > i} = {j \in i + 1 .. n : s[j] = s[i]}
  BY <1>1 DEF Occurrences
<1>3. \A m : Abstract!Count(ms, m) = Cardinality(Occurrences(ms, m))
  BY AbstractCardinality DEF Abstract!Count, Occurrences
<1> DEFINE kept == {i \in DOMAIN s : Cardinality({j \in i + 1 .. n : s[j] = s[i]}) >= Abstract!Count(ms, s[i])}
<1>4. LeftIndexes(s, ms) = kept
  <2>1. \A i \in DOMAIN s : {j \in Occurrences(s, s[i]) : j > i} = {j \in i + 1 .. n : s[j] = s[i]}
    BY <1>1, <1>2
  <2>2. ASSUME NEW i \in DOMAIN s
        PROVE  (Cardinality({j \in Occurrences(s, s[i]) : j > i}) >= Cardinality(Occurrences(ms, s[i])))
                 <=> (Cardinality({j \in i + 1 .. n : s[j] = s[i]}) >= Abstract!Count(ms, s[i]))
    BY <1>3, <2>1
  <2> QED
    BY <2>2, Zenon DEF LeftIndexes
<1>5. Abstract!Without(s, ms) =
        {[k \in DOMAIN g |-> s[g[k]]] :
           g \in {h \in [1 .. Cardinality(kept) -> kept] :
                    \A k, l \in DOMAIN h : k < l => h[k] < h[l]}}
  BY <1>1, AbstractCardinality DEF Abstract!Without
<1> HIDE DEF kept
<1> QED
  BY <1>4, <1>5 DEF Picked

LEMMA RemoveListMakes ==
  ASSUME MemInv, current # Null, NEW ms \in Args, RemoveList(ms)
  PROVE  \E v \in Results(Content(current)) : Makes(v)
<1>1. current \in Kept
  BY DEF Kept
<1>2. PICK s \in Seq(Methods) : s = Content(current)
  BY <1>1, ContentOfKept
<1>3. Abstract!Without(s, ms) \subseteq Results(s) /\ s \in Results(s) /\ << >> \in Results(s)
  BY DEF Results
<1>4. CASE Len(ms) = 1 /\ RemoveMethod(ms[1])
  <2>1. ms \in Seq(Methods)
    BY DelegateAssumption
  <2>2. ms = <<ms[1]>>
    BY <1>4, <2>1
  <2> QED
    BY <1>2, <1>3, <1>4, <2>2, RemoveMethodMakes
<1>5. CASE Install(current) \/ Install(Null)
  BY <1>2, <1>3, <1>5 DEF Makes
<1>6. ASSUME LeftIndexes(s, ms) # {}, NEW p \in Picked(s, LeftIndexes(s, ms)),
             OwnArray(p, Cardinality(LeftIndexes(s, ms)))
      PROVE  \E v \in Results(Content(current)) : Makes(v)
  <2>1. LeftIndexes(s, ms) \in SUBSET DOMAIN s
    BY DEF LeftIndexes
  <2>2. PICK c \in Nat : c = Cardinality(LeftIndexes(s, ms)) /\ p \in Seq(Methods) /\ Len(p) = c
    BY <1>6, <2>1, PickedProperties
  <2>3. c # 0
    <3>1. IsFiniteSet(DOMAIN s)
      BY LenProperties, FS_Interval
    <3> QED
      BY <1>6, <2>1, <2>2, <3>1, FS_Subset, FS_EmptySet
  <2>4. Len(p) \in 1 .. c
    BY <2>2, <2>3
  <2>5. Makes(p)
    BY <1>6, <2>2, <2>4 DEF Makes
  <2>6. p \in Results(s)
    BY <1>3, <1>6, PickedIsWithout
  <2> QED
    BY <1>2, <2>5, <2>6
<1> QED
  BY <1>2, <1>4, <1>5, <1>6 DEF RemoveList

LEMMA ChangesMake ==
  ASSUME MemInv,
         \/ Clear \/ AddSelf
         \/ \E ms \in Args : SetValueInternal(ms) \/ AddInternal(ms) \/ RemoveInternal(ms)
  PROVE  \E v \in Results(Content(current)) : Makes(v)
<1>1. current \in Kept \cup {Null}
  BY DEF Kept
<1>2. Content(current) \in Seq(Methods)
  BY <1>1, ContentTyped
<1>3. CASE Clear
  BY <1>3 DEF Clear, Makes, Results
<1>4. CASE AddSelf
  <2>1. current # Null /\ AddTo(current, Content(current), TRUE)
    BY <1>4 DEF AddSelf
  <2>2. Content(current) # << >>
    BY <1>1, <1>2, <2>1, ContentOfKept, EmptySeq
  <2>3. Makes(Content(current) \o Content(current))
    BY <1>2, <2>1, <2>2, AddToMakes
  <2> QED
    BY <2>3 DEF Results
<1>5. ASSUME NEW ms \in Args, SetValueInternal(ms)
      PROVE  \E v \in Results(Content(current)) : Makes(v)
  <2>1. ms \in Seq(Methods) /\ ms # << >>
    BY DelegateAssumption
  <2>2. PICK byList \in {TRUE, Len(ms) # 1} : AddTo(Null, ms, byList)
    BY <1>5 DEF SetValueInternal
  <2>3. byList \in BOOLEAN /\ (byList \/ Len(ms) = 1)
    BY <2>2
  <2>4. Makes(Content(Null) \o ms)
    BY <2>1, <2>2, <2>3, AddToMakes
  <2>5. Content(Null) \o ms = ms
    BY <2>1, ConcatEmptySeq DEF Content
  <2> QED
    BY <2>4, <2>5 DEF Results
<1>6. ASSUME NEW ms \in Args, AddInternal(ms)
      PROVE  \E v \in Results(Content(current)) : Makes(v)
  <2>1. ms \in Seq(Methods) /\ ms # << >>
    BY DelegateAssumption
  <2>2. PICK byList \in {TRUE, Len(ms) # 1} : AddTo(current, ms, byList)
    BY <1>6 DEF AddInternal
  <2>3. byList \in BOOLEAN /\ (byList \/ Len(ms) = 1)
    BY <2>2
  <2>4. Makes(Content(current) \o ms)
    <3>1. PICK old \in {Null, current} : old = current
      OBVIOUS
    <3>2. AddTo(old, ms, byList)
      BY <2>2, <3>1
    <3>3. Makes(Content(old) \o ms)
      BY <2>1, <2>3, <3>2, AddToMakes
    <3> QED
      BY <3>1, <3>3
  <2>5. Content(current) \o ms \in Results(Content(current))
    BY DEF Results
  <2> QED
    BY <2>4, <2>5
<1>7. ASSUME NEW ms \in Args, RemoveInternal(ms)
      PROVE  \E v \in Results(Content(current)) : Makes(v)
  BY <1>7, RemoveListMakes DEF RemoveInternal
<1> QED
  BY <1>3, <1>4, <1>5, <1>6, <1>7

-----------------------------------------------------------------------------
(* Deletions.                                                              *)

(* Deleting lists releases their arrays, and leaves the other lists alone. *)
LEMMA DeleteKeepsMemory ==
  ASSUME MemInv, IInv', NEW gone \in SUBSET Kept, Delete(gone),
         Kept' = Kept \ gone, edit' = {}, flavor' = flavor
  PROVE  MemInv' /\ \A l \in Kept' : Content(l)' = Content(l) /\ lists'[l] = lists[l]
<1>1. gone \in SUBSET Lists /\ Null \notin Arrays
  BY ContentOfKept, DelegateAssumption
<1>2. \A l \in Lists : lists'[l] = IF l \in gone THEN FreeList ELSE lists[l]
  BY DEF Delete
<1> DEFINE left(x) == arrays[x].refs - Cardinality({l \in gone : lists[l].array = x})
<1>3. \A x \in Arrays :
        arrays'[x] = IF left(x) = 0 THEN FreeArray ELSE [arrays[x] EXCEPT !.refs = left(x)]
  BY DEF Delete
<1>4. ASSUME NEW x \in Arrays
      PROVE  left(x) = Cardinality(Holders(x)') /\ left(x) \in Nat
  <2>1. Holders(x)' = Holders(x) \ gone
    BY <1>1, <1>2 DEF Holders, FreeList
  <2>2. {l \in gone : lists[l].array = x} = Holders(x) \cap gone
    BY <1>1 DEF Holders
  <2>3. Cardinality(Holders(x) \ gone) = Cardinality(Holders(x)) - Cardinality(Holders(x) \cap gone)
    BY HoldersFinite, FS_Difference
  <2>4. arrays[x].refs = Cardinality(Holders(x))
    BY DEF MemInv, ArraysHeld
  <2>5. IsFiniteSet(Holders(x) \ gone)
    BY HoldersFinite, FS_Difference
  <2>6. Cardinality(Holders(x) \ gone) \in Nat
    BY <2>5, FS_CardinalityType
  <2> QED
    BY <2>1, <2>2, <2>3, <2>4, <2>6
<1> HIDE DEF left
<1>5. \A x \in Arrays : /\ arrays'[x].refs = left(x)
                        /\ left(x) = 0 => arrays'[x] = FreeArray
                        /\ left(x) # 0 => /\ arrays'[x].items = arrays[x].items
                                          /\ arrays'[x].cap = arrays[x].cap
  <2> TAKE x \in Arrays
  <2>1. CASE left(x) = 0
    <3>1. arrays'[x] = FreeArray /\ FreeArray.refs = 0
      BY <1>3, <2>1 DEF FreeArray
    <3> QED
      BY <2>1, <3>1
  <2>2. CASE left(x) # 0
    <3>1. arrays[x] \in [items : Seq(Methods), cap : Nat, refs : Nat]
      BY DEF MemInv, Typed
    <3>2. arrays'[x] = [arrays[x] EXCEPT !.refs = left(x)]
      BY <1>3, <2>2
    <3> QED
      BY <2>2, <3>1, <3>2
  <2> QED
    BY <2>1, <2>2
<1>6. Typed'
  <2>1. FreeList \in [array : {Null} \cup Arrays, size : Nat, refs : Nat]
    BY DEF FreeList
  <2>2. lists' \in [Lists -> [array : {Null} \cup Arrays, size : Nat, refs : Nat]]
    <3>1. lists' = [l \in Lists |-> lists'[l]]
      BY DEF Delete
    <3> QED
      BY <1>2, <2>1, <3>1 DEF MemInv, Typed
  <2>3. FreeArray \in [items : Seq(Methods), cap : Nat, refs : Nat]
    BY EmptySeq DEF FreeArray
  <2>4. arrays' \in [Arrays -> [items : Seq(Methods), cap : Nat, refs : Nat]]
    <3>1. arrays' = [x \in Arrays |-> arrays'[x]]
      BY DEF Delete
    <3>2. \A x \in Arrays : arrays'[x] \in [items : Seq(Methods), cap : Nat, refs : Nat]
      BY <1>3, <1>4, <2>3 DEF MemInv, Typed
    <3> QED
      BY <3>1, <3>2
  <2> QED
    BY <2>2, <2>4 DEF MemInv, Typed
<1>7. FreeIsEmpty'
  <2>1. ASSUME NEW l \in Lists, l \notin Kept' PROVE lists'[l] = FreeList
    BY <1>2, <2>1 DEF MemInv, FreeIsEmpty
  <2>2. ASSUME NEW x \in Arrays, arrays'[x].refs = 0 PROVE arrays'[x] = FreeArray
    BY <1>5, <2>2
  <2> QED
    BY <2>1, <2>2 DEF FreeIsEmpty
<1>8. ASSUME NEW l \in Kept'
      PROVE  /\ l \in Lists /\ l \in Kept /\ lists'[l] = lists[l] /\ lists[l].array \in Arrays
             /\ arrays'[lists[l].array].items = arrays[lists[l].array].items
  <2>1. l \in Kept /\ l \in Lists /\ l \notin gone /\ lists[l].array \in Arrays
    BY <1>8, ContentOfKept
  <2>2. lists'[l] = lists[l]
    BY <1>2, <2>1
  <2>3. PICK x \in Arrays : x = lists[l].array
    BY <2>1
  <2>4. l \in Holders(x)'
    BY <2>1, <2>2, <2>3 DEF Holders
  <2>5. left(x) # 0
    <3>1. IsFiniteSet(Holders(x)')
      <4>1. Holders(x)' \in SUBSET Lists
        BY DEF Holders
      <4> QED
        BY <4>1, DelegateAssumption, FS_Subset
    <3> QED
      BY <1>4, <2>4, <3>1, FS_EmptySet
  <2> QED
    BY <1>5, <2>1, <2>2, <2>3, <2>5
<1>9. ListsHold'
  <2> SUFFICES ASSUME NEW l \in Lists, l \in Kept'
               PROVE  /\ lists'[l].array \in Arrays
                      /\ lists'[l].size \in 1 .. Len(arrays'[lists'[l].array].items)
    BY DEF ListsHold
  <2> QED
    BY <1>8 DEF MemInv, ListsHold
<1>10. ArraysHeld'
  <2> SUFFICES ASSUME NEW x \in Arrays
               PROVE  /\ arrays'[x].refs = Cardinality(Holders(x)')
                      /\ Len(arrays'[x].items) <= arrays'[x].cap
    BY DEF ArraysHeld
  <2>1. arrays'[x].refs = Cardinality(Holders(x)')
    BY <1>4, <1>5
  <2>2. CASE left(x) = 0
    BY <1>5, <2>1, <2>2, EmptySeq DEF FreeArray
  <2>3. CASE left(x) # 0
    BY <1>5, <2>1, <2>3 DEF MemInv, ArraysHeld
  <2> QED
    BY <2>2, <2>3
<1>11. ASSUME NEW l \in Kept' PROVE Content(l)' = Content(l) /\ lists'[l] = lists[l]
  <2>1. << >> \in Seq(Methods)
    BY EmptySeq
  <2> QED
    BY <1>8, <2>1, ContentStays
<1> QED
  BY <1>6, <1>7, <1>9, <1>10, <1>11 DEF MemInv

(* A step of a call changes the count of its list, and no content. *)
LEMMA RefKeepsMemory ==
  ASSUME MemInv, IInv', NEW l \in Kept, NEW n, Ref(l, n),
         UNCHANGED <<flavor, arrays, current, retired, edit>>
  PROVE  /\ MemInv'
         /\ \A k \in Kept : Content(k)' = Content(k) /\ lists'[k].size = lists[k].size
<1>1. l \in Lists
  BY ContentOfKept
<1>2. \A k \in Lists : /\ lists'[k].array = lists[k].array
                       /\ lists'[k].size = lists[k].size
                       /\ k # l => lists'[k] = lists[k]
  BY <1>1 DEF Ref, MemInv, Typed
<1>3. Kept' = Kept /\ \A x : Holders(x)' = Holders(x)
  BY <1>2 DEF Kept, Holders
<1>4. Typed'
  <2>1. /\ lists' = [k \in Lists |-> lists'[k]]
        /\ \A k \in Lists : lists'[k].refs \in Nat
    BY DEF IInv, ListsOK
  <2>2. lists'[l] = [array |-> lists[l].array, size |-> lists[l].size, refs |-> lists'[l].refs]
    BY <1>1 DEF Ref, MemInv, Typed
  <2>3. \A k \in Lists : lists'[k] \in [array : {Null} \cup Arrays, size : Nat, refs : Nat]
    BY <1>1, <1>2, <2>1, <2>2 DEF MemInv, Typed
  <2> QED
    BY <2>1, <2>3 DEF MemInv, Typed
<1>5. FreeIsEmpty'
  BY <1>2, <1>3 DEF MemInv, FreeIsEmpty
<1>6. ListsHold' /\ ArraysHeld'
  BY <1>2, <1>3 DEF MemInv, ListsHold, ArraysHeld
<1>7. \A k \in Kept : Content(k)' = Content(k) /\ lists'[k].size = lists[k].size
  BY <1>2, ContentOfKept DEF Content
<1> QED
  BY <1>4, <1>5, <1>6, <1>7 DEF MemInv

-----------------------------------------------------------------------------
(* What each step does to the lists that are kept.                         *)

(* The state between the building of a list and its installation: what is  *)
(* about to be installed follows from what the delegate is.                *)
Pending == \A n \in edit : Content(n) \in Results(Content(current))

(* A change: it leaves the content of every list alone, and what it has    *)
(* built is a result of the current content.                               *)
LEMMA ChangeStep ==
  ASSUME MemInv, IInv',
         \/ Clear \/ AddSelf
         \/ \E ms \in Args : SetValueInternal(ms) \/ AddInternal(ms) \/ RemoveInternal(ms)
  PROVE  /\ MemInv' /\ Pending' /\ UNCHANGED <<current, call>>
         /\ \A l \in Kept \cup {Null} : Content(l)' = Content(l) /\ (l # Null => lists'[l] = lists[l])
<1>1. edit = {} /\ UNCHANGED <<flavor, current, retired, call>>
  BY ChangesBuild
<1>2. PICK v \in Results(Content(current)) : Makes(v)
  BY ChangesMake
<1>3. Made(v)
  BY <1>1, <1>2, MakesIsMade
<1>4. Content(Null)' = Content(Null)
  BY DEF Content
<1>5. current \in Kept \cup {Null}
  BY DEF Kept
<1>6. \A l \in Kept \cup {Null} : Content(l)' = Content(l) /\ (l # Null => lists'[l] = lists[l])
  BY <1>3, <1>4 DEF Made
<1>7. Pending'
  <2>1. Content(current)' = Content(current)
    <3>1. PICK l \in Kept \cup {Null} : l = current
      BY <1>5
    <3>2. Content(l)' = Content(l)
      BY <1>6
    <3>3. Content(current)' = Content(l)'
      BY <1>1, <3>1 DEF Content
    <3> QED
      BY <3>1, <3>2, <3>3
  <2>2. \A n \in edit' : Content(n)' = v
    BY <1>3 DEF Made
  <2>3. Results(Content(current))' = Results(Content(current))
    BY <2>1 DEF Results
  <2> QED
    BY <1>1, <1>2, <2>2, <2>3 DEF Pending
<1> QED
  BY <1>1, <1>3, <1>6, <1>7 DEF Made

(* The installation of a list: the delegate becomes what was built.        *)
LEMMA SetMethodListStep ==
  ASSUME MemInv, IInv', SetMethodList
  PROVE  /\ MemInv' /\ edit' = {} /\ call' = call
         /\ \E new \in edit : current' = new /\ Content(current)' = Content(new)
         /\ \A l \in Kept' : Content(l)' = Content(l) /\ lists'[l] = lists[l]
<1>1. PICK new \in edit :
        LET gone == {l \in Examined(new) : ~ InUse(l)}
        IN  /\ Delete(gone)
            /\ retired' = (retired \cup Old(new)) \ gone
            /\ current' = new /\ edit' = {}
            /\ UNCHANGED <<flavor, call>>
  BY DEF SetMethodList
<1> DEFINE gone == {l \in Examined(new) : ~ InUse(l)}
<1>2. edit = {new} /\ new \notin retired
  BY DEF MemInv, Typed, IInv, OwnersOK
<1>3. gone \in SUBSET Kept /\ new \notin gone
  BY <1>2, NullIsNoAddress DEF Examined, Old, Kept, MemInv, IInv, OwnersOK
<1>4. Kept' = Kept \ gone
  BY <1>1, <1>2, <1>3 DEF Kept, Old
<1>5. Delete(gone) /\ edit' = {} /\ UNCHANGED <<flavor, call>> /\ current' = new
  BY <1>1
<1> HIDE DEF gone
<1>6. MemInv' /\ \A l \in Kept' : Content(l)' = Content(l) /\ lists'[l] = lists[l]
  BY <1>3, <1>4, <1>5, DeleteKeepsMemory
<1>7. Content(current)' = Content(new)
  <2>1. CASE new = Null
    BY <1>5, <2>1 DEF Content
  <2>2. CASE new # Null
    <3>1. new \in Kept'
      BY <1>5, <2>2 DEF Kept
    <3>2. Content(new)' = Content(new)
      BY <1>6, <3>1
    <3>3. Content(current)' = Content(new)'
      BY <1>5 DEF Content
    <3> QED
      BY <3>2, <3>3
  <2> QED
    BY <2>1, <2>2
<1> QED
  BY <1>5, <1>6, <1>7

LEMMA TrimExcessStep ==
  ASSUME MemInv, IInv', TrimExcess
  PROVE  /\ MemInv' /\ edit' = {} /\ call' = call
         /\ Content(current)' = Content(current)
         /\ \A l \in Kept' : Content(l)' = Content(l) /\ lists'[l] = lists[l]
<1>1. Delete(retired) /\ retired' = {} /\ edit = {} /\ UNCHANGED <<flavor, current, edit, call>>
  BY DEF TrimExcess, CanLock
<1>2. retired \in SUBSET Kept /\ Kept' = Kept \ retired
  BY <1>1, NullIsNoAddress DEF Kept, MemInv, IInv, OwnersOK
<1>3. MemInv' /\ \A l \in Kept' : Content(l)' = Content(l) /\ lists'[l] = lists[l]
  BY <1>1, <1>2, DeleteKeepsMemory
<1>4. Content(current)' = Content(current)
  <2>1. CASE current = Null
    BY <1>1, <2>1 DEF Content
  <2>2. CASE current # Null
    <3>1. PICK l \in Kept' : l = current
      BY <1>1, <2>2 DEF Kept
    <3>2. Content(l)' = Content(l) /\ Content(current)' = Content(l)'
      BY <1>1, <1>3, <3>1 DEF Content
    <3> QED
      BY <3>1, <3>2
  <2> QED
    BY <2>1, <2>2
<1> QED
  BY <1>1, <1>3, <1>4

LEMMA DestroyStep ==
  ASSUME MemInv, IInv', Destroy
  PROVE  /\ MemInv' /\ edit' = {} /\ call' = call
         /\ Content(current)' = << >> /\ \A c \in Calls : call[c] = Idle
         /\ \A l \in Kept' : Content(l)' = Content(l) /\ lists'[l] = lists[l]
<1>1. /\ Delete((retired \cup {current}) \ {Null}) /\ retired' = {} /\ current' = Null
      /\ edit = {} /\ UNCHANGED <<flavor, edit, call>> /\ \A c \in Calls : call[c] = Idle
  BY DEF Destroy
<1>2. /\ (retired \cup {current}) \ {Null} \in SUBSET Kept
      /\ Kept' = Kept \ ((retired \cup {current}) \ {Null})
  BY <1>1 DEF Kept
<1>3. MemInv' /\ \A l \in Kept' : Content(l)' = Content(l) /\ lists'[l] = lists[l]
  BY <1>1, <1>2, DeleteKeepsMemory
<1> QED
  BY <1>1, <1>3 DEF Content

(* The steps of a call.                                                    *)
LEMMA CallStepStep ==
  ASSUME MemInv, IInv', NEW c \in Calls, Call(c) \/ Invoke(c) \/ Return(c)
  PROVE  /\ MemInv' /\ UNCHANGED <<current, edit>> /\ Kept' = Kept
         /\ \A l \in Kept \cup {Null} : Content(l)' = Content(l)
         /\ \A l \in Kept : lists'[l].size = lists[l].size
<1>0. UNCHANGED <<flavor, arrays, current, retired, edit>>
  BY DEF Call, Invoke, Return
<1>1. Kept' = Kept
  BY <1>0 DEF Kept
<1>2. MemInv' /\ \A l \in Kept : Content(l)' = Content(l) /\ lists'[l].size = lists[l].size
  <2>1. CASE Call(c)
    <3>1. PICK l \in Kept : l = current
      BY <2>1 DEF Call, Kept
    <3>2. Ref(l, 1)
      BY <2>1, <3>1 DEF Call
    <3> QED
      BY <1>0, <3>2, RefKeepsMemory
  <2>2. CASE Return(c)
    <3>1. PICK l \in Kept : l = call[c].list
      BY <2>2 DEF Return, Kept, MemInv, IInv, CallsOK
    <3>2. Ref(l, -1)
      BY <2>2, <3>1 DEF Return
    <3> QED
      BY <1>0, <3>2, RefKeepsMemory
  <2>3. CASE Invoke(c)
    <3>1. lists' = lists
      BY <2>3 DEF Invoke
    <3>2. \A l : Content(l)' = Content(l) /\ Holders(l)' = Holders(l)
      BY <1>0, <3>1 DEF Content, Holders
    <3>3. MemInv'
      BY <1>0, <1>1, <3>1, <3>2 DEF MemInv, Typed, FreeIsEmpty, ListsHold, ArraysHeld
    <3> QED
      BY <3>1, <3>2, <3>3
  <2> QED
    BY <2>1, <2>2, <2>3
<1>3. Content(Null)' = Content(Null)
  BY DEF Content
<1> QED
  BY <1>0, <1>1, <1>2, <1>3

-----------------------------------------------------------------------------
(* The memory is accounted for in every reachable state.                   *)

LEMMA InitMemory == Init => MemInv
<1> SUFFICES ASSUME Init PROVE MemInv
  OBVIOUS
<1>1. IInv
  BY InitInvariant
<1>2. << >> \in Seq(Methods) /\ Len(<< >>) = 0
  BY EmptySeq
<1>3. FreeList \in [array : {Null} \cup Arrays, size : Nat, refs : Nat]
  BY DEF FreeList
<1>4. FreeArray \in [items : Seq(Methods), cap : Nat, refs : Nat]
  BY <1>2 DEF FreeArray
<1>5. Typed
  BY <1>3, <1>4 DEF Init, Typed
<1>6. Kept = {}
  BY DEF Init, Kept
<1>7. FreeIsEmpty /\ ListsHold
  BY <1>6 DEF Init, FreeIsEmpty, ListsHold
<1>8. ASSUME NEW x \in Arrays
      PROVE  arrays[x].refs = Cardinality(Holders(x)) /\ Len(arrays[x].items) <= arrays[x].cap
  <2>1. Holders(x) = {}
    BY DelegateAssumption DEF Init, Holders, FreeList
  <2>2. arrays[x] = FreeArray
    BY DEF Init
  <2> QED
    BY <1>2, <2>1, <2>2, FS_EmptySet DEF FreeArray
<1> QED
  BY <1>1, <1>5, <1>7, <1>8 DEF MemInv, ArraysHeld

LEMMA StepKeepsMemory == MemInv /\ [Next]_vars => MemInv'
<1> SUFFICES ASSUME MemInv, [Next]_vars PROVE MemInv'
  OBVIOUS
<1>1. IInv'
  BY StepKeeps DEF MemInv
<1>2. CASE UNCHANGED vars
  <2>1. Kept' = Kept /\ \A x : Holders(x)' = Holders(x)
    BY <1>2 DEF vars, Kept, Holders
  <2> QED
    BY <1>1, <1>2, <2>1 DEF vars, MemInv, Typed, FreeIsEmpty, ListsHold, ArraysHeld
<1>3. CASE Change
  BY <1>1, <1>3, ChangeStep, SetMethodListStep, TrimExcessStep, DestroyStep DEF Change
<1>4. CASE CallStep
  BY <1>1, <1>4, CallStepStep DEF CallStep
<1> QED
  BY <1>2, <1>3, <1>4 DEF Next

(* The lists that are not free memory are those that are kept.             *)
LEMMA LiveIsKept == ASSUME MemInv, NEW l \in Lists PROVE Live(l) <=> l \in Kept
<1>1. ASSUME l \in Kept PROVE Live(l)
  <2>1. Counted(l) /\ Cardinality(Users(l)) \in Nat
    BY <1>1, UsersFinite DEF MemInv, IInv
  <2> QED
    BY <2>1 DEF Counted, Live
<1>2. ASSUME l \notin Kept PROVE ~Live(l)
  BY <1>2 DEF MemInv, FreeIsEmpty, FreeList, Live
<1> QED
  BY <1>1, <1>2

(* The state has its types, and no array holds more methods than it has    *)
(* room for: the arithmetic of Add and Remove (lines 232-269, 279, 355)    *)
(* never lets PushBack (178) write past the end, whatever lists share the  *)
(* array and however often it was copied.                                  *)
THEOREM DelegateTypeCorrect == Spec => []DelegateTypeOK
<1>1. ASSUME MemInv PROVE DelegateTypeOK
  <2>1. flavor \in Flavors
    BY <1>1 DEF MemInv, Typed
  <2>2. \A x \in Arrays : /\ arrays[x].items \in Seq(Methods)
                         /\ Len(arrays[x].items) <= arrays[x].cap
    BY <1>1, Fields DEF MemInv, ArraysHeld
  <2>3. \A l \in Lists : Live(l) => lists[l].size \in 1 .. Len(arrays[lists[l].array].items)
    BY <1>1, LiveIsKept DEF MemInv, ListsHold
  <2>4. current \in {Null} \cup Lists /\ retired \subseteq Lists /\ edit \subseteq {Null} \cup Lists
    BY <1>1 DEF MemInv, IInv, OwnersOK
  <2>5. Cardinality(edit) <= 1
    <3>1. edit = {} \/ \E n \in {Null} \cup Lists : edit = {n}
      BY <1>1 DEF MemInv, Typed
    <3>2. Cardinality(edit) \in {0, 1}
      BY <3>1, FS_EmptySet, FS_Singleton
    <3> QED
      BY <3>2
  <2> QED
    BY <2>1, <2>2, <2>3, <2>4, <2>5 DEF DelegateTypeOK
<1> QED
  BY <1>1, InitMemory, StepKeepsMemory, PTL DEF Spec

(* No list and no array is leaked or released twice: every list that exists *)
(* has exactly one owner, its count is that of its owner and its calls, and *)
(* an array counts the lists that have it (lines 207, 229, 382-395,        *)
(* 554-572, 658).                                                          *)
THEOREM AllIsAccounted == Spec => []Accounted
<1>1. ASSUME MemInv PROVE Accounted
  <2>1. current \notin retired
    BY <1>1 DEF MemInv, IInv, OwnersOK
  <2>2. \A l \in Lists : Live(l) <=> l \in Kept
    BY <1>1, LiveIsKept
  <2>3. {l \in Lists : Live(l)} = (retired \cup edit \cup {current}) \ {Null}
    <3>1. Kept \subseteq Lists
      BY <1>1, KeptAreLists DEF MemInv
    <3>2. {l \in Lists : Live(l)} = Kept
      BY <2>2, <3>1
    <3> QED
      BY <3>2 DEF Kept
  <2>4. ASSUME NEW l \in Lists, Live(l) PROVE Counted(l)
    BY <1>1, <2>2, <2>4 DEF MemInv, IInv
  <2>5. \A x \in Arrays : arrays[x].refs = Cardinality({l \in Lists : lists[l].array = x})
    BY <1>1 DEF MemInv, ArraysHeld, Holders
  <2> QED
    BY <2>1, <2>3, <2>4, <2>5 DEF Accounted, Counted
<1> QED
  BY <1>1, InitMemory, StepKeepsMemory, PTL DEF Spec

-----------------------------------------------------------------------------
(* The delegate implements a list of methods.  The two variables of the    *)
(* abstract specification:                                                 *)

Remaining(c) ==
  IF call[c] = Idle THEN << >>
  ELSE SubSeq(Content(call[c].list), call[c].next, Len(Content(call[c].list)))

Rests == [c \in Calls |-> Remaining(c)]

NextOK == \A c \in Calls : call[c] # Idle => call[c].next >= 1

DInv == MemInv /\ Pending /\ NextOK

LEMMA AbstractNext ==
  Abstract!Next <=>
    \/ /\ \E args \in Args :
            Content(current)' \in {args, Content(current) \o args}
                                    \cup Abstract!Without(Content(current), args)
       /\ Rests' = Rests
    \/ /\ Content(current)' \in {<< >>, Content(current) \o Content(current)}
       /\ Rests' = Rests
    \/ \E c \in Calls :
         \/ /\ Rests[c] = << >> /\ Content(current) # << >>
            /\ Rests' = [Rests EXCEPT ![c] = Content(current)]
            /\ Content(current)' = Content(current)
         \/ /\ Rests[c] # << >>
            /\ Rests' = [Rests EXCEPT ![c] = Tail(@)]
            /\ Content(current)' = Content(current)
BY DEF Abstract!Next, Abstract!Change, Abstract!ChangeBySelf, Abstract!Call, Abstract!Invoke,
       Rests, Remaining

(* A list that a call uses is kept.                                        *)
LEMMA UsedIsKept ==
  ASSUME IInv, NEW c \in Calls, call[c] # Idle
  PROVE  call[c].list \in Kept
BY DEF IInv, CallsOK, Kept

(* While calls stand still and their lists keep their content, what the    *)
(* calls have still to invoke stays.                                       *)
LEMMA RestsStay ==
  ASSUME IInv, IInv', call' = call,
         \A l \in Kept : l \in Kept' => Content(l)' = Content(l)
  PROVE  Rests' = Rests
<1>1. ASSUME NEW c \in Calls PROVE Remaining(c)' = Remaining(c)
  <2>1. CASE call[c] = Idle
    BY <2>1 DEF Remaining
  <2>2. CASE call[c] # Idle
    <3>1. PICK l \in Kept : l = call[c].list
      BY <2>2, UsedIsKept
    <3>2. l \in Kept'
      BY <2>2, <3>1 DEF IInv, CallsOK, Kept
    <3>3. Content(l)' = Content(l)
      BY <3>2
    <3>4. Remaining(c) = SubSeq(Content(l), call[c].next, Len(Content(l)))
      BY <2>2, <3>1 DEF Remaining
    <3>5. Remaining(c)' = SubSeq(Content(l)', call[c].next, Len(Content(l)'))
      BY <2>2, <3>1 DEF Remaining
    <3> QED
      BY <3>3, <3>4, <3>5
  <2> QED
    BY <2>1, <2>2
<1> QED
  BY <1>1 DEF Rests

(* Every step is one of the abstract specification, or a stutter.          *)
AbstractStep == Abstract!Next \/ (Content(current)' = Content(current) /\ Rests' = Rests)

LEMMA SetMethodListRefines ==
  ASSUME DInv, IInv', SetMethodList
  PROVE  AbstractStep
<1>1. PICK new \in edit : Content(current)' = Content(new)
  BY SetMethodListStep DEF DInv
<1>2. Rests' = Rests
  BY SetMethodListStep, RestsStay DEF DInv, MemInv
<1>3. Content(current)' \in Results(Content(current))
  BY <1>1 DEF DInv, Pending
<1>4. \/ Content(current)' \in {Content(current), << >>, Content(current) \o Content(current)}
      \/ \E args \in Args :
           Content(current)' \in {args, Content(current) \o args}
                                   \cup Abstract!Without(Content(current), args)
  BY <1>3 DEF Results
<1> QED
  BY <1>2, <1>4, AbstractNext DEF AbstractStep

(* What the other calls have still to invoke stays.                        *)
LEMMA OtherCalls ==
  ASSUME MemInv, NEW c \in Calls, NEW d \in Calls, d # c, call'[d] = call[d],
         \A l \in Kept : Content(l)' = Content(l)
  PROVE  Remaining(d)' = Remaining(d)
<1>1. CASE call[d] = Idle
  BY <1>1 DEF Remaining
<1>2. CASE call[d] # Idle
  <2>1. PICK l \in Kept : l = call[d].list
    BY <1>2, UsedIsKept DEF MemInv
  <2>2. Content(l)' = Content(l)
    OBVIOUS
  <2>3. Remaining(d) = SubSeq(Content(l), call[d].next, Len(Content(l)))
    BY <1>2, <2>1 DEF Remaining
  <2>4. Remaining(d)' = SubSeq(Content(l)', call[d].next, Len(Content(l)'))
    BY <1>2, <2>1 DEF Remaining
  <2> QED
    BY <2>2, <2>3, <2>4
<1> QED
  BY <1>1, <1>2

LEMMA CurrentStays ==
  ASSUME current' = current, \A l \in Kept \cup {Null} : Content(l)' = Content(l)
  PROVE  Content(current)' = Content(current)
<1>1. PICK l \in Kept \cup {Null} : l = current
  BY DEF Kept
<1>2. Content(l)' = Content(l) /\ Content(current)' = Content(l)'
  BY <1>1 DEF Content
<1> QED
  BY <1>1, <1>2

LEMMA CallRefines ==
  ASSUME DInv, IInv', NEW c \in Calls, Call(c)
  PROVE  Abstract!Next /\ NextOK'
<1>1. /\ MemInv /\ current' = current
      /\ \A l \in Kept \cup {Null} : Content(l)' = Content(l)
  BY CallStepStep DEF DInv
<1>2. Content(current)' = Content(current)
  BY <1>1, CurrentStays
<1>3. PICK l \in Kept : l = current
  BY DEF Call, Kept
<1>4. PICK s \in Seq(Methods) : s = Content(l) /\ Len(s) >= 1
  BY <1>1, <1>3, ContentOfKept
<1>5. /\ call[c] = Idle /\ call' = [call EXCEPT ![c] = [list |-> l, next |-> 1]]
  BY <1>3 DEF Call
<1>6. call \in [Calls -> [list : {Null} \cup Lists, next : Int]]
  BY <1>1 DEF MemInv, IInv, CallsOK
<1>7. Remaining(c) = << >>
  BY <1>5 DEF Remaining
<1>8. call'[c] = [list |-> l, next |-> 1] /\ call'[c] # Idle
  BY <1>5, <1>6 DEF Idle
<1>9. Remaining(c)' = s
  <2>1. Content(l)' = s
    BY <1>1, <1>4
  <2>2. Remaining(c)' = SubSeq(Content(l)', 1, Len(Content(l)'))
    BY <1>8 DEF Remaining
  <2> QED
    BY <1>4, <2>1, <2>2, SubSeqFull
<1>10. \A d \in Calls : d # c => call'[d] = call[d]
  BY <1>5, <1>6
<1>11. \A d \in Calls : d # c => Remaining(d)' = Remaining(d)
  BY <1>1, <1>10, OtherCalls
<1>12. Rests' = [Rests EXCEPT ![c] = Content(current)]
  BY <1>3, <1>4, <1>9, <1>11 DEF Rests
<1>13. Rests[c] = << >> /\ Content(current) # << >>
  <2>1. s # << >>
    BY <1>4, EmptySeq
  <2> QED
    BY <1>3, <1>4, <1>7, <2>1 DEF Rests
<1>14. NextOK'
  BY <1>8, <1>10 DEF DInv, NextOK
<1> QED
  BY <1>2, <1>12, <1>13, <1>14, AbstractNext

LEMMA InvokeRefines ==
  ASSUME DInv, IInv', NEW c \in Calls, Invoke(c)
  PROVE  Abstract!Next /\ NextOK'
<1>1. /\ MemInv /\ current' = current
      /\ \A l \in Kept \cup {Null} : Content(l)' = Content(l)
  BY CallStepStep DEF DInv
<1>2. Content(current)' = Content(current)
  BY <1>1, CurrentStays
<1>3. call \in [Calls -> [list : {Null} \cup Lists, next : Int]] /\ call[c] # Idle
  BY <1>1 DEF MemInv, IInv, CallsOK, Invoke
<1>4. PICK l \in Kept : l = call[c].list
  BY <1>1, <1>3, UsedIsKept DEF MemInv
<1>5. PICK s \in Seq(Methods), n \in Nat : s = Content(l) /\ n = Len(s) /\ n = lists[l].size
  BY <1>1, <1>4, ContentOfKept
<1>6. PICK k \in Nat : k = call[c].next /\ k \in 1 .. n
  <2>1. call[c].next \in Int /\ call[c].next >= 1
    BY <1>3 DEF DInv, NextOK
  <2>2. call[c].next <= lists[l].size
    BY <1>4 DEF Invoke
  <2> QED
    BY <1>5, <2>1, <2>2
<1>7. call'[c] = [list |-> l, next |-> k + 1] /\ call'[c] # Idle
  <2>1. call'[c] = [list |-> l, next |-> k + 1]
    BY <1>3, <1>4, <1>6 DEF Invoke
  <2>2. k + 1 # 0
    BY <1>6
  <2> QED
    BY <2>1, <2>2 DEF Idle
<1>8. Remaining(c) = SubSeq(s, k, n)
  BY <1>3, <1>4, <1>5, <1>6 DEF Remaining
<1>9. Remaining(c)' = SubSeq(s, k + 1, n)
  <2>1. Content(l)' = s
    BY <1>1, <1>5
  <2>2. Remaining(c)' = SubSeq(Content(l)', k + 1, Len(Content(l)'))
    BY <1>7 DEF Remaining
  <2> QED
    BY <1>5, <2>1, <2>2
<1>10. Remaining(c)' = Tail(Remaining(c)) /\ Remaining(c) # << >>
  <2>1. k \in 1 .. Len(s) /\ n \in k .. Len(s)
    BY <1>5, <1>6
  <2>2. Tail(SubSeq(s, k, n)) = SubSeq(s, k + 1, n)
    BY <2>1, HeadTailOfSubSeq
  <2>3. SubSeq(s, k, n) # << >>
    <3>1. \A i \in k .. n : s[i] \in Methods
      <4>1. \A i \in 1 .. n : s[i] \in Methods
        BY <1>5, ElementOfSeq
      <4>2. \A i \in k .. n : i \in 1 .. n
        BY <1>6
      <4> QED
        BY <4>1, <4>2
    <3>2. Len(SubSeq(s, k, n)) = n - k + 1
      BY <1>6, <3>1, SubSeqProperties
    <3>3. n - k + 1 # 0
      BY <1>6
    <3> QED
      BY <3>2, <3>3, EmptySeq
  <2> QED
    BY <1>8, <1>9, <2>2, <2>3
<1>11. \A d \in Calls : d # c => call'[d] = call[d]
  BY <1>3 DEF Invoke
<1>12. \A d \in Calls : d # c => Remaining(d)' = Remaining(d)
  BY <1>1, <1>11, OtherCalls
<1>13. Rests' = [Rests EXCEPT ![c] = Tail(@)] /\ Rests[c] # << >>
  BY <1>10, <1>12 DEF Rests
<1>14. NextOK'
  <2>1. call'[c].next >= 1
    BY <1>6, <1>7
  <2> QED
    BY <1>11, <2>1 DEF DInv, NextOK
<1> QED
  BY <1>2, <1>13, <1>14, AbstractNext

LEMMA ReturnRefines ==
  ASSUME DInv, IInv', NEW c \in Calls, Return(c)
  PROVE  AbstractStep /\ NextOK'
<1>1. /\ MemInv /\ current' = current
      /\ \A l \in Kept \cup {Null} : Content(l)' = Content(l)
  BY CallStepStep DEF DInv
<1>2. Content(current)' = Content(current)
  BY <1>1, CurrentStays
<1>3. call \in [Calls -> [list : {Null} \cup Lists, next : Int]] /\ call[c] # Idle
  BY <1>1 DEF MemInv, IInv, CallsOK, Return
<1>4. PICK l \in Kept : l = call[c].list
  BY <1>1, <1>3, UsedIsKept DEF MemInv
<1>5. PICK s \in Seq(Methods), n \in Nat : s = Content(l) /\ n = Len(s) /\ n = lists[l].size
  BY <1>1, <1>4, ContentOfKept
<1>6. PICK k \in Int : k = call[c].next /\ n < k
  BY <1>3, <1>4, <1>5 DEF Return
<1>7. Remaining(c) = << >>
  <2>1. Remaining(c) = SubSeq(s, k, n)
    BY <1>3, <1>4, <1>5, <1>6 DEF Remaining
  <2> QED
    BY <1>6, <2>1, SubSeqEmpty
<1>8. call'[c] = Idle /\ \A d \in Calls : d # c => call'[d] = call[d]
  BY <1>3 DEF Return
<1>9. Remaining(c)' = << >>
  BY <1>8 DEF Remaining
<1>10. \A d \in Calls : d # c => Remaining(d)' = Remaining(d)
  BY <1>1, <1>8, OtherCalls
<1>11. Rests' = Rests
  BY <1>7, <1>9, <1>10 DEF Rests
<1>12. NextOK'
  BY <1>8 DEF DInv, NextOK
<1> QED
  BY <1>2, <1>11, <1>12 DEF AbstractStep

(* Between the building and the installation of a list calls may run: they *)
(* change neither its content nor that of the current one.                 *)
LEMMA PendingStays ==
  ASSUME DInv, UNCHANGED <<current, edit>>,
         \A l \in Kept \cup {Null} : Content(l)' = Content(l)
  PROVE  Pending'
<1>1. Content(current)' = Content(current)
  BY CurrentStays
<1>2. Results(Content(current))' = Results(Content(current))
  BY <1>1 DEF Results
<1>3. \A n \in edit : n \in Kept \cup {Null}
  BY DEF Kept
<1> QED
  BY <1>2, <1>3 DEF DInv, Pending

LEMMA StepRefines == DInv /\ [Next]_vars => DInv' /\ [Abstract!Next]_<<Content(current), Rests>>
<1> SUFFICES ASSUME DInv, [Next]_vars PROVE DInv' /\ AbstractStep
  BY DEF AbstractStep
<1>1. MemInv' /\ IInv' /\ IInv /\ MemInv
  BY StepKeepsMemory DEF DInv, MemInv
<1>2. CASE UNCHANGED vars
  <2>1. \A l : Content(l)' = Content(l)
    BY <1>2 DEF vars, Content
  <2>2. Pending' /\ Content(current)' = Content(current)
    BY <1>2, <2>1, PendingStays, CurrentStays DEF vars
  <2>3. NextOK'
    BY <1>2 DEF vars, DInv, NextOK
  <2>4. Rests' = Rests
    BY <1>1, <1>2, <2>1, RestsStay DEF vars
  <2> QED
    BY <1>1, <2>2, <2>3, <2>4 DEF DInv, AbstractStep
<1>3. CASE \/ Clear \/ AddSelf
           \/ \E ms \in Args : SetValueInternal(ms) \/ AddInternal(ms) \/ RemoveInternal(ms)
  <2>1. /\ Pending' /\ UNCHANGED <<current, call>>
        /\ \A l \in Kept \cup {Null} : Content(l)' = Content(l)
    BY <1>1, <1>3, ChangeStep
  <2>2. Content(current)' = Content(current)
    BY <2>1, CurrentStays
  <2>3. Rests' = Rests
    BY <1>1, <2>1, RestsStay
  <2>4. NextOK'
    BY <2>1 DEF DInv, NextOK
  <2> QED
    BY <1>1, <2>1, <2>2, <2>3, <2>4 DEF DInv, AbstractStep
<1>4. CASE SetMethodList
  <2>1. edit' = {} /\ call' = call
    BY <1>1, <1>4, SetMethodListStep
  <2>2. Pending' /\ NextOK'
    BY <2>1 DEF DInv, Pending, NextOK
  <2> QED
    BY <1>1, <1>4, <2>2, SetMethodListRefines DEF DInv
<1>5. CASE TrimExcess
  <2>1. /\ edit' = {} /\ call' = call /\ Content(current)' = Content(current)
        /\ \A l \in Kept' : Content(l)' = Content(l)
    BY <1>1, <1>5, TrimExcessStep
  <2>2. Pending' /\ NextOK'
    BY <2>1 DEF DInv, Pending, NextOK
  <2>3. Rests' = Rests
    BY <1>1, <2>1, RestsStay
  <2> QED
    BY <1>1, <2>1, <2>2, <2>3 DEF DInv, AbstractStep
<1>6. CASE Destroy
  <2>1. /\ edit' = {} /\ call' = call /\ Content(current)' = << >>
        /\ \A l \in Kept' : Content(l)' = Content(l)
    BY <1>1, <1>6, DestroyStep
  <2>2. Pending' /\ NextOK'
    BY <2>1 DEF DInv, Pending, NextOK
  <2>3. Rests' = Rests
    BY <1>1, <2>1, RestsStay
  <2>4. Abstract!Next
    BY <2>1, <2>3, AbstractNext
  <2> QED
    BY <1>1, <2>2, <2>4 DEF DInv, AbstractStep
<1>7. ASSUME NEW c \in Calls, Call(c) \/ Invoke(c) \/ Return(c)
      PROVE  DInv' /\ AbstractStep
  <2>1. Pending'
    BY <1>1, <1>7, CallStepStep, PendingStays
  <2>2. NextOK' /\ AbstractStep
    BY <1>1, <1>7, CallRefines, InvokeRefines, ReturnRefines DEF AbstractStep
  <2> QED
    BY <1>1, <2>1, <2>2 DEF DInv
<1> QED
  BY <1>2, <1>3, <1>4, <1>5, <1>6, <1>7 DEF Next, Change, CallStep

(* To its user a delegate is a sequence of methods that changes in one     *)
(* step, and a call invokes the methods that were there when it began, once *)
(* each and in order, although lists share arrays, are copied, retired and *)
(* deleted while calls run (_Delegate, _Delegate_S).                       *)
THEOREM DelegateRefinement == Spec => RefinesDelegateList
<1>1. Init => DInv /\ Abstract!Init
  <2> SUFFICES ASSUME Init PROVE DInv /\ Abstract!Init
    OBVIOUS
  <2>1. Pending /\ NextOK
    BY DEF Init, Pending, NextOK
  <2>2. Content(current) = << >> /\ \A c \in Calls : call[c] = Idle
    BY DEF Init, Content
  <2>3. Abstract!Init
    BY <2>2 DEF Abstract!Init
  <2> QED
    BY <2>1, <2>3, InitMemory DEF DInv
<1>2. DInv /\ [Next]_vars => DInv'
  BY StepRefines
<1>3. DInv /\ [Next]_vars => [Abstract!Next]_<<Content(current), Rests>>
  BY StepRefines
<1> QED
  BY <1>1, <1>2, <1>3, PTL DEF Spec, RefinesDelegateList, Abstract!Spec, Rests, Remaining
=============================================================================
