------------------------------ MODULE Delegate ------------------------------
(***************************************************************************)
(* A delegate (include/utils/Delegate.h): the list of methods an event of  *)
(* the player calls.  A change never touches a list that is in use: it     *)
(* builds a new list, which may share its array with the old one, and      *)
(* installs that.  The old list is deleted when nothing can be using it    *)
(* any more: _Delegate counts the calls that use a list, _Delegate_S keeps *)
(* every list until TrimExcess or its destructor.                          *)
(*                                                                         *)
(* _Delegate is for one thread: calls nest (a method may call or change    *)
(* the delegate), and nothing happens in the middle of a change.           *)
(* _Delegate_S is changed by one thread at a time, under its mutex, and    *)
(* called by any thread at any time, without it.                           *)
(*                                                                         *)
(* A method stands for the identity (pObject, pMethodAdress).              *)
(***************************************************************************)
EXTENDS Integers, FiniteSets, SequencesExt

CONSTANTS
  Methods,
  Args,         \* sequences of methods that are added, removed or assigned
  Flavors,      \* the classes that are checked
  Calls,        \* 1 .. n: the calls that may run at the same time
  Lists, Arrays,  \* the memory lists and arrays are in (bounds)
  Null,
  MaxMethods    \* bound: the length of a list

ASSUME DelegateAssumption ==
  /\ Args \subseteq Seq(Methods) \ {<< >>}
  /\ Flavors \subseteq {"_Delegate", "_Delegate_S"}
  /\ Calls \subseteq Nat /\ IsFiniteSet(Calls) /\ IsFiniteSet(Lists)
  /\ MaxMethods \in Nat
  /\ Null \notin Lists \cup Arrays

VARIABLES
  flavor,       \* the class of the delegate
  arrays,       \* the shared arrays; one without references is free memory
  lists,        \* the method lists, likewise
  current,      \* _current
  retired,      \* _deleteList
  edit,         \* the list a change has built and has still to install; the
                \* change holds the mutex while it does
  call          \* for each call, its list and the next method to invoke

vars == <<flavor, arrays, lists, current, retired, edit, call>>

FreeArray == [items |-> << >>, cap |-> 0, refs |-> 0]
FreeList  == [array |-> Null, size |-> 0, refs |-> 0]
Idle      == [list |-> Null, next |-> 0]

Init ==
  /\ flavor \in Flavors
  /\ arrays = [x \in Arrays |-> FreeArray]
  /\ lists = [l \in Lists |-> FreeList]
  /\ current = Null /\ retired = {} /\ edit = {}
  /\ call = [c \in Calls |-> Idle]

-----------------------------------------------------------------------------
(* Memory.                                                                 *)

FreeIn(f) == {i \in DOMAIN f : f[i].refs = 0}

Content(l) == IF l = Null THEN << >>
              ELSE SubSeq(arrays[lists[l].array].items, 1, lists[l].size)

(* The lists in ls are deleted, and each releases its array. *)
Delete(ls) ==
  /\ lists' = [l \in Lists |-> IF l \in ls THEN FreeList ELSE lists[l]]
  /\ arrays' = [x \in Arrays |->
       LET left == arrays[x].refs - Cardinality({l \in ls : lists[l].array = x})
       IN  IF left = 0 THEN FreeArray ELSE [arrays[x] EXCEPT !.refs = left]]

(* A new list of the methods ms, in an array of its own. *)
OwnArray(ms, cap) ==
  \E x \in FreeIn(arrays), n \in FreeIn(lists) :
      /\ arrays' = [arrays EXCEPT ![x] = [items |-> ms, cap |-> cap, refs |-> 1]]
      /\ lists' = [lists EXCEPT ![n] = [array |-> x, size |-> Len(ms), refs |-> 1]]
      /\ edit' = {n}

(* A new list of the first `size` methods of the array of the current list, *)
(* after ms have been pushed there.                                        *)
SharedArray(ms, size) ==
  LET x == lists[current].array IN
  \E n \in FreeIn(lists) :
      /\ arrays' = [arrays EXCEPT ![x].items = @ \o ms, ![x].refs = @ + 1]
      /\ lists' = [lists EXCEPT ![n] = [array |-> x, size |-> size, refs |-> 1]]
      /\ edit' = {n}

Install(l) == edit' = {l} /\ UNCHANGED <<arrays, lists>>

-----------------------------------------------------------------------------
(* MethodList::Add and Remove on the current list.  byList tells the       *)
(* overload for another delegate from the one for a single method.         *)

(* Mutant: Add takes the array for its own. *)
NeverForks(array, size) == FALSE

(* The list is a prefix of its array: an older or a shortened list. *)
Forks(array, size) == size < Len(array.items)

(* Mutant: the check for one method is used for a list too. *)
FullForOne(array, size, byList) == Len(array.items) = array.cap

Full(array, size, byList) ==
  IF byList THEN size >= array.cap - 1 ELSE Len(array.items) = array.cap

(* The room a copy is given. *)
Grown(array, old, new, byList) ==
  2 * (IF byList THEN new ELSE IF Forks(array, old) THEN old ELSE array.cap)

AddTo(old, ms, byList) ==
  LET array  == IF old = Null THEN [items |-> << >>, cap |-> 4] ELSE arrays[lists[old].array]
      s      == Len(Content(old))
      n      == s + Len(ms)
      copies == Forks(array, s) \/ Full(array, n, byList)
  IN  \/ copies /\ OwnArray(Content(old) \o ms, Grown(array, s, n, byList))
      \/ ~copies /\ old = Null /\ OwnArray(ms, 4)
      \/ ~copies /\ old # Null /\ SharedArray(ms, n)

Occurrences(s, m) == {i \in DOMAIN s : s[i] = m}

(* One method: its last occurrence goes. *)
RemoveMethod(m) ==
  LET s == Content(current)
      i == Max(Occurrences(s, m))
  IN  \/ m \notin Range(s) /\ Install(current)
      \/ s = <<m>> /\ Install(Null)
      \/ Len(s) > 1 /\ Last(s) = m /\ SharedArray(<< >>, Len(s) - 1)
      \/ m \in Range(s) /\ Last(s) # m /\ OwnArray(RemoveAt(s, i), 2 * (Len(s) - 1))

(* Another list: from the end, each method as often as the list has it. *)
LeftIndexes(s, ms) ==
  {i \in DOMAIN s : Cardinality({j \in Occurrences(s, s[i]) : j > i})
                      >= Cardinality(Occurrences(ms, s[i]))}

(* What s has at these indexes, in its order: a set of one sequence. *)
Picked(s, indexes) ==
  {[k \in DOMAIN f |-> s[f[k]]] :
     f \in {g \in [1 .. Cardinality(indexes) -> indexes] :
              \A i, j \in DOMAIN g : i < j => g[i] < g[j]}}

RemoveList(ms) ==
  LET s    == Content(current)
      left == LeftIndexes(s, ms)
  IN  \/ Len(ms) = 1 /\ RemoveMethod(ms[1])
      \/ Len(ms) > 1 /\ left = DOMAIN s /\ Install(current)
      \/ Len(ms) > 1 /\ left = {} /\ Install(Null)
      \/ Len(ms) > 1 /\ left \notin {{}, DOMAIN s}
         /\ \E kept \in Picked(s, left) : OwnArray(kept, Cardinality(left))

-----------------------------------------------------------------------------
(* Changes.                                                                *)

(* The mutex of _Delegate_S is free, or the one thread of _Delegate is not *)
(* in the middle of a change; and there is memory.                         *)
CanLock == edit = {} /\ FreeIn(lists) # {} /\ FreeIn(arrays) # {}

SetValueInternal(ms) ==
  /\ CanLock
  /\ \E byList \in {TRUE, Len(ms) # 1} : AddTo(Null, ms, byList)
  /\ UNCHANGED <<flavor, current, retired, call>>

Clear ==
  /\ CanLock /\ Install(Null)
  /\ UNCHANGED <<flavor, current, retired, call>>

AddInternal(ms) ==
  /\ CanLock /\ Len(Content(current) \o ms) <= MaxMethods
  /\ \E byList \in {TRUE, Len(ms) # 1} : AddTo(current, ms, byList)
  /\ UNCHANGED <<flavor, current, retired, call>>

AddSelf ==
  /\ CanLock /\ current # Null /\ 2 * Len(Content(current)) <= MaxMethods
  /\ AddTo(current, Content(current), TRUE)
  /\ UNCHANGED <<flavor, current, retired, call>>

RemoveInternal(ms) ==
  /\ CanLock /\ current # Null
  /\ RemoveList(ms)
  /\ UNCHANGED <<flavor, current, retired, call>>

(* Mutant: a list that a change has kept is retired all the same. *)
OldAgain(new) == {current} \ {Null}

Old(new) == {current} \ {Null, new}

InUse(l) == flavor = "_Delegate_S" \/ lists[l].refs > 1

(* Mutant: the retired lists are not looked at again. *)
ExaminedOld(new) == Old(new)

Examined(new) == retired \cup Old(new)

(* _Delegate's version deletes the old list if no call uses it, and the    *)
(* retired ones that no call uses any more; _Delegate_S's retires it.      *)
SetMethodList ==
  \E new \in edit :
    LET gone == {l \in Examined(new) : ~ InUse(l)}
    IN  /\ Delete(gone)
        /\ retired' = (retired \cup Old(new)) \ gone
        /\ current' = new /\ edit' = {}
        /\ UNCHANGED <<flavor, call>>

(* Correct only while no call runs: the lists may be in use otherwise. *)
TrimExcess ==
  /\ flavor = "_Delegate_S" /\ CanLock /\ \A c \in Calls : call[c] = Idle
  /\ Delete(retired) /\ retired' = {}
  /\ UNCHANGED <<flavor, current, edit, call>>

(* The destructor; what follows is the life of another delegate. *)
Destroy ==
  /\ edit = {} /\ \A c \in Calls : call[c] = Idle
  /\ Delete((retired \cup {current}) \ {Null})
  /\ retired' = {} /\ current' = Null
  /\ UNCHANGED <<flavor, edit, call>>

-----------------------------------------------------------------------------
(* Calls.                                                                  *)

(* Calls of a _Delegate nest: those after c have returned. *)
Innermost(c) ==
  flavor = "_Delegate" => edit = {} /\ \A d \in Calls : d > c => call[d] = Idle

(* Mutant: a call does not count itself. *)
NoRef(l, n) == lists' = lists

Ref(l, n) == lists' = IF flavor = "_Delegate" THEN [lists EXCEPT ![l].refs = @ + n] ELSE lists

Call(c) ==
  /\ call[c] = Idle /\ Innermost(c)
  /\ flavor = "_Delegate" => \A d \in Calls : d < c => call[d] # Idle
  /\ current # Null
  /\ call' = [call EXCEPT ![c] = [list |-> current, next |-> 1]]
  /\ Ref(current, 1)
  /\ UNCHANGED <<flavor, arrays, current, retired, edit>>

Invoke(c) ==
  /\ call[c] # Idle /\ Innermost(c)
  /\ call[c].next <= lists[call[c].list].size
  /\ call' = [call EXCEPT ![c].next = @ + 1]
  /\ UNCHANGED <<flavor, arrays, lists, current, retired, edit>>

Return(c) ==
  /\ call[c] # Idle /\ Innermost(c)
  /\ call[c].next > lists[call[c].list].size
  /\ Ref(call[c].list, -1)
  /\ call' = [call EXCEPT ![c] = Idle]
  /\ UNCHANGED <<flavor, arrays, current, retired, edit>>

-----------------------------------------------------------------------------
Change == \/ \E ms \in Args : SetValueInternal(ms) \/ AddInternal(ms) \/ RemoveInternal(ms)
          \/ Clear \/ AddSelf
          \/ SetMethodList \/ TrimExcess \/ Destroy

CallStep == \E c \in Calls : Call(c) \/ Invoke(c) \/ Return(c)

Next == Change \/ CallStep

Spec == Init /\ [][Next]_vars

-----------------------------------------------------------------------------
(* Properties.                                                             *)

Live(l)  == lists[l].refs > 0
Users(l) == {c \in Calls : call[c].list = l}

(* The state has its types, and no array holds more methods than the room  *)
(* it was given: the arithmetic of Add and Remove (lines 232-269, 279,     *)
(* 355) never lets PushBack (178) write past the end.                      *)
DelegateTypeOK ==
  /\ flavor \in Flavors
  /\ \A x \in Arrays : /\ arrays[x].items \in Seq(Methods)
                      /\ Len(arrays[x].items) <= arrays[x].cap
  /\ \A l \in Lists : Live(l) =>
       lists[l].size \in 1 .. Len(arrays[lists[l].array].items)
  /\ current \in {Null} \cup Lists /\ retired \subseteq Lists
  /\ edit \subseteq {Null} \cup Lists /\ Cardinality(edit) <= 1

(* Every list that exists is the current one, a retired one or the one a   *)
(* change is about to install, and is there once; its count is one more    *)
(* than the calls that use it (_Delegate), and an array's count is the     *)
(* number of lists that have it.  So nothing is leaked or deleted twice    *)
(* (lines 208, 554-572, 658), whatever the changes share.                  *)
Accounted ==
  /\ current \notin retired
  /\ {l \in Lists : Live(l)} = (retired \cup edit \cup {current}) \ {Null}
  /\ \A l \in Lists : Live(l) =>
       lists[l].refs = 1 + (IF flavor = "_Delegate" THEN Cardinality(Users(l)) ELSE 0)
  /\ \A x \in Arrays : arrays[x].refs = Cardinality({l \in Lists : lists[l].array = x})

(* A list that a call is using has not been deleted, however often the     *)
(* delegate has changed since the call began: not by a method that the     *)
(* call itself invokes (lines 143-151), and in _Delegate_S not by another  *)
(* thread (641-647).                                                       *)
NoUseAfterFree == \A c \in Calls : call[c] # Idle => Live(call[c].list)

(* After a change of a _Delegate only lists that a call still uses are kept *)
(* (the loop of lines 563-571).                                            *)
KeepsOnlyUsed ==
  [][flavor = "_Delegate" /\ edit # {} /\ edit' = {}
       => \A l \in retired' : Users(l) # {}]_vars

(* To its user the delegate is a sequence of methods that changes in one   *)
(* step, and a call invokes those that were there when it began, although  *)
(* lists share arrays and are changed while calls run on them.             *)
Abstract ==
  INSTANCE DelegateList WITH
    methods <- Content(current),
    rest <- [c \in Calls |->
      IF call[c] = Idle THEN << >>
      ELSE SubSeq(Content(call[c].list), call[c].next, Len(Content(call[c].list)))]

RefinesDelegateList == Abstract!Spec
=============================================================================
