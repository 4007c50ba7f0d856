---------------------------- MODULE DelegateList ----------------------------
(***************************************************************************)
(* What a user of a delegate relies on: it is a sequence of methods that   *)
(* is changed in one step, and a call invokes the methods that were there  *)
(* when it began, each once and in order, whatever is added or removed     *)
(* while it runs.  Removing takes the last occurrences.                    *)
(***************************************************************************)
EXTENDS Integers, FiniteSets, Sequences

CONSTANTS
  Args,         \* the sequences of methods that are added, removed or assigned
  Calls         \* names for the calls that may run at the same time

VARIABLES
  methods,      \* the methods of the delegate; none is the empty delegate
  rest          \* for each call, the methods it has still to invoke

Init == methods = << >> /\ rest = [c \in Calls |-> << >>]

Count(s, m) == Cardinality({i \in DOMAIN s : s[i] = m})

(* Of each method the last occurrences go, as many as args has of it; the  *)
(* others stay in their order, which leaves one sequence.                  *)
Without(s, args) ==
  LET kept == {i \in DOMAIN s :
                 Cardinality({j \in i + 1 .. Len(s) : s[j] = s[i]}) >= Count(args, s[i])}
  IN  {[k \in DOMAIN f |-> s[f[k]]] :
         f \in {g \in [1 .. Cardinality(kept) -> kept] :
                  \A i, j \in DOMAIN g : i < j => g[i] < g[j]}}

Change ==
  /\ \E args \in Args : methods' \in {args, methods \o args} \cup Without(methods, args)
  /\ UNCHANGED rest

(* A delegate can be subtracted from itself, and added to itself. *)
ChangeBySelf == methods' \in {<< >>, methods \o methods} /\ UNCHANGED rest

Call(c) ==
  /\ rest[c] = << >> /\ methods # << >>
  /\ rest' = [rest EXCEPT ![c] = methods]
  /\ UNCHANGED methods

Invoke(c) ==
  /\ rest[c] # << >>
  /\ rest' = [rest EXCEPT ![c] = Tail(@)]
  /\ UNCHANGED methods

Next == Change \/ ChangeBySelf \/ \E c \in Calls : Call(c) \/ Invoke(c)

Spec == Init /\ [][Next]_<<methods, rest>>
=============================================================================
