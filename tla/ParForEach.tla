----------------------------- MODULE ParForEach -----------------------------
(***************************************************************************)
(* yk::for_each (par_for_each.hpp): std::for_each over several threads     *)
(* with a wrapper that keeps exceptions to itself.  Under the abort policy *)
(* the wrapper looks, under a shared lock, whether there has been one; the *)
(* function is called, and may throw, with the lock released.              *)
(***************************************************************************)
EXTENDS Naturals

CONSTANTS Items, Threads

None == "none"

SetsOK == Threads # {} /\ {None, "running", "returned"} \cap Items = {}

ASSUME EachParameters == SetsOK

VARIABLES policy,      \* "abort" or "proceed"
          pending,     \* elements std::for_each has not come to
          place,       \* place[t]: where t is in the wrapper
          arg,         \* arg[t]: the wrapper's element
          kept,        \* exception: the element whose call threw it
          result,      \* "running", "returned", or the exception thrown
          called,      \* history: elements func was called with
          thrown,      \* history: elements it threw for
          late         \* late[t]: history, calls of t that began when there was an exception

eachVars == <<policy, pending, place, arg, kept, result, called, thrown, late>>

EachInit ==
  /\ policy \in {"abort", "proceed"}
  /\ pending = Items
  /\ place = [t \in Threads |-> "outside"] /\ arg = [t \in Threads |-> None]
  /\ kept = None /\ result = "running"
  /\ called = {} /\ thrown = {} /\ late = [t \in Threads |-> 0]

Goto(t, from, to) == place[t] = from /\ place' = [place EXCEPT ![t] = to]

\* std::for_each gives each element to one call of the wrapper, in any order.
Visit(t, e) ==
  /\ e \in pending
  /\ Goto(t, "outside", IF policy = "abort" THEN "check" ELSE "call")
  /\ pending' = pending \ {e}
  /\ arg' = [arg EXCEPT ![t] = e]
  /\ UNCHANGED <<policy, kept, result, called, thrown, late>>

\* Mutant of Look: an exception is not looked for.
Look_Away(t) ==
  /\ Goto(t, "check", "call")
  /\ UNCHANGED <<policy, pending, arg, kept, result, called, thrown, late>>

\* The shared lock is held for the look only.
Look(t) ==
  /\ Goto(t, "check", IF kept = None THEN "call" ELSE "outside")
  /\ UNCHANGED <<policy, pending, arg, kept, result, called, thrown, late>>

Call(t) ==
  /\ Goto(t, "call", "func")
  /\ called' = called \union {arg[t]}
  /\ late' = IF kept = None THEN late ELSE [late EXCEPT ![t] = @ + 1]
  /\ UNCHANGED <<policy, pending, arg, kept, result, thrown>>

Returns(t) ==
  /\ Goto(t, "func", "outside")
  /\ UNCHANGED <<policy, pending, arg, kept, result, called, thrown, late>>

Throws(t) ==
  /\ Goto(t, "func", "catch")
  /\ thrown' = thrown \union {arg[t]}
  /\ UNCHANGED <<policy, pending, arg, kept, result, called, late>>

\* Under the exclusive lock; a later exception takes the place of an earlier.
Catch(t) ==
  /\ Goto(t, "catch", "outside")
  /\ kept' = arg[t]
  /\ UNCHANGED <<policy, pending, arg, result, called, thrown, late>>

\* std::for_each returns when every call has.
Finish ==
  /\ result = "running" /\ pending = {}
  /\ \A t \in Threads : place[t] = "outside"
  /\ result' = IF kept = None THEN "returned" ELSE kept
  /\ UNCHANGED <<policy, pending, place, arg, kept, called, thrown, late>>

EachNext ==
  \/ \E t \in Threads : \/ \E e \in Items : Visit(t, e)
                        \/ Look(t) \/ Call(t) \/ Returns(t) \/ Throws(t) \/ Catch(t)
  \/ Finish

EachSpec == EachInit /\ [][EachNext]_eachVars

-----------------------------------------------------------------------------
\* for_each throws exactly when some call threw, and one of the exceptions
\* thrown; with proceed, or without an exception, every element has had its
\* call.  Under abort, calls of elements after the exception are those that
\* had looked before it: one for each thread but that of the exception.
OutcomeHonest ==
  /\ result # "running" =>
       /\ result = "returned" <=> thrown = {}
       /\ thrown # {} => result \in thrown
       /\ policy = "proceed" \/ thrown = {} => called = Items
  /\ policy = "abort" => (\A t \in Threads : late[t] <= 1) /\ \E t \in Threads : late[t] = 0
=============================================================================
