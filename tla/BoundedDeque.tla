---------------------------- MODULE BoundedDeque ----------------------------
(***************************************************************************)
(* What boost::circular_buffer promises its user: a sequence of at most    *)
(* capacity elements, with the overwriting rules of the documentation of   *)
(* each operation.  A call is one step (Invoke) and its return another     *)
(* (Return or Fail); nothing in between is visible to the caller.          *)
(***************************************************************************)
EXTENDS DequeOperations

CONSTANTS Moved,        \* what an element moved away from holds
          NothrowMove,  \* moving an element never throws
          Call,         \* the calls a user may make, preconditions apart
          NoCall

VARIABLES contents, capacity,
          request,      \* the call in progress, or NoCall
          result,       \* position of the iterator returned last (0: none)
          threw         \* the last call ended with an exception

dvars == <<contents, capacity, request, result, threw>>

\* Operations that only destroy or move elements.
NoThrow == {"pop_back", "pop_front", "clear"} \cup
           IF NothrowMove
           THEN {"erase", "rerase", "erase_range", "rerase_range", "rotate"}
           ELSE {}

Init == /\ contents = <<>>
        /\ capacity \in Nat
        /\ request = NoCall
        /\ result = 0
        /\ threw = FALSE

Invoke == /\ request = NoCall
          /\ request' \in Call
          /\ Allowed(request', contents)
          /\ threw' = FALSE
          /\ result' = 0
          /\ UNCHANGED <<contents, capacity>>

Return == /\ request # NoCall
          /\ <<contents', capacity', result'>> = After(request, contents, capacity)
          /\ request' = NoCall
          /\ threw' = FALSE

Fail == /\ request # NoCall
        /\ request.op \notin NoThrow
        /\ contents' \in Interrupted(request, contents, capacity, Moved)
        /\ request' = NoCall
        /\ threw' = TRUE
        /\ result' = 0
        /\ UNCHANGED capacity

Next == Invoke \/ Return \/ Fail

Spec == Init /\ [][Next]_dvars
=============================================================================
