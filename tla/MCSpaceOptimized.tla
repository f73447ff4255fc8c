-------------------------- MODULE MCSpaceOptimized --------------------------
(* Model-checking instance of SpaceOptimized. *)
EXTENDS SpaceOptimized

CONSTANTS MaxItems,  \* longest sequence assigned or inserted
          Huge       \* numbers of items near the largest value of size_type

Numbers == 0 .. MaxItems
Item    == CHOOSE x \in Value : TRUE

SequencesOver(S, n) == UNION {[1 .. m -> S] : m \in 0 .. n}

Plain(ops, I, J, X) == [op : ops, i : I, j : J, x : X]

(* The calls that change the size by a number, with one value. *)
SizeCalls ==
    Plain({"push_back", "pop_front", "clear"}, {0}, {0}, {Item})
    \cup Plain({"insert_n", "rinsert_n"}, {1}, Numbers \cup Huge, {Item})
    \cup Plain({"erase"}, {1}, {0}, {Item})
    \cup Plain({"erase_range"}, {1}, 1 .. MaxCapacity + 1, {Item})
    \cup Plain({"resize", "rresize"}, Numbers, {0}, {Item})
    \cup {c \in Plain({"set_capacity"}, 0 .. MaxCapacity, 0 .. MaxCapacity, {Item}) : c.j <= c.i}

Assigned(ops, lengths) ==
    {c \in [op : ops, ctl : Control, seq : {Copies(m, Item) : m \in lengths}] :
        c.op \in {"assign_items", "copy_assign"} => Len(c.seq) <= c.ctl.cap}

AssignCalls ==
    Assigned({"assign_items", "assign_range", "copy_assign"}, {0, 2, MaxItems})
    \cup {[op |-> "assign", seq |-> Copies(m, Item)] : m \in Numbers}
    \cup {[op |-> "move", ctl |-> ctl] : ctl \in Control}

PolicyCalls == SizeCalls \cup AssignCalls

(* All calls on the elements, at every position. *)
Positions == 1 .. MaxCapacity + 1

DataCalls ==
    Plain({"push_back", "push_front"}, {0}, {0}, Value)
    \cup Plain({"pop_back", "pop_front", "clear"}, {0}, {0}, {Item})
    \cup Plain({"insert", "rinsert"}, Positions, {0}, Value)
    \cup Plain({"insert_n", "rinsert_n"}, Positions, Numbers, {Item})
    \cup Plain({"erase", "rerase", "rotate"}, Positions, {0}, {Item})
    \cup Plain({"erase_range", "rerase_range"}, Positions, Positions, {Item})
    \cup Plain({"resize", "rresize"}, Numbers, {0}, {Item})
    \cup {c \in Plain({"set_capacity", "rset_capacity"}, 0 .. MaxCapacity, 0 .. MaxCapacity, {Item}) :
             c.j <= c.i}

AllCalls == PolicyCalls \cup DataCalls

(* An exception in set_capacity, rset_capacity or assign(ctrl, range) leaves
   the controller and the buffer apart; the others may all meet one. *)
Others == (Standard \ Setting) \cup {"assign", "assign_items", "copy_assign"}

Lists == SequencesOver(Value, MaxItems)
=============================================================================
