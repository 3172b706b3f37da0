------------------------------ MODULE ValueDelta ------------------------------
(***************************************************************************)
(* The value delta of a journal record: how the content after a transaction*)
(* differs from the content before it, and how replay applies it.  A JSON  *)
(* value is a function from the paths in it to what is there: Object, or a *)
(* value that is compared and replaced whole (a scalar or a list, with its *)
(* type).                                                                  *)
(***************************************************************************)
EXTENDS Sequences, Integers

CONSTANTS
    Key,            \* member names
    Object          \* what is at the path of an object

Cut(p, n) == SubSeq(p, 1, n)
Parent(p) == Cut(p, Len(p) - 1)
IsPrefix(p, q) == Len(p) <= Len(q) /\ Cut(q, Len(p)) = p

(* A workspace is an object, and only objects have members.                *)
IsDocument(d) ==
    /\ DOMAIN d \subseteq Seq(Key) /\ d = [p \in DOMAIN d |-> d[p]]
    /\ <<>> \in DOMAIN d /\ d[<<>>] = Object
    /\ \A p \in DOMAIN d : \A n \in 0..(Len(p) - 1) : Cut(p, n) \in DOMAIN d /\ d[Cut(p, n)] = Object

(* The value at path p.                                                    *)
Below(d, p) == [q \in {r \in DOMAIN d : IsPrefix(p, r)} |-> d[q]]

(* Paths where both have an object: the descent goes on there.             *)
Common(before, after) ==
    {p \in DOMAIN before \cap DOMAIN after : before[p] = Object /\ after[p] = Object}

Added(before, after) ==
    {p \in DOMAIN after \ DOMAIN before : Parent(p) \in Common(before, after)}

Replaced(before, after) == {p \in DOMAIN before \cap DOMAIN after : before[p] # after[p]}

Change(op, p, value) == [op |-> op, path |-> p, value |-> value]

ValueDelta(before, after) ==
    {Change("add", p, Below(after, p)) : p \in Added(before, after)}
    \cup {Change("remove", p, <<>>) : p \in Added(after, before)}
    \cup {Change("replace", p, Below(after, p)) : p \in Replaced(before, after)}

(* What _validate_value_delta accepts: no root, no path twice and none     *)
(* below another.                                                          *)
Canonical(delta) ==
    \A c \in delta : /\ c.path # <<>>
                     /\ \A x \in delta \ {c} : ~IsPrefix(c.path, x.path)

(* The preconditions of each change: its parent is an object, and there is *)
(* something to remove or replace, or nothing where it adds.               *)
Applicable(before, delta) ==
    \A c \in delta : /\ Parent(c.path) \in DOMAIN before /\ before[Parent(c.path)] = Object
                     /\ (c.path \in DOMAIN before) = (c.op # "add")

Hit(delta, q) == {c \in delta : IsPrefix(c.path, q)}

Brings(delta) == {c \in delta : c.op # "remove"}

New(delta) == UNION {DOMAIN c.value : c \in Brings(delta)}

(* Changes of a canonical delta meet nowhere, so their order is free.      *)
ApplyValueDelta(before, delta) ==
    [q \in {r \in DOMAIN before : Hit(delta, r) = {}} \cup New(delta) |->
        IF q \in New(delta) THEN (CHOOSE c \in Brings(delta) : q \in DOMAIN c.value).value[q]
        ELSE before[q]]
=============================================================================
