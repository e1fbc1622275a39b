------------------------------ MODULE HevList ------------------------------
(***************************************************************************)
(* The intrusive doubly linked list of src/jni/src/misc/hev-list.c.  A     *)
(* list is the sequence of its nodes from head to tail; a node is on a     *)
(* list at most once, which is the callers' obligation (Linked).           *)
(***************************************************************************)
EXTENDS Integers, Sequences

Members(list) == {list[i] : i \in 1 .. Len(list)}

\* No node is on the list twice.
Linked(list) ==
    \A i, j \in 1 .. Len(list) : list[i] = list[j] => i = j

hev_list_first(list) == list[1]

hev_list_add_tail(list, node) == Append(list, node)

\* The node's neighbours are joined.
hev_list_del(list, node) ==
    LET at == CHOOSE i \in 1 .. Len(list) : list[i] = node
    IN  [i \in 1 .. Len(list) - 1 |-> IF i < at THEN list[i] ELSE list[i + 1]]

\* hev_list_del followed by hev_list_add_tail, as its users age their nodes.
Touch(list, node) == hev_list_add_tail(hev_list_del(list, node), node)
============================================================================
