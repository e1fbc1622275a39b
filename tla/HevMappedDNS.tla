--------------------------- MODULE HevMappedDNS ----------------------------
(***************************************************************************)
(* The mapped DNS of hev-mapped-dns.c: a cache of Max names, each of which *)
(* stands for an address of the mapped network.  The applications ask for  *)
(* a name (hev_mapped_dns_handle) and connect to the address they get,     *)
(* which the sessions turn back into the name (hev_mapped_dns_lookup).     *)
(*                                                                         *)
(* A node is [name, idx]; the tree, ordered by name, is the set of its     *)
(* nodes; records[] and the list, from the least to the most recently used *)
(* node, are as in the code.  An address is [net, host]: net says whether  *)
(* its network is the mapped one, host is ip & ~mask.  The base of the     *)
(* network has no host bits, so that net | idx is [mapped, idx].           *)
(*                                                                         *)
(* A message is handled question by question; nothing else runs before its *)
(* end.  recent and promised are history: the names in the order they were *)
(* last used, never forgotten, and the answers whose name has been among   *)
(* the Max last used ones ever since.                                      *)
(***************************************************************************)
EXTENDS HevList, FiniteSets

CONSTANTS
    Names,
    Max,          \* mapdns.cache-size
    HostMax,      \* ~mask, the greatest host part
    MaxQuestions, \* bound on qd, which the code limits to 32
    NULL

ASSUME CacheAssumption ==
    /\ Max \in Nat \ {0} /\ HostMax \in Nat
    /\ Max <= HostMax                   \* hev_mapped_dns_construct
    /\ MaxQuestions \in 0 .. 32
    /\ NULL \notin [name : Names, idx : Nat]

VARIABLES use, list, tree, records,
    left,      \* the questions of the message still to handle, -1: none
    answers,   \* its answers so far: ips[] with the names asked for
    recent, promised

cache == <<use, list, tree, records>>
vars == <<cache, left, answers, recent, promised>>

Indices == 0 .. Max - 1

Nodes == [name : Names, idx : Indices]

Addresses == [net : {"mapped", "other"}, host : 0 .. HostMax]

Init ==
    /\ use = 0 /\ list = <<>> /\ tree = {}
    /\ records = [i \in Indices |-> NULL]
    /\ left = -1 /\ answers = {} /\ recent = <<>> /\ promised = {}

----------------------------------------------------------------------------
(* History.                                                                *)

\* The names among the Max last used ones.
Window(names) ==
    {names[i] : i \in {j \in 1 .. Len(names) : j + Max > Len(names)}}

Used(name) ==
    IF name \in Members(recent) THEN Touch(recent, name)
                                ELSE Append(recent, name)

Remember(name, answer) ==
    /\ recent' = Used(name)
    /\ promised' = {p \in promised \cup answer : p.name \in Window(recent')}

----------------------------------------------------------------------------
(* hev_mapped_dns_find.                                                    *)

Found(name) == {node \in tree : node.name = name}

find_hit(node) ==
    /\ list' = Touch(list, node)
    /\ UNCHANGED <<use, tree, records>>

find_grow(node) ==
    /\ use < Max /\ node.idx = use
    /\ use' = use + 1
    /\ list' = hev_list_add_tail(list, node)
    /\ tree' = tree \cup {node}
    /\ records' = [records EXCEPT ![node.idx] = node]

\* Mutant: the node that is evicted stays in the tree.
find_evict_KeepsTree(node) ==
    LET linked == hev_list_add_tail(list, node)
        nf == hev_list_first(linked)
    IN  /\ use >= Max /\ node.idx = nf.idx
        /\ list' = hev_list_del(linked, nf)
        /\ tree' = tree \cup {node}
        /\ records' = [records EXCEPT ![node.idx] = node]
        /\ UNCHANGED use

\* Mutant: the last index is taken over instead of the evicted node's.
find_evict_LastIndex(node) ==
    LET linked == hev_list_add_tail(list, node)
        nf == hev_list_first(linked)
    IN  /\ use >= Max /\ node.idx = use - 1
        /\ list' = hev_list_del(linked, nf)
        /\ tree' = (tree \cup {node}) \ {nf}
        /\ records' = [records EXCEPT ![node.idx] = node]
        /\ UNCHANGED use

\* The first node of the list gives way and its index is taken over.
find_evict(node) ==
    LET linked == hev_list_add_tail(list, node)
        nf == hev_list_first(linked)
    IN  /\ use >= Max /\ node.idx = nf.idx
        /\ list' = hev_list_del(linked, nf)
        /\ tree' = (tree \cup {node}) \ {nf}
        /\ records' = [records EXCEPT ![node.idx] = node]
        /\ UNCHANGED use

----------------------------------------------------------------------------
(* hev_mapped_dns_handle.                                                  *)

handle(qd) ==
    /\ left = -1 /\ left' = qd /\ answers' = {}
    /\ UNCHANGED <<cache, recent, promised>>

\* A question for an A record of class IN.
question(node) ==
    /\ left > 0 /\ left' = left - 1
    /\ \/ node \in tree /\ find_hit(node)
       \/ Found(node.name) = {} /\ (find_grow(node) \/ find_evict(node))
    /\ answers' = answers \cup {node}
    /\ Remember(node.name, {node})

\* Any other question, or no memory for the node of a new name.
question_skipped ==
    /\ left > 0 /\ left' = left - 1
    /\ UNCHANGED <<cache, answers, recent, promised>>

\* The message ends: it is answered, is malformed in its next question, or
\* the answer does not fit.  What the questions before have changed stays.
handle_ends ==
    /\ left >= 0 /\ left' = -1 /\ answers' = {}
    /\ UNCHANGED <<cache, recent, promised>>

----------------------------------------------------------------------------
\* The node hev_mapped_dns_lookup finds for an address.
lookup_node(ip) == IF ip.host >= Max THEN NULL ELSE records[ip.host]

lookup(ip) ==
    LET node == lookup_node(ip)
    IN  /\ left = -1 /\ node # NULL
        /\ list' = Touch(list, node)
        /\ Remember(node.name, {})
        /\ UNCHANGED <<use, tree, records, left, answers>>

Next ==
    \/ \E qd \in 0 .. MaxQuestions : handle(qd)
    \/ \E node \in Nodes : question(node)
    \/ question_skipped \/ handle_ends
    \/ \E ip \in Addresses : lookup(ip)

Spec == Init /\ [][Next]_vars

----------------------------------------------------------------------------
\* The values of the cache's variables.
TypeOK ==
    /\ use \in 0 .. Max
    /\ list \in Seq(Nodes) /\ tree \subseteq Nodes
    /\ records \in [Indices -> Nodes \cup {NULL}]
    /\ left \in -1 .. MaxQuestions /\ answers \subseteq Nodes
    /\ recent \in Seq(Names) /\ promised \subseteq Nodes

\* The three structures agree after every find and lookup: a node is in the
\* tree if and only if it is on the list once and in records[] at its index,
\* names and indices are unique, and the indices in use are 0 .. use - 1.
\* A freed node is in none of them.
CacheConsistent ==
    /\ Linked(list) /\ Members(list) = tree /\ Len(list) = use
    /\ \A m, n \in tree : m.name = n.name => m = n
    /\ \A n \in tree : n.idx < use /\ records[n.idx] = n
    /\ \A i \in Indices :
        IF i < use THEN records[i] \in tree /\ records[i].idx = i
                   ELSE records[i] = NULL

\* The cache holds exactly the Max last used names, in the order of use:
\* handle and lookup both age, and only the oldest name is evicted.
LeastRecentlyUsed ==
    LET k == Len(list)
        m == Len(recent)
    IN  /\ k = IF m < Max THEN m ELSE Max
        /\ \A i \in 1 .. k, j \in 1 .. m :
            m - j = k - i => list[i].name = recent[j]

\* An address the application was given leads back to the name it asked for,
\* as long as fewer than Max other names have been used since: a session
\* never asks the server for another name.
PromiseKept ==
    \A p \in promised :
        lookup_node([net |-> "mapped", host |-> p.idx]) = p

\* Only addresses of the mapped network stand for names.
OnlyMappedNetwork ==
    \A ip \in Addresses : ip.net # "mapped" => lookup_node(ip) = NULL
============================================================================
