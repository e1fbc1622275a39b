------------------------ MODULE HevMappedDNS_proofs -------------------------
(***************************************************************************)
(* Proofs about the mapped DNS for any number of names and any cache size. *)
(* The invariant adds to what the runs check that recent holds a name once *)
(* and that a promise is a node of the tree: with LeastRecentlyUsed, the   *)
(* node that is evicted is the one whose name leaves the window.           *)
(*                                                                         *)
(* AnswersPoint follows for the messages of HevDNSMessage: LastInv says    *)
(* that the names of a message are the last used ones, so that as many of  *)
(* them as the cache holds are all promised.                               *)
(***************************************************************************)
EXTENDS HevDNSMessage, HevList_proofs, FiniteSetTheorems

\* The cache has room for at least one name.
LEMMA MaxNat == Max \in Nat /\ Max >= 1
  BY CacheAssumption

\* LeastRecentlyUsed, of any list l of nodes and any history r.
Aged(l, r) ==
    /\ Len(l) = IF Len(r) < Max THEN Len(r) ELSE Max
    /\ \A i \in 1 .. Len(l), j \in 1 .. Len(r) :
        Len(r) - j = Len(l) - i => l[i].name = r[j]

NoName(l, name) == \A n \in Members(l) : n.name # name

IInv ==
    /\ TypeOK /\ CacheConsistent /\ LeastRecentlyUsed
    /\ Linked(recent) /\ promised \subseteq tree

\* Using a cached name ages the list and the history alike.
LEMMA HitAges ==
    ASSUME NEW l \in Seq(Nodes), NEW r \in Seq(Names), Linked(l), Linked(r),
           Aged(l, r), NEW node \in Members(l)
    PROVE  node.name \in Members(r) /\ Aged(Touch(l, node), Touch(r, node.name))
<1> DEFINE tl == Touch(l, node)
           tr == Touch(r, node.name)
<1>1. Len(l) \in Nat /\ Len(r) \in Nat /\ Len(l) <= Len(r)
  BY MaxNat DEF Aged
<1>2. /\ Len(tl) = Len(l)
      /\ \E a \in 1 .. Len(l) :
            /\ l[a] = node
            /\ \A i \in 1 .. Len(l) :
                tl[i] = IF i < a THEN l[i]
                        ELSE IF i < Len(l) THEN l[i + 1] ELSE node
  BY TouchOK
<1> HIDE DEF tl
<1>3. PICK a \in 1 .. Len(l) :
        /\ l[a] = node
        /\ \A i \in 1 .. Len(l) :
            tl[i] = IF i < a THEN l[i]
                    ELSE IF i < Len(l) THEN l[i + 1] ELSE node
  BY <1>2
<1>4. PICK c \in 1 .. Len(r) : Len(r) - c = Len(l) - a
  <2>1. /\ Len(r) - Len(l) + a \in 1 .. Len(r)
        /\ Len(r) - (Len(r) - Len(l) + a) = Len(l) - a
    BY <1>1
  <2> QED BY <2>1, Zenon
<1>5. r[c] = node.name
  BY <1>1, <1>3, <1>4 DEF Aged
<1>6. node.name \in Members(r)
  BY <1>5 DEF Members
<1>7. /\ Len(tr) = Len(r)
      /\ \E b \in 1 .. Len(r) :
            /\ r[b] = node.name
            /\ \A j \in 1 .. Len(r) :
                tr[j] = IF j < b THEN r[j]
                        ELSE IF j < Len(r) THEN r[j + 1] ELSE node.name
  BY <1>6, TouchOK, ZenonT(60)
<1> HIDE DEF tr
<1>8. PICK b \in 1 .. Len(r) :
            /\ r[b] = node.name
            /\ \A j \in 1 .. Len(r) :
                tr[j] = IF j < b THEN r[j]
                        ELSE IF j < Len(r) THEN r[j + 1] ELSE node.name
  BY <1>7
<1>9. b = c
  BY <1>5, <1>8 DEF Linked
<1>10. ASSUME NEW i \in 1 .. Len(l), NEW j \in 1 .. Len(r),
              Len(r) - j = Len(l) - i
       PROVE  tl[i].name = tr[j]
  <2>1. CASE i < a
    <3>1. j < b
      BY <1>1, <1>4, <1>9, <1>10, <2>1
    <3>2. tl[i] = l[i]
      BY <1>3, <2>1
    <3>3. tr[j] = r[j]
      BY <1>8, <3>1
    <3> QED BY <1>10, <3>2, <3>3 DEF Aged
  <2>2. CASE i >= a /\ i < Len(l)
    <3>1. tl[i] = l[i + 1] /\ tr[j] = r[j + 1]
      <4>1. ~(j < b) /\ j < Len(r) /\ ~(i < a)
        BY <1>1, <1>4, <1>9, <1>10, <2>2
      <4>2. tl[i] = l[i + 1]
        BY <1>3, <2>2, <4>1
      <4> QED BY <1>8, <4>1, <4>2
    <3>2. /\ i + 1 \in 1 .. Len(l) /\ j + 1 \in 1 .. Len(r)
          /\ Len(r) - (j + 1) = Len(l) - (i + 1)
      BY <1>1, <1>10, <2>2
    <3> QED BY <3>1, <3>2, SMTT(60) DEF Aged
  <2>3. CASE i = Len(l)
    BY <1>1, <1>3, <1>4, <1>8, <1>9, <1>10, <2>3
  <2> QED BY <1>1, <2>1, <2>2, <2>3
<1>11. Aged(tl, tr)
  BY <1>1, <1>2, <1>7, <1>10 DEF Aged
<1> QED BY <1>6, <1>11 DEF tl, tr

\* A name that is not cached while there is room has never been used.
LEMMA GrowAges ==
    ASSUME NEW l \in Seq(Nodes), NEW r \in Seq(Names), Aged(l, r),
           Len(l) < Max, NEW node \in Nodes, NoName(l, node.name)
    PROVE  /\ node.name \notin Members(r)
           /\ Aged(hev_list_add_tail(l, node), Append(r, node.name))
<1> DEFINE al == hev_list_add_tail(l, node)
           ar == Append(r, node.name)
<1>1. Len(l) \in Nat /\ Len(r) = Len(l)
  BY MaxNat DEF Aged
<1>2. ASSUME NEW i \in 1 .. Len(l) PROVE l[i].name = r[i] /\ r[i] # node.name
  <2>1. l[i].name = r[i]
    BY <1>1 DEF Aged
  <2> QED BY <2>1 DEF NoName, Members
<1>3. node.name \notin Members(r)
  BY <1>1, <1>2 DEF Members
<1>4. /\ Len(al) = Len(l) + 1 /\ al[Len(l) + 1] = node
      /\ \A i \in 1 .. Len(l) : al[i] = l[i]
  BY AddTail
<1>5. node.name \in Names
  BY DEF Nodes
<1>6. /\ Len(ar) = Len(r) + 1 /\ ar[Len(r) + 1] = node.name
      /\ \A i \in 1 .. Len(r) : ar[i] = r[i]
  BY <1>5
<1> HIDE DEF al, ar
<1>7. ASSUME NEW i \in 1 .. Len(al) PROVE al[i].name = ar[i]
  <2>1. CASE i \in 1 .. Len(l)
    BY <1>1, <1>2, <1>4, <1>6, <2>1
  <2>2. CASE i = Len(l) + 1
    BY <1>1, <1>4, <1>6, <2>2
  <2> QED BY <1>1, <1>4, <2>1, <2>2
<1>8. Len(al) = IF Len(ar) < Max THEN Len(ar) ELSE Max
  BY <1>1, <1>4, <1>6, MaxNat
<1>9. ASSUME NEW i \in 1 .. Len(al), NEW j \in 1 .. Len(ar),
             Len(ar) - j = Len(al) - i
      PROVE  i = j
  BY <1>1, <1>4, <1>6, <1>9
<1>10. Aged(al, ar)
  BY <1>7, <1>8, <1>9 DEF Aged
<1> QED BY <1>3, <1>10 DEF al, ar

\* An eviction drops the name that leaves the window.
LEMMA EvictAges ==
    ASSUME NEW l \in Seq(Nodes), NEW r \in Seq(Names), Linked(l), Linked(r),
           Aged(l, r), Len(l) >= Max, NEW node \in Nodes,
           NoName(l, node.name)
    PROVE  LET nf == hev_list_first(hev_list_add_tail(l, node))
               new == hev_list_del(hev_list_add_tail(l, node), nf)
               used == IF node.name \in Members(r) THEN Touch(r, node.name)
                                                   ELSE Append(r, node.name)
           IN  /\ nf \in Members(l) /\ nf = l[1]
               /\ new \in Seq(Nodes) /\ Len(new) = Len(l) /\ Linked(new)
               /\ Members(new) = (Members(l) \cup {node}) \ {nf}
               /\ Aged(new, used)
<1> DEFINE al == hev_list_add_tail(l, node)
           nf == hev_list_first(al)
           new == hev_list_del(al, nf)
           used == IF node.name \in Members(r) THEN Touch(r, node.name)
                                               ELSE Append(r, node.name)
<1>1. /\ Len(l) = Max /\ Len(l) \in Nat /\ Len(l) >= 1
      /\ Len(r) \in Nat /\ Len(l) <= Len(r)
  BY MaxNat DEF Aged
<1>2. node \notin Members(l) /\ node.name \in Names
  BY DEF NoName, Nodes
<1>3. /\ al \in Seq(Nodes) /\ Len(al) = Len(l) + 1 /\ al[Len(l) + 1] = node
      /\ \A i \in 1 .. Len(l) : al[i] = l[i]
      /\ Members(al) = Members(l) \cup {node}
      /\ Linked(al)
  <2>0. al \in Seq(Nodes)
    BY DEF hev_list_add_tail
  <2>1. /\ Len(al) = Len(l) + 1 /\ al[Len(l) + 1] = node
        /\ \A i \in 1 .. Len(l) : al[i] = l[i]
    BY AddTail
  <2>2. Members(al) = Members(l) \cup {node}
    BY AddTailMembers
  <2>3. Linked(al)
    BY <1>2, AddTailLinked
  <2> QED BY <2>0, <2>1, <2>2, <2>3
<1> HIDE DEF al
<1>4. nf = l[1] /\ nf = al[1] /\ nf \in Members(l) /\ nf \in Members(al)
  <2>1. 1 \in 1 .. Len(l) /\ 1 \in 1 .. Len(al) /\ al[1] = l[1]
    BY <1>1, <1>3
  <2>2. l[1] \in Members(l) /\ al[1] \in Members(al)
    BY <2>1 DEF Members
  <2> QED BY <2>1, <2>2 DEF hev_list_first
<1> HIDE DEF nf
<1>5. /\ new \in Seq(Nodes) /\ Len(new) = Len(al) - 1 /\ Linked(new)
      /\ Members(new) = Members(al) \ {nf}
      /\ \E at \in 1 .. Len(al) :
            /\ al[at] = nf
            /\ \A i \in 1 .. Len(al) - 1 :
                new[i] = IF i < at THEN al[i] ELSE al[i + 1]
  BY <1>3, <1>4, Del, SMTT(90)
<1> HIDE DEF new
<1>6. \A i \in 1 .. Len(l) : new[i] = IF i < Len(l) THEN l[i + 1] ELSE node
  <2>1. PICK at \in 1 .. Len(al) :
            /\ al[at] = nf
            /\ \A i \in 1 .. Len(al) - 1 :
                new[i] = IF i < at THEN al[i] ELSE al[i + 1]
    BY <1>5
  <2>2. at = 1
    BY <1>1, <1>3, <1>4, <2>1 DEF Linked
  <2> QED BY <1>1, <1>3, <2>1, <2>2, SMTT(60)
<1>7. /\ Len(used) \in Nat /\ Len(used) >= Len(l)
      /\ used[Len(used)] = node.name
      /\ \A i \in 1 .. Len(l), j \in 1 .. Len(used) :
            Len(used) - j = Len(l) - i /\ i < Len(l) => used[j] = l[i + 1].name
  <2>1. CASE node.name \in Members(r)
    <3> DEFINE tr == Touch(r, node.name)
    <3>1. /\ Len(tr) = Len(r)
          /\ \E b \in 1 .. Len(r) :
                /\ r[b] = node.name
                /\ \A j \in 1 .. Len(r) :
                    tr[j] = IF j < b THEN r[j]
                            ELSE IF j < Len(r) THEN r[j + 1] ELSE node.name
      BY <2>1, TouchOK, SMTT(60)
    <3> HIDE DEF tr
    <3>2. PICK b \in 1 .. Len(r) :
                /\ r[b] = node.name
                /\ \A j \in 1 .. Len(r) :
                    tr[j] = IF j < b THEN r[j]
                            ELSE IF j < Len(r) THEN r[j + 1] ELSE node.name
      BY <3>1
    <3>3. b <= Len(r) - Len(l)
      <4> SUFFICES ASSUME b > Len(r) - Len(l) PROVE FALSE
        BY <1>1
      <4> DEFINE i == b - (Len(r) - Len(l))
      <4>1. i \in 1 .. Len(l) /\ Len(r) - b = Len(l) - i
        BY <1>1
      <4> HIDE DEF i
      <4>2. l[i].name = node.name
        BY <3>2, <4>1 DEF Aged
      <4> QED BY <4>1, <4>2 DEF NoName, Members
    <3>4. tr[Len(r)] = node.name
      BY <1>1, <3>2
    <3>5. ASSUME NEW i \in 1 .. Len(l), NEW j \in 1 .. Len(r),
                 Len(r) - j = Len(l) - i, i < Len(l)
          PROVE  tr[j] = l[i + 1].name
      <4>1. /\ j >= b /\ j < Len(r) /\ tr[j] = r[j + 1]
            /\ i + 1 \in 1 .. Len(l) /\ j + 1 \in 1 .. Len(r)
            /\ Len(r) - (j + 1) = Len(l) - (i + 1)
        BY <1>1, <3>2, <3>3, <3>5, SMTT(60)
      <4> QED BY <4>1 DEF Aged
    <3>6. used = tr
      BY <2>1 DEF tr
    <3> HIDE DEF used
    <3> QED BY <1>1, <3>1, <3>4, <3>5, <3>6
  <2>2. CASE node.name \notin Members(r)
    <3> DEFINE ar == Append(r, node.name)
    <3>1. /\ Len(ar) = Len(r) + 1 /\ ar[Len(r) + 1] = node.name
          /\ \A j \in 1 .. Len(r) : ar[j] = r[j]
      BY <1>2
    <3> HIDE DEF ar
    <3>2. ASSUME NEW i \in 1 .. Len(l), NEW j \in 1 .. Len(ar),
                 Len(ar) - j = Len(l) - i, i < Len(l)
          PROVE  ar[j] = l[i + 1].name
      <4>1. /\ i + 1 \in 1 .. Len(l) /\ j \in 1 .. Len(r) /\ ar[j] = r[j]
            /\ Len(r) - j = Len(l) - (i + 1)
        BY <1>1, <3>1, <3>2
      <4> QED BY <4>1 DEF Aged
    <3>3. used = ar
      BY <2>2 DEF ar
    <3> HIDE DEF used
    <3>4. /\ Len(used) \in Nat /\ Len(used) >= Len(l)
          /\ used[Len(used)] = node.name
      BY <1>1, <3>1, <3>3
    <3> QED BY <3>2, <3>3, <3>4, Zenon
  <2> QED BY <2>1, <2>2
<1> HIDE DEF used
<1>8. Aged(new, used)
  <2>1. Len(new) = Len(l)
    BY <1>1, <1>3, <1>5
  <2>2. Len(new) = IF Len(used) < Max THEN Len(used) ELSE Max
    BY <1>1, <1>7, <2>1, MaxNat
  <2>3. ASSUME NEW i \in 1 .. Len(new), NEW j \in 1 .. Len(used),
               Len(used) - j = Len(new) - i
        PROVE  new[i].name = used[j]
    <3>1. CASE i < Len(l)
      BY <1>1, <1>6, <1>7, <2>1, <2>3, <3>1, Zenon
    <3>2. CASE i = Len(l)
      <4>1. j = Len(used) /\ new[i] = node
        BY <1>1, <1>6, <1>7, <2>1, <2>3, <3>2
      <4> QED BY <1>7, <4>1
    <3> QED BY <1>1, <2>1, <3>1, <3>2
  <2> QED BY <2>2, <2>3 DEF Aged
<1>9. Len(new) = Len(l) /\ Members(new) = (Members(l) \cup {node}) \ {nf}
  BY <1>1, <1>3, <1>5
<1> QED BY <1>4, <1>5, <1>8, <1>9 DEF al, nf, new, used

\* Every name in the window of the history is cached.
LEMMA WindowCached ==
    ASSUME NEW l \in Seq(Nodes), NEW r \in Seq(Names), Aged(l, r),
           NEW x \in Window(r)
    PROVE  \E n \in Members(l) : n.name = x
<1>1. PICK j \in 1 .. Len(r) : j + Max > Len(r) /\ x = r[j]
  BY DEF Window
<1>2. /\ Len(l) \in Nat /\ Len(r) \in Nat
      /\ Len(l) = Len(r) \/ Len(l) = Max
      /\ Len(l) <= Len(r)
  BY MaxNat DEF Aged
<1> DEFINE i == Len(l) - (Len(r) - j)
<1>3. i \in 1 .. Len(l) /\ Len(r) - j = Len(l) - i
  BY <1>1, <1>2, MaxNat
<1> HIDE DEF i
<1>4. l[i].name = x
  BY <1>1, <1>3 DEF Aged
<1> QED BY <1>3, <1>4 DEF Members

\* The history keeps every name once.
LEMMA UsedOK ==
    ASSUME recent \in Seq(Names), Linked(recent), NEW name \in Names
    PROVE  Used(name) \in Seq(Names) /\ Linked(Used(name))
<1>1. CASE name \in Members(recent)
  BY <1>1, TouchOK DEF Used
<1>2. CASE name \notin Members(recent)
  <2>1. Used(name) = hev_list_add_tail(recent, name)
    BY <1>2 DEF Used, hev_list_add_tail
  <2>2. Linked(hev_list_add_tail(recent, name))
    BY <1>2, AddTailLinked
  <2>3. hev_list_add_tail(recent, name) \in Seq(Names)
    BY DEF hev_list_add_tail
  <2> QED BY <2>1, <2>2, <2>3
<1> QED BY <1>1, <1>2

\* LeastRecentlyUsed, stated for a list and a history that are parameters.
LEMMA AgedIsLRU == LeastRecentlyUsed <=> Aged(list, recent)
  BY DEF LeastRecentlyUsed, Aged

\* The same in the next state.
LEMMA AgedIsLRUPrime == LeastRecentlyUsed' <=> Aged(list', recent')
  BY DEF LeastRecentlyUsed, Aged

\* The empty cache.
LEMMA InitIInv == Init => IInv
<1> SUFFICES ASSUME Init PROVE IInv
  OBVIOUS
<1>1. Members(list) = {} /\ Linked(list) /\ Linked(recent)
  BY DEF Init, Members, Linked
<1>2. TypeOK
  BY CacheAssumption DEF Init, TypeOK
<1>3. CacheConsistent
  BY <1>1 DEF Init, CacheConsistent, Indices
<1>4. LeastRecentlyUsed
  BY MaxNat DEF Init, LeastRecentlyUsed
<1> QED BY <1>1, <1>2, <1>3, <1>4 DEF IInv, Init

\* What find and lookup do to a cached name.
LEMMA HitStep ==
    ASSUME IInv, NEW node \in tree, NEW answer \in SUBSET {node},
           list' = Touch(list, node), UNCHANGED <<use, tree, records>>,
           Remember(node.name, answer),
           left' \in -1 .. MaxQuestions, answers' \subseteq Nodes
    PROVE  IInv'
<1> USE DEF IInv
<1>1. /\ list \in Seq(Nodes) /\ recent \in Seq(Names) /\ tree \subseteq Nodes
      /\ Linked(list) /\ Linked(recent) /\ Members(list) = tree
      /\ Aged(list, recent)
  BY AgedIsLRU DEF TypeOK, CacheConsistent
<1>2. node \in Members(list) /\ node.name \in Names
  BY <1>1 DEF Nodes
<1>3. /\ list' \in Seq(Nodes) /\ Len(list') = Len(list)
      /\ Linked(list') /\ Members(list') = Members(list)
  BY <1>1, <1>2, TouchOK
<1>4. /\ node.name \in Members(recent)
      /\ Aged(Touch(list, node), Touch(recent, node.name))
  BY <1>1, <1>2, HitAges
<1>5. recent' = Touch(recent, node.name)
  BY <1>4 DEF Remember, Used
<1>6. recent' \in Seq(Names) /\ Linked(recent')
  BY <1>1, <1>2, UsedOK DEF Remember
<1>7. promised' \subseteq tree
  BY DEF Remember
<1>8. TypeOK'
  BY <1>1, <1>3, <1>6, <1>7 DEF TypeOK
<1>9. CacheConsistent'
  BY <1>1, <1>3 DEF CacheConsistent
<1>10. LeastRecentlyUsed'
  BY <1>4, <1>5, AgedIsLRUPrime
<1> QED BY <1>6, <1>7, <1>8, <1>9, <1>10

\* A new name while there is room.
LEMMA GrowStep ==
    ASSUME IInv, NEW node \in Nodes, Found(node.name) = {}, find_grow(node),
           Remember(node.name, {node}),
           left' \in -1 .. MaxQuestions, answers' \subseteq Nodes
    PROVE  IInv'
<1> USE DEF IInv
<1>1. /\ list \in Seq(Nodes) /\ recent \in Seq(Names) /\ tree \subseteq Nodes
      /\ Linked(list) /\ Linked(recent) /\ Members(list) = tree
      /\ Aged(list, recent) /\ Len(list) = use /\ use \in Nat /\ use < Max
      /\ node.idx = use /\ use' = use + 1 /\ tree' = tree \cup {node}
      /\ list' = hev_list_add_tail(list, node)
      /\ records \in [Indices -> Nodes \cup {NULL}]
      /\ records' = [records EXCEPT ![node.idx] = node]
  BY AgedIsLRU DEF TypeOK, CacheConsistent, find_grow
<1>2. NoName(list, node.name) /\ node \notin Members(list)
  BY <1>1 DEF Found, NoName
<1>3. node.name \in Names /\ node.idx \in Indices
  BY DEF Nodes
<1>4. list' \in Seq(Nodes) /\ Len(list') = use + 1
  BY <1>1 DEF hev_list_add_tail
<1>5. Members(list') = tree'
  BY <1>1, AddTailMembers
<1>6. Linked(list')
  BY <1>1, <1>2, AddTailLinked
<1>7. /\ node.name \notin Members(recent)
      /\ Aged(list', Append(recent, node.name))
  BY <1>1, <1>2, GrowAges
<1>8. recent' = Append(recent, node.name)
  BY <1>7 DEF Remember, Used
<1>9. recent' \in Seq(Names) /\ Linked(recent')
  BY <1>1, <1>3, UsedOK DEF Remember
<1>10. promised' \subseteq tree'
  BY <1>1 DEF Remember
<1>11. TypeOK'
  <2>1. use' \in 0 .. Max
    BY <1>1, MaxNat
  <2>2. tree' \subseteq Nodes /\ records' \in [Indices -> Nodes \cup {NULL}]
    BY <1>1, <1>3
  <2> QED BY <1>4, <1>9, <1>10, <2>1, <2>2 DEF TypeOK
<1>12. CacheConsistent'
  <2>1. \A m, n \in tree' : m.name = n.name => m = n
    BY <1>1, <1>2 DEF CacheConsistent, NoName
  <2>2. ASSUME NEW n \in tree' PROVE n.idx < use' /\ records'[n.idx] = n
    <3>1. CASE n = node
      BY <1>1, <1>3, <3>1
    <3>2. CASE n \in tree
      <4>1. n.idx \in Indices /\ n.idx < use /\ records[n.idx] = n
        BY <1>1, <3>2 DEF CacheConsistent, Nodes
      <4> QED BY <1>1, <4>1, MaxNat DEF Indices
    <3> QED BY <1>1, <3>1, <3>2
  <2>3. ASSUME NEW i \in Indices
        PROVE  IF i < use' THEN records'[i] \in tree' /\ records'[i].idx = i
                           ELSE records'[i] = NULL
    <3>1. IF i < use THEN records[i] \in tree /\ records[i].idx = i
                     ELSE records[i] = NULL
      BY DEF CacheConsistent
    <3>2. i \in Nat
      BY MaxNat DEF Indices
    <3>3. CASE i = use
      BY <1>1, <1>3, <3>3
    <3>4. CASE i # use
      <4>1. records'[i] = records[i] /\ (i < use' <=> i < use)
        BY <1>1, <3>2, <3>4
      <4> QED BY <1>1, <3>1, <4>1
    <3> QED BY <3>3, <3>4
  <2> QED BY <1>1, <1>4, <1>5, <1>6, <2>1, <2>2, <2>3 DEF CacheConsistent
<1>13. LeastRecentlyUsed'
  BY <1>7, <1>8, AgedIsLRUPrime
<1> QED BY <1>9, <1>10, <1>11, <1>12, <1>13

\* A new name in place of the least recently used one.
LEMMA EvictStep ==
    ASSUME IInv, NEW node \in Nodes, Found(node.name) = {}, find_evict(node),
           Remember(node.name, {node}),
           left' \in -1 .. MaxQuestions, answers' \subseteq Nodes
    PROVE  IInv'
<1> USE DEF IInv
<1> DEFINE nf == hev_list_first(hev_list_add_tail(list, node))
<1>1. /\ list \in Seq(Nodes) /\ recent \in Seq(Names) /\ tree \subseteq Nodes
      /\ Linked(list) /\ Linked(recent) /\ Members(list) = tree
      /\ Aged(list, recent) /\ Len(list) = use /\ use \in Nat /\ use >= Max
      /\ use \in 0 .. Max /\ promised \subseteq tree
      /\ records \in [Indices -> Nodes \cup {NULL}]
  BY AgedIsLRU DEF TypeOK, CacheConsistent, find_evict
<1>2. /\ node.idx = nf.idx /\ use' = use /\ tree' = (tree \cup {node}) \ {nf}
      /\ list' = hev_list_del(hev_list_add_tail(list, node), nf)
      /\ records' = [records EXCEPT ![node.idx] = node]
  BY DEF find_evict
<1>3. NoName(list, node.name) /\ node \notin Members(list)
  BY <1>1 DEF Found, NoName
<1>4. node.name \in Names /\ node.idx \in Indices
  BY DEF Nodes
<1>5. recent' = IF node.name \in Members(recent) THEN Touch(recent, node.name)
                                                ELSE Append(recent, node.name)
  BY DEF Remember, Used
<1>6. /\ nf \in Members(list)
      /\ list' \in Seq(Nodes) /\ Len(list') = Len(list) /\ Linked(list')
      /\ Members(list') = (Members(list) \cup {node}) \ {nf}
      /\ Aged(list', recent')
  BY <1>1, <1>2, <1>3, <1>5, EvictAges
<1> HIDE DEF nf
<1>7. recent' \in Seq(Names) /\ Linked(recent')
  BY <1>1, <1>4, UsedOK DEF Remember
<1>8. /\ \A m, n \in tree : m.name = n.name => m = n
      /\ \A n \in tree : n.idx \in Indices /\ n.idx < use /\ records[n.idx] = n
      /\ node # nf /\ nf \in tree /\ Members(list') = tree'
  <2>1. \A m, n \in tree : m.name = n.name => m = n
    BY Zenon DEF CacheConsistent
  <2>2. \A n \in tree : n.idx < use /\ records[n.idx] = n
    BY Zenon DEF CacheConsistent
  <2>3. \A n \in tree : n.idx \in Indices
    BY <1>1 DEF Nodes
  <2>4. node # nf /\ nf \in tree /\ Members(list') = tree'
    BY <1>1, <1>2, <1>3, <1>6, Zenon
  <2> QED BY <2>1, <2>2, <2>3, <2>4, Zenon
<1>9. ASSUME NEW p \in promised' PROVE p \in tree'
  <2>1. p \in promised \cup {node} /\ p.name \in Window(recent')
    BY DEF Remember
  <2>2. PICK n \in tree' : n.name = p.name
    BY <1>6, <1>7, <1>8, <2>1, WindowCached
  <2>3. CASE p = nf
    BY <1>1, <1>2, <1>3, <1>8, <2>2, <2>3 DEF NoName
  <2> QED BY <1>1, <1>2, <1>8, <2>1, <2>3
<1>10. TypeOK'
  <2>1. tree' \subseteq Nodes /\ records' \in [Indices -> Nodes \cup {NULL}]
    BY <1>1, <1>2, <1>4
  <2> QED BY <1>1, <1>2, <1>6, <1>7, <1>9, <2>1 DEF TypeOK
<1>11. CacheConsistent'
  <2>1. \A m, n \in tree' : m.name = n.name => m = n
    BY <1>1, <1>2, <1>3, <1>8 DEF NoName
  <2>2. ASSUME NEW n \in tree' PROVE n.idx < use' /\ records'[n.idx] = n
    <3>1. CASE n = node
      BY <1>1, <1>2, <1>4, <1>8, <3>1
    <3>2. CASE n # node
      <4>1. n \in tree /\ n # nf /\ n.idx # nf.idx
        BY <1>2, <1>8, <3>2
      <4> QED BY <1>1, <1>2, <1>8, <4>1
    <3> QED BY <3>1, <3>2
  <2>3. ASSUME NEW i \in Indices
        PROVE  IF i < use' THEN records'[i] \in tree' /\ records'[i].idx = i
                           ELSE records'[i] = NULL
    <3>1. IF i < use THEN records[i] \in tree /\ records[i].idx = i
                     ELSE records[i] = NULL
      BY DEF CacheConsistent
    <3>2. CASE i = node.idx
      BY <1>1, <1>2, <1>8, <3>2
    <3>3. CASE i # node.idx
      <4>1. records'[i] = records[i]
        BY <1>1, <1>2, <3>3
      <4>2. records[i] # nf
        <5> SUFFICES ASSUME records[i] = nf PROVE FALSE
          OBVIOUS
        <5>1. i < use
          BY <1>8, <3>1, CacheAssumption DEF TypeOK, Nodes, Indices
        <5> QED BY <1>2, <1>8, <3>1, <3>3, <5>1
      <4> QED BY <1>2, <3>1, <4>1, <4>2
    <3> QED BY <3>2, <3>3
  <2> QED BY <1>1, <1>2, <1>6, <1>8, <2>1, <2>2, <2>3 DEF CacheConsistent
<1>12. LeastRecentlyUsed'
  BY <1>6, AgedIsLRUPrime
<1> QED BY <1>7, <1>9, <1>10, <1>11, <1>12

\* One step per action.
LEMMA NextIInv == IInv /\ [Next]_vars => IInv'
<1> SUFFICES ASSUME IInv, [Next]_vars PROVE IInv'
  OBVIOUS
<1>0. /\ left \in -1 .. MaxQuestions /\ answers \subseteq Nodes
      /\ tree \subseteq Nodes /\ MaxQuestions \in Nat
  BY CacheAssumption DEF IInv, TypeOK
<1>1. ASSUME UNCHANGED <<cache, recent, promised>>,
             left' \in -1 .. MaxQuestions, answers' \subseteq Nodes
      PROVE  IInv'
  <2>1. /\ use' = use /\ list' = list /\ tree' = tree /\ records' = records
        /\ recent' = recent /\ promised' = promised
    BY <1>1 DEF cache
  <2>2. TypeOK'
    BY <1>1, <2>1 DEF IInv, TypeOK
  <2>3. CacheConsistent'
    BY <2>1 DEF IInv, CacheConsistent
  <2>4. LeastRecentlyUsed'
    BY <2>1, AgedIsLRU, AgedIsLRUPrime DEF IInv
  <2> QED BY <2>1, <2>2, <2>3, <2>4 DEF IInv
<1>2. ASSUME NEW qd \in 0 .. MaxQuestions, handle(qd) PROVE IInv'
  BY <1>0, <1>1, <1>2 DEF handle
<1>3. ASSUME NEW node \in Nodes, question(node) PROVE IInv'
  <2>1. /\ left' \in -1 .. MaxQuestions /\ answers' \subseteq Nodes
        /\ Remember(node.name, {node})
    BY <1>0, <1>3 DEF question
  <2>2. CASE node \in tree /\ find_hit(node)
    BY <2>1, <2>2, HitStep DEF find_hit
  <2>3. CASE Found(node.name) = {} /\ find_grow(node)
    BY <2>1, <2>3, GrowStep
  <2>4. CASE Found(node.name) = {} /\ find_evict(node)
    BY <2>1, <2>4, EvictStep
  <2> QED BY <1>3, <2>2, <2>3, <2>4 DEF question
<1>4. CASE question_skipped \/ handle_ends
  BY <1>0, <1>1, <1>4 DEF question_skipped, handle_ends
<1>5. ASSUME NEW ip \in Addresses, lookup(ip) PROVE IInv'
  <2> DEFINE node == lookup_node(ip)
  <2>1. node # NULL /\ ip.host \in Nat
    BY <1>5 DEF lookup, Addresses
  <2>2. node = records[ip.host] /\ ip.host \in Indices
    BY <2>1, MaxNat DEF lookup_node, Indices
  <2>3. node \in tree
    BY <2>1, <2>2 DEF IInv, CacheConsistent
  <2>4. /\ list' = Touch(list, node) /\ Remember(node.name, {})
        /\ UNCHANGED <<use, tree, records, left, answers>>
    BY <1>5 DEF lookup
  <2> HIDE DEF node
  <2> QED BY <1>0, <2>3, <2>4, HitStep
<1>6. CASE UNCHANGED vars
  BY <1>0, <1>1, <1>6 DEF vars
<1> QED BY <1>2, <1>3, <1>4, <1>5, <1>6 DEF Next

\* The inductive invariant of the mapped DNS.
THEOREM MappedIInv == Spec => []IInv
  BY InitIInv, NextIInv, PTL DEF Spec

\* The tree, the list and records[] agree for every cache size, and names
\* and indices are unique.
THEOREM MappedConsistent == Spec => []CacheConsistent
<1>1. IInv => CacheConsistent
  BY DEF IInv
<1> QED BY <1>1, MappedIInv, PTL

\* For every cache size the cache is the Max last used names in their order.
THEOREM MappedLRU == Spec => []LeastRecentlyUsed
<1>1. IInv => LeastRecentlyUsed
  BY DEF IInv
<1> QED BY <1>1, MappedIInv, PTL

\* An answer holds until Max other names have been used: hev_mapped_dns_lookup
\* returns the name the address was given out for.
THEOREM MappedPromise == Spec => []PromiseKept
<1>1. ASSUME IInv PROVE PromiseKept
  <2> SUFFICES ASSUME NEW p \in promised
               PROVE  lookup_node([net |-> "mapped", host |-> p.idx]) = p
    BY Zenon DEF PromiseKept
  <2>1. p \in tree /\ p.idx \in Indices /\ records[p.idx] = p
    BY <1>1 DEF IInv, CacheConsistent, TypeOK, Nodes
  <2> QED BY <2>1, MaxNat DEF lookup_node, Indices
<1> QED BY <1>1, MappedIInv, PTL

----------------------------------------------------------------------------
(* The answers of one message.                                             *)

\* The names of set N are the last ones of the history r.
Latest(r, N) ==
    /\ N \subseteq Members(r)
    /\ \A i, j \in 1 .. Len(r) : i < j /\ r[i] \in N => r[j] \in N

Answered == {a.name : a \in answers}

\* The names answered in this message are the last used; as long as the cache
\* holds them all, so are their answers promised.
LastInv ==
    /\ IsFiniteSet(Answered)
    /\ Latest(recent, Answered)
    /\ left = -1 => answers = {}
    /\ Cardinality(Answered) <= Max => answers \subseteq promised

\* Each answer is noted with the place of its question.
NotedInv ==
    /\ off \in Nat /\ ans \in Seq([ipo : Nat, node : Nodes])
    /\ \A i \in 1 .. Len(ans) :
        /\ ans[i].node \in answers
        /\ [off |-> ans[i].ipo, name |-> ans[i].node.name] \in asked

\* The Max last names are the window.
LEMMA LatestInWindow ==
    ASSUME NEW r \in Seq(Names), Linked(r), NEW N, IsFiniteSet(N), Latest(r, N),
           Cardinality(N) <= Max
    PROVE  N \subseteq Window(r)
<1> SUFFICES ASSUME NEW x \in N PROVE x \in Window(r)
  OBVIOUS
<1>1. PICK j \in 1 .. Len(r) : r[j] = x
  BY DEF Latest, Members
<1>2. Len(r) \in Nat /\ j \in Nat /\ j >= 1 /\ j <= Len(r)
  OBVIOUS
<1> DEFINE I == j .. Len(r)
           f == [i \in I |-> r[i]]
<1>3. \A i \in I : i \in 1 .. Len(r) /\ r[i] \in N
  <2> SUFFICES ASSUME NEW i \in I PROVE i \in 1 .. Len(r) /\ r[i] \in N
    OBVIOUS
  <2>1. i \in 1 .. Len(r) /\ (i = j \/ j < i)
    BY <1>2
  <2> QED BY <1>1, <2>1 DEF Latest
<1>4. f \in [I -> N]
  BY <1>3
<1>5. \A a, b \in I : f[a] = f[b] => a = b
  BY <1>3 DEF Linked
<1>6. f \in Injection(I, N)
  BY <1>4, <1>5, Zenon DEF Injection, IsInjective
<1> HIDE DEF f
<1>7. Cardinality(I) <= Cardinality(N)
  BY <1>6, FS_Injection, Zenon
<1>8. Cardinality(I) = Len(r) - j + 1
  BY <1>2, FS_Interval
<1>9. Cardinality(N) \in Nat
  BY FS_CardinalityType
<1> HIDE DEF I
<1>10. j + Max > Len(r)
  BY <1>2, <1>7, <1>8, <1>9, MaxNat
<1> QED BY <1>1, <1>10 DEF Window

\* A name that is used joins the last ones.
LEMMA LatestUsed ==
    ASSUME recent \in Seq(Names), Linked(recent), NEW name \in Names, NEW N,
           Latest(recent, N)
    PROVE  Latest(Used(name), N \cup {name})
<1> DEFINE r == recent
           tr == Used(name)
<1>1. Len(r) \in Nat
  OBVIOUS
<1>2. CASE name \in Members(r)
  <2>1. /\ Len(tr) = Len(r) /\ Members(tr) = Members(r)
        /\ \E b \in 1 .. Len(r) :
            /\ r[b] = name
            /\ \A j \in 1 .. Len(r) :
                tr[j] = IF j < b THEN r[j]
                        ELSE IF j < Len(r) THEN r[j + 1] ELSE name
    BY <1>2, TouchOK, ZenonT(60) DEF Used
  <2>2. PICK b \in 1 .. Len(r) :
            /\ r[b] = name
            /\ \A j \in 1 .. Len(r) :
                tr[j] = IF j < b THEN r[j]
                        ELSE IF j < Len(r) THEN r[j + 1] ELSE name
    BY <2>1
  <2> HIDE DEF tr
  <2>3. N \cup {name} \subseteq Members(tr)
    BY <1>2, <2>1 DEF Latest
  <2>4. ASSUME NEW i \in 1 .. Len(tr), NEW j \in 1 .. Len(tr), i < j,
               tr[i] \in N \cup {name}
        PROVE  tr[j] \in N \cup {name}
    <3>1. CASE j = Len(r)
      <4>1. tr[j] = name
        BY <1>1, <2>1, <2>2, <3>1
      <4> QED BY <4>1
    <3>2. CASE j < Len(r)
      <4> DEFINE u == IF i < b THEN i ELSE i + 1
                 v == IF j < b THEN j ELSE j + 1
      <4>1. u \in 1 .. Len(r) /\ v \in 1 .. Len(r) /\ u < v /\ u # b
        BY <1>1, <2>1, <2>4, <3>2
      <4>2. tr[i] = r[u] /\ tr[j] = r[v]
        BY <1>1, <2>1, <2>2, <2>4, <3>2
      <4> HIDE DEF u, v
      <4>3. r[u] # name
        BY <2>2, <4>1 DEF Linked
      <4>4. r[u] \in N
        BY <2>4, <4>2, <4>3
      <4>5. r[v] \in N
        BY <4>1, <4>4 DEF Latest
      <4> QED BY <4>2, <4>5
    <3> QED BY <1>1, <2>1, <3>1, <3>2
  <2>5. Latest(tr, N \cup {name})
    BY <2>3, <2>4 DEF Latest
  <2> QED BY <2>5 DEF tr
<1>3. CASE name \notin Members(r)
  <2>1. tr = hev_list_add_tail(r, name)
    BY <1>3 DEF Used, hev_list_add_tail
  <2> HIDE DEF tr
  <2> DEFINE new == hev_list_add_tail(recent, name)
  <2>a. /\ Len(new) = Len(recent) + 1 /\ new[Len(recent) + 1] = name
        /\ \A i \in 1 .. Len(recent) : new[i] = recent[i]
    BY AddTail
  <2>b. Members(new) = Members(recent) \cup {name}
    BY AddTailMembers
  <2> HIDE DEF new
  <2>2. /\ Len(tr) = Len(r) + 1 /\ tr[Len(r) + 1] = name
        /\ \A i \in 1 .. Len(r) : tr[i] = r[i]
    BY <2>1, <2>a DEF new
  <2>3. Members(tr) = Members(r) \cup {name}
    BY <2>1, <2>b DEF new
  <2>4. N \cup {name} \subseteq Members(tr)
    BY <2>3 DEF Latest
  <2>5. ASSUME NEW i \in 1 .. Len(tr), NEW j \in 1 .. Len(tr), i < j,
               tr[i] \in N \cup {name}
        PROVE  tr[j] \in N \cup {name}
    <3>1. CASE j = Len(r) + 1
      BY <2>2, <3>1
    <3>2. CASE j # Len(r) + 1
      <4>1. i \in 1 .. Len(r) /\ j \in 1 .. Len(r)
        BY <1>1, <2>2, <2>5, <3>2
      <4>2. tr[i] = r[i] /\ tr[j] = r[j] /\ r[i] # name
        BY <1>3, <2>2, <4>1 DEF Members
      <4> QED BY <2>5, <4>1, <4>2 DEF Latest
    <3> QED BY <3>1, <3>2
  <2>6. Latest(tr, N \cup {name})
    BY <2>4, <2>5 DEF Latest
  <2> QED BY <2>6 DEF tr
<1> QED BY <1>2, <1>3

\* A question that is answered.
LEMMA QuestionLast ==
    ASSUME IInv, LastInv, NEW node \in Nodes, question(node) PROVE LastInv'
<1>1. recent \in Seq(Names) /\ Linked(recent) /\ node.name \in Names
  BY DEF IInv, TypeOK, Nodes
<1>2. /\ recent' = Used(node.name) /\ answers' = answers \cup {node}
      /\ promised' = {p \in promised \cup {node} : p.name \in Window(recent')}
      /\ left > 0 /\ left' = left - 1
  BY DEF question, Remember
<1>3. Answered' = Answered \cup {node.name}
  BY <1>2 DEF Answered
<1>4. IsFiniteSet(Answered') /\ Answered \subseteq Answered'
  BY <1>3, FS_AddElement DEF LastInv
<1>5. Latest(recent', Answered')
  BY <1>1, <1>2, <1>3, LatestUsed DEF LastInv
<1>6. recent' \in Seq(Names) /\ Linked(recent')
  BY <1>1, <1>2, UsedOK
<1>7. left' # -1
  <2>1. left \in Int
    BY CacheAssumption DEF IInv, TypeOK
  <2> QED BY <1>2, <2>1
<1>8. ASSUME Cardinality(Answered') <= Max PROVE answers' \subseteq promised'
  <2> DEFINE A == Answered
             B == Answered'
  <2>1. Cardinality(A) <= Cardinality(B)
    <3>1. IsFiniteSet(B) /\ A \in SUBSET B
      BY <1>4
    <3> HIDE DEF A, B
    <3> QED BY <3>1, FS_Subset
  <2>2. Cardinality(A) \in Nat
    BY FS_CardinalityType DEF LastInv
  <2>3. Cardinality(B) \in Nat
    BY <1>4, FS_CardinalityType
  <2>4. Cardinality(A) <= Max
    <3> HIDE DEF A, B
    <3>1. Cardinality(B) <= Max
      BY <1>8 DEF B
    <3> QED BY <2>1, <2>2, <2>3, <3>1, MaxNat
  <2>5. answers \subseteq promised
    BY <2>4 DEF LastInv
  <2>6. Answered' \subseteq Window(recent')
    BY <1>4, <1>5, <1>6, <1>8, LatestInWindow
  <2>7. \A a \in answers' : a.name \in Window(recent')
    BY <2>6 DEF Answered
  <2> QED BY <1>2, <2>5, <2>7
<1> QED BY <1>4, <1>5, <1>7, <1>8 DEF LastInv

\* Nothing has been answered yet.
LEMMA NoneAnswered ==
    ASSUME answers = {} PROVE LastInv
<1>1. Answered = {}
  BY DEF Answered
<1> QED BY <1>1, FS_EmptySet DEF LastInv, Latest

\* The same in the next state.
LEMMA NoneAnsweredPrime ==
    ASSUME answers' = {} PROVE LastInv'
<1>1. Answered' = {}
  BY DEF Answered
<1> QED BY <1>1, FS_EmptySet DEF LastInv, Latest

\* Every step of the message is one of the cache.
LEMMA MessageStep == [MNext]_mvars => [Next]_vars
  BY Zenon DEF MNext, mvars, message_handle, message_question, message_skipped,
     message_ends, message_lookup, Next

\* HevDNSMessage is HevMappedDNS with the layout of the messages.
LEMMA MessageRefines == MSpec => Spec
<1>1. MInit => Init
  BY DEF MInit
<1> QED BY <1>1, MessageStep, PTL DEF MSpec, Spec

\* The steps of the cache keep the answers of the message.
LEMMA LastStep ==
    ASSUME IInv, LastInv, [Next]_vars PROVE LastInv'
<1>1. CASE \E qd \in 0 .. MaxQuestions : handle(qd)
  BY <1>1, NoneAnsweredPrime DEF handle
<1>2. CASE handle_ends
  BY <1>2, NoneAnsweredPrime DEF handle_ends
<1>3. CASE \E node \in Nodes : question(node)
  BY <1>3, QuestionLast
<1>4. CASE question_skipped \/ UNCHANGED vars
  <2>1. UNCHANGED <<answers, recent, promised>> /\ (left' = -1 => left = -1)
    <3>1. CASE question_skipped
      <4>1. left \in Int /\ left > 0 /\ left' = left - 1
        BY <3>1, CacheAssumption DEF question_skipped, IInv, TypeOK
      <4> QED BY <3>1, <4>1 DEF question_skipped
    <3>2. CASE UNCHANGED vars
      BY <3>2 DEF vars
    <3> QED BY <1>4, <3>1, <3>2
  <2>2. Answered' = Answered
    BY <2>1 DEF Answered
  <2> QED BY <2>1, <2>2 DEF LastInv, Latest
<1>5. CASE \E ip \in Addresses : lookup(ip)
  <2>1. answers' = {}
    BY <1>5 DEF lookup, LastInv
  <2> QED BY <2>1, NoneAnsweredPrime
<1> QED BY <1>1, <1>2, <1>3, <1>4, <1>5 DEF Next

\* The steps of the message note every answer with its place.
LEMMA NotedStep ==
    ASSUME IInv, LastInv, NotedInv, [MNext]_mvars PROVE NotedInv'
<1>0. /\ HdrLen \in Nat /\ TailLen \in Nat /\ Spans \subseteq Nat
  BY LayoutAssumption
<1>1. <<>> \in Seq([ipo : Nat, node : Nodes]) /\ Len(<<>>) = 0
  OBVIOUS
<1>2. CASE \/ \E qd \in 0 .. MaxQuestions, n \in HdrLen .. SLen : message_handle(qd, n)
           \/ message_ends
  <2>1. ans' = <<>> /\ off' \in Nat
    BY <1>0, <1>2 DEF message_handle, message_ends
  <2> QED BY <1>1, <2>1 DEF NotedInv
<1>3. ASSUME NEW node \in Nodes, NEW span \in Spans, message_question(node, span)
      PROVE  NotedInv'
  <2> DEFINE e == [ipo |-> off, node |-> node]
  <2>1. /\ off' = off + span + TailLen /\ ans' = Append(ans, e)
        /\ answers' = answers \cup {node}
        /\ asked' = asked \cup {[off |-> off, name |-> node.name]}
    BY <1>3 DEF message_question, Parsed, question
  <2>2. off' \in Nat
    BY <1>0, <2>1 DEF NotedInv
  <2>3. e \in [ipo : Nat, node : Nodes] /\ e.node = node /\ e.ipo = off
    <3>1. off \in Nat
      BY Zenon DEF NotedInv
    <3> QED BY <3>1
  <2> HIDE DEF e
  <2>4. /\ ans' \in Seq([ipo : Nat, node : Nodes]) /\ Len(ans') = Len(ans) + 1
        /\ ans'[Len(ans) + 1] = e /\ \A i \in 1 .. Len(ans) : ans'[i] = ans[i]
    BY <2>1, <2>3 DEF NotedInv
  <2>5. ASSUME NEW i \in 1 .. Len(ans')
        PROVE  /\ ans'[i].node \in answers'
               /\ [off |-> ans'[i].ipo, name |-> ans'[i].node.name] \in asked'
    <3>1. CASE i = Len(ans) + 1
      BY <2>1, <2>3, <2>4, <3>1
    <3>2. CASE i # Len(ans) + 1
      <4>1. i \in 1 .. Len(ans)
        <5>1. Len(ans) \in Nat
          BY DEF NotedInv
        <5> QED BY <2>4, <3>2, <5>1
      <4> QED BY <2>1, <2>4, <4>1 DEF NotedInv
    <3> QED BY <3>1, <3>2
  <2> QED BY <2>2, <2>4, <2>5 DEF NotedInv
<1>4. ASSUME NEW span \in Spans, message_skipped(span) PROVE NotedInv'
  <2>1. off' \in Nat
    BY <1>0, <1>4 DEF message_skipped, Parsed, NotedInv
  <2>2. UNCHANGED <<ans, asked, answers>>
    BY <1>4 DEF message_skipped, question_skipped
  <2> QED BY <2>1, <2>2 DEF NotedInv
<1>5. CASE UNCHANGED mvars \/ \E ip \in Addresses : message_lookup(ip)
  <2>1. UNCHANGED <<off, ans, asked, answers>>
    BY <1>5, Zenon DEF mvars, vars, message, message_lookup, lookup
  <2> QED BY <2>1 DEF NotedInv
<1> QED BY <1>2, <1>3, <1>4, <1>5 DEF MNext

\* hev_mapped_dns_handle: every answer of a reply points to its question and
\* gives the address that stands for the name asked there, for every size of
\* the cache and every layout of the message, unless the message names more
\* than the cache holds or the question starts behind the first PtrMod bytes.
THEOREM MessageAnswersPoint == MSpec => []AnswersPoint
<1>1. MInit => LastInv /\ NotedInv
  <2> SUFFICES ASSUME MInit PROVE LastInv /\ NotedInv
    OBVIOUS
  <2>1. LastInv
    BY NoneAnswered DEF MInit, Init
  <2>2. <<>> \in Seq([ipo : Nat, node : Nodes]) /\ Len(<<>>) = 0
    OBVIOUS
  <2> QED BY <2>1, <2>2 DEF MInit, NotedInv
<1>2. MSpec => []IInv
  BY MessageRefines, MappedIInv, PTL
<1>3. ASSUME IInv, LastInv, NotedInv, [MNext]_mvars PROVE LastInv' /\ NotedInv'
  BY <1>3, MessageStep, LastStep, NotedStep
<1>4. ASSUME IInv, LastInv, NotedInv PROVE AnswersPoint
  <2> SUFFICES ASSUME NEW i \in 1 .. Len(ans), ans[i].ipo < PtrMod,
                      Cardinality(Answered) <= Max
               PROVE  \E q \in asked :
                        /\ q.off = Pointer(i)
                        /\ records[ans[i].node.idx].name = q.name
    BY Zenon DEF AnswersPoint, Answered
  <2> DEFINE e == ans[i]
             q == [off |-> e.ipo, name |-> e.node.name]
  <2>a. e \in [ipo : Nat, node : Nodes]
    <3> DEFINE S == [ipo : Nat, node : Nodes]
    <3>1. ans \in Seq(S)
      BY <1>4 DEF NotedInv
    <3> HIDE DEF S
    <3>2. e \in S
      BY <3>1
    <3> QED BY <3>2 DEF S
  <2>b. e.node \in answers /\ q \in asked
    BY <1>4, Zenon DEF NotedInv
  <2>1. e \in [ipo : Nat, node : Nodes] /\ e.node \in answers /\ q \in asked
    BY <2>a, <2>b, Zenon
  <2>2. e.node \in tree
    BY <1>4, <2>1 DEF LastInv, IInv
  <2>3. records[e.node.idx] = e.node
    BY <1>4, <2>2 DEF IInv, CacheConsistent
  <2>4. Pointer(i) = e.ipo
    BY <2>1, LayoutAssumption DEF Pointer
  <2>5. q.off = e.ipo /\ q.name = e.node.name
    OBVIOUS
  <2> HIDE DEF q
  <2> QED BY <2>1, <2>3, <2>4, <2>5
<1> QED BY <1>1, <1>2, <1>3, <1>4, PTL DEF MSpec
============================================================================
