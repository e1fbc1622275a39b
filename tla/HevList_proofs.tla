--------------------------- MODULE HevList_proofs ---------------------------
(* What the list operations do to the members of a list and their order.   *)
EXTENDS HevList, TLAPS

\* hev_list_add_tail puts a new node last.
LEMMA AddTail ==
    ASSUME NEW S, NEW list \in Seq(S), NEW node \in S
    PROVE  /\ hev_list_add_tail(list, node) \in Seq(S)
           /\ Len(hev_list_add_tail(list, node)) = Len(list) + 1
           /\ hev_list_add_tail(list, node)[Len(list) + 1] = node
           /\ \A i \in 1 .. Len(list) :
                hev_list_add_tail(list, node)[i] = list[i]
  BY DEF hev_list_add_tail

\* The node becomes a member.
LEMMA AddTailMembers ==
    ASSUME NEW S, NEW list \in Seq(S), NEW node \in S
    PROVE  Members(hev_list_add_tail(list, node)) = Members(list) \cup {node}
<1> DEFINE new == hev_list_add_tail(list, node)
<1>1. /\ Len(new) = Len(list) + 1 /\ new[Len(list) + 1] = node
      /\ \A i \in 1 .. Len(list) : new[i] = list[i]
  BY AddTail
<1>2. Len(list) \in Nat
  OBVIOUS
<1> HIDE DEF new
<1>3. ASSUME NEW x \in Members(new) PROVE x \in Members(list) \cup {node}
  <2>1. PICK i \in 1 .. Len(new) : x = new[i]
    BY <1>3 DEF Members
  <2>2. CASE i = Len(list) + 1
    BY <1>1, <2>1, <2>2
  <2>3. CASE i \in 1 .. Len(list)
    BY <1>1, <2>1, <2>3 DEF Members
  <2> QED BY <1>1, <1>2, <2>2, <2>3
<1>4. ASSUME NEW x \in Members(list) PROVE x \in Members(new)
  <2>1. PICK i \in 1 .. Len(list) : x = list[i]
    BY <1>4 DEF Members
  <2>2. i \in 1 .. Len(new) /\ x = new[i]
    BY <1>1, <1>2, <2>1
  <2> QED BY <2>2 DEF Members
<1>5. node \in Members(new)
  <2>1. Len(list) + 1 \in 1 .. Len(new)
    BY <1>1, <1>2
  <2> QED BY <1>1, <2>1 DEF Members
<1> QED BY <1>3, <1>4, <1>5 DEF new

\* A node that was not on the list is on it once.
LEMMA AddTailLinked ==
    ASSUME NEW S, NEW list \in Seq(S), NEW node \in S,
           Linked(list), node \notin Members(list)
    PROVE  Linked(hev_list_add_tail(list, node))
<1> DEFINE new == hev_list_add_tail(list, node)
<1>0. /\ Len(new) = Len(list) + 1 /\ new[Len(list) + 1] = node
      /\ \A i \in 1 .. Len(list) : new[i] = list[i]
  BY AddTail
<1>1. /\ Len(new) = Len(list) + 1 /\ Len(list) \in Nat
      /\ \A i \in 1 .. Len(list) : new[i] = list[i]
      /\ new[Len(list) + 1] = node
  BY <1>0
<1> HIDE DEF new
<1> SUFFICES ASSUME NEW i \in 1 .. Len(new), NEW j \in 1 .. Len(new),
                    new[i] = new[j], i # j
             PROVE  FALSE
  BY DEF Linked, new
<1>2. \A k \in 1 .. Len(list) : list[k] # node
  BY DEF Members
<1>3. CASE i \in 1 .. Len(list) /\ j \in 1 .. Len(list)
  BY <1>1, <1>3 DEF Linked
<1>4. CASE i = Len(list) + 1 \/ j = Len(list) + 1
  BY <1>1, <1>2, <1>4
<1> QED BY <1>1, <1>3, <1>4

\* hev_list_del removes the node and keeps the others in their order.
LEMMA Del ==
    ASSUME NEW S, NEW list \in Seq(S), NEW node \in Members(list), Linked(list)
    PROVE  LET new == hev_list_del(list, node)
           IN  /\ new \in Seq(S) /\ Len(new) = Len(list) - 1
               /\ Linked(new) /\ Members(new) = Members(list) \ {node}
               /\ \E at \in 1 .. Len(list) :
                    /\ list[at] = node
                    /\ \A i \in 1 .. Len(list) - 1 :
                        new[i] = IF i < at THEN list[i] ELSE list[i + 1]
<1> DEFINE at == CHOOSE i \in 1 .. Len(list) : list[i] = node
           new == hev_list_del(list, node)
<1>1. \E i \in 1 .. Len(list) : list[i] = node
  BY DEF Members
<1>2. at \in 1 .. Len(list) /\ list[at] = node
  BY <1>1
<1>3. new = [i \in 1 .. Len(list) - 1 |->
                IF i < at THEN list[i] ELSE list[i + 1]]
  BY DEF hev_list_del
<1> HIDE DEF at, new
<1>4. /\ Len(list) \in Nat /\ Len(list) >= 1
      /\ \A i \in 1 .. Len(list) : list[i] \in S
  BY <1>2
<1>5. \A i \in 1 .. Len(list) - 1 :
        new[i] = IF i < at THEN list[i] ELSE list[i + 1]
  BY <1>3
<1>6. new \in Seq(S) /\ Len(new) = Len(list) - 1
  <2>1. \A i \in 1 .. Len(list) - 1 : new[i] \in S
    BY <1>2, <1>4, <1>5
  <2>2. new \in [1 .. Len(list) - 1 -> S]
    BY <1>3, <2>1
  <2>3. Len(list) - 1 \in Nat
    BY <1>4
  <2> QED BY <2>2, <2>3
<1>7. Linked(new)
  <2> SUFFICES ASSUME NEW i \in 1 .. Len(new), NEW j \in 1 .. Len(new),
                      new[i] = new[j]
               PROVE  i = j
    BY DEF Linked
  <2> DEFINE old(k) == IF k < at THEN k ELSE k + 1
  <2>1. /\ old(i) \in 1 .. Len(list) /\ old(j) \in 1 .. Len(list)
        /\ new[i] = list[old(i)] /\ new[j] = list[old(j)]
    BY <1>2, <1>4, <1>5, <1>6, SMTT(60)
  <2>2. old(i) = old(j)
    BY <2>1, Zenon DEF Linked
  <2> QED BY <1>2, <1>4, <1>6, <2>2
<1>8. Members(new) = Members(list) \ {node}
  <2>1. ASSUME NEW x \in Members(new) PROVE x \in Members(list) \ {node}
    <3>1. PICK i \in 1 .. Len(new) : x = new[i]
      BY <2>1 DEF Members
    <3> DEFINE k == IF i < at THEN i ELSE i + 1
    <3>2. k \in 1 .. Len(list) /\ k # at /\ x = list[k]
      BY <1>2, <1>4, <1>5, <1>6, <3>1
    <3> HIDE DEF k
    <3>3. x # node
      BY <1>2, <3>2 DEF Linked
    <3> QED BY <3>2, <3>3 DEF Members
  <2>2. ASSUME NEW x \in Members(list), x # node PROVE x \in Members(new)
    <3>1. PICK k \in 1 .. Len(list) : x = list[k]
      BY <2>2 DEF Members
    <3> DEFINE i == IF k < at THEN k ELSE k - 1
    <3>2. k # at
      BY <1>2, <2>2, <3>1
    <3>3. i \in 1 .. Len(new) /\ new[i] = x
      BY <1>2, <1>4, <1>5, <1>6, <3>1, <3>2
    <3> QED BY <3>3 DEF Members
  <2> QED BY <2>1, <2>2
<1> QED BY <1>2, <1>5, <1>6, <1>7, <1>8 DEF new

\* Touch moves the node to the end and shifts those behind it.
LEMMA TouchOK ==
    ASSUME NEW S, NEW list \in Seq(S), NEW node \in Members(list), Linked(list)
    PROVE  LET new == Touch(list, node)
           IN  /\ new \in Seq(S) /\ Len(new) = Len(list)
               /\ Linked(new) /\ Members(new) = Members(list)
               /\ \E at \in 1 .. Len(list) :
                    /\ list[at] = node
                    /\ \A i \in 1 .. Len(list) :
                        new[i] = IF i < at THEN list[i]
                                 ELSE IF i < Len(list) THEN list[i + 1]
                                 ELSE node
<1> DEFINE del == hev_list_del(list, node)
           new == hev_list_add_tail(del, node)
<1>1. /\ node \in S /\ Len(list) \in Nat
  BY DEF Members
<1>2. /\ del \in Seq(S) /\ Len(del) = Len(list) - 1 /\ Linked(del)
      /\ Members(del) = Members(list) \ {node}
      /\ \E at \in 1 .. Len(list) :
            /\ list[at] = node
            /\ \A i \in 1 .. Len(list) - 1 :
                del[i] = IF i < at THEN list[i] ELSE list[i + 1]
  BY Del
<1> HIDE DEF del
<1>3. /\ new \in Seq(S) /\ Len(new) = Len(del) + 1
      /\ \A i \in 1 .. Len(del) : new[i] = del[i]
      /\ new[Len(del) + 1] = node
      /\ Members(new) = Members(del) \cup {node}
      /\ Linked(new)
  <2> node \in S /\ del \in Seq(S)
    BY <1>1, <1>2
  <2>0. new \in Seq(S)
    BY DEF hev_list_add_tail
  <2>1. /\ Len(new) = Len(del) + 1 /\ new[Len(del) + 1] = node
        /\ \A i \in 1 .. Len(del) : new[i] = del[i]
    BY AddTail
  <2>2. Members(new) = Members(del) \cup {node}
    BY AddTailMembers
  <2>3. node \notin Members(del)
    BY <1>2
  <2>4. Linked(new)
    BY <1>1, <1>2, <2>3, AddTailLinked
  <2> QED BY <2>0, <2>1, <2>2, <2>4
<1> HIDE DEF new
<1>4. PICK at \in 1 .. Len(list) :
            /\ list[at] = node
            /\ \A i \in 1 .. Len(list) - 1 :
                del[i] = IF i < at THEN list[i] ELSE list[i + 1]
  BY <1>2
<1>5. \A i \in 1 .. Len(list) :
        new[i] = IF i < at THEN list[i]
                 ELSE IF i < Len(list) THEN list[i + 1] ELSE node
  BY <1>1, <1>2, <1>3, <1>4
<1>6. Members(new) = Members(list)
  BY <1>2, <1>3
<1>7. Len(new) = Len(list)
  BY <1>1, <1>2, <1>3
<1>8. Touch(list, node) = new
  BY DEF Touch, new, del
<1> QED BY <1>3, <1>4, <1>5, <1>6, <1>7, <1>8
============================================================================
