--------------------------- MODULE QueueTheorems ---------------------------
(***************************************************************************)
(* What appending, taking the head and deleting do to a queue without      *)
(* duplicates: the facts the proofs about the kernel's lists and ticket    *)
(* queues rest on.                                                         *)
(***************************************************************************)
EXTENDS Queues, TLAPS

\* The empty queue, and what a queue is.
LEMMA QueueEmpty ==
    ASSUME NEW S
    PROVE  <<>> \in Seq(S) /\ \A q \in Seq(S) : q = <<>> <=> Len(q) = 0
    OBVIOUS

LEMMA QueueNone == \A x : ~ InQueue(<<>>, x)
BY DEF InQueue

LEMMA QueueIs ==
    ASSUME NEW S, NEW q \in Seq(S)
    PROVE  Len(q) \in Nat /\ q \in [1 .. Len(q) -> S]
    OBVIOUS

LEMMA QueueHead ==
    ASSUME NEW S, NEW q \in Seq(S), q # <<>>
    PROVE  Head(q) \in S /\ InQueue(q, Head(q))
<1>1. Len(q) \in Nat \ {0} /\ Head(q) = q[1] /\ q[1] \in S
    OBVIOUS
<1> QED BY <1>1 DEF InQueue

LEMMA QueueAppended ==
    ASSUME NEW S, NEW q \in Seq(S), NEW x \in S
    PROVE  /\ Append(q, x) \in Seq(S) /\ Append(q, x) # <<>> /\ Len(Append(q, x)) = Len(q) + 1
           /\ \A i \in 1 .. Len(q) : Append(q, x)[i] = q[i]
           /\ Append(q, x)[Len(q) + 1] = x
    OBVIOUS

\* list_push_back of a node that is on no list keeps the list free of
\* duplicates and adds exactly that node.
LEMMA QueueAppend ==
    ASSUME NEW S, NEW q \in Seq(S), NEW x \in S,
           NoDuplicates(q), ~ InQueue(q, x)
    PROVE  /\ Append(q, x) \in Seq(S)
           /\ Append(q, x) # <<>>
           /\ NoDuplicates(Append(q, x))
           /\ \A y : InQueue(Append(q, x), y) <=> InQueue(q, y) \/ y = x
           /\ \A y : IsHead(q, y) => IsHead(Append(q, x), y)
<1> DEFINE a == Append(q, x)
<1>1. /\ a \in Seq(S) /\ a # <<>> /\ Len(a) = Len(q) + 1
      /\ \A i \in 1 .. Len(q) : a[i] = q[i]
      /\ a[Len(q) + 1] = x
    BY QueueAppended
<1>2. Len(q) \in Nat
    BY QueueIs
<1> HIDE DEF a
<1>3. NoDuplicates(a)
    BY <1>1, <1>2 DEF NoDuplicates, InQueue
<1>4. ASSUME NEW y PROVE InQueue(a, y) <=> InQueue(q, y) \/ y = x
    BY <1>1, <1>2 DEF InQueue
<1>5. ASSUME NEW y, IsHead(q, y) PROVE IsHead(a, y)
    <2>1. Len(q) > 0
        BY <1>5, <1>2, QueueEmpty DEF IsHead
    <2> QED BY <2>1, <1>1, <1>2, <1>5 DEF IsHead
<1> QED BY <1>1, <1>3, <1>4, <1>5 DEF a

\* list_pop_front removes exactly the head.
LEMMA QueueTail ==
    ASSUME NEW S, NEW q \in Seq(S), q # <<>>, NoDuplicates(q)
    PROVE  /\ Tail(q) \in Seq(S)
           /\ NoDuplicates(Tail(q))
           /\ q[1] \in S /\ Head(q) = q[1]
           /\ \A y : InQueue(Tail(q), y) <=> InQueue(q, y) /\ y # q[1]
           /\ Len(Tail(q)) = Len(q) - 1
           /\ \A i \in 1 .. Len(q) - 1 : Tail(q)[i] = q[i + 1]
<1> DEFINE t == Tail(q)
<1>1. /\ t \in Seq(S) /\ Len(t) = Len(q) - 1
      /\ \A i \in 1 .. Len(t) : t[i] = q[i + 1]
    OBVIOUS
<1>2. Len(q) \in Nat \ {0}
    BY QueueEmpty
<1>3. q[1] \in S /\ Head(q) = q[1]
    BY <1>2, QueueIs
<1> HIDE DEF t
<1>4. NoDuplicates(t)
    BY <1>1, <1>2 DEF NoDuplicates
<1>5. ASSUME NEW y PROVE InQueue(t, y) <=> InQueue(q, y) /\ y # q[1]
    <2>1. ASSUME InQueue(t, y) PROVE InQueue(q, y) /\ y # q[1]
        BY <2>1, <1>1, <1>2 DEF InQueue, NoDuplicates
    <2>2. ASSUME InQueue(q, y), y # q[1] PROVE InQueue(t, y)
        <3>1. PICK i \in 1 .. Len(q) : q[i] = y
            BY <2>2 DEF InQueue
        <3>2. i - 1 \in 1 .. Len(t) /\ t[i - 1] = y
            BY <3>1, <2>2, <1>1, <1>2
        <3> QED BY <3>2 DEF InQueue
    <2> QED BY <2>1, <2>2
<1> QED BY <1>1, <1>3, <1>4, <1>5 DEF t

\* list_delete of a node that is on the list removes exactly that node.
LEMMA QueueDelete ==
    ASSUME NEW S, NEW q \in Seq(S), NEW x, NoDuplicates(q), InQueue(q, x)
    PROVE  /\ list_delete(q, x) \in Seq(S)
           /\ NoDuplicates(list_delete(q, x))
           /\ \A y : InQueue(list_delete(q, x), y) <=> InQueue(q, y) /\ y # x
<1> DEFINE at == CHOOSE i \in 1 .. Len(q) : q[i] = x
           n == Len(q) - 1
           d == [j \in 1 .. n |-> IF j < at THEN q[j] ELSE q[j + 1]]
<1>1. at \in 1 .. Len(q) /\ q[at] = x
    BY DEF InQueue
<1>2. Len(q) \in Nat /\ n \in Nat
    BY <1>1, QueueIs
<1>3. list_delete(q, x) = d
    BY DEF list_delete
<1> HIDE DEF at
<1>4. \A j \in 1 .. n : d[j] \in S
    BY <1>1, <1>2, QueueIs
<1>5. d \in Seq(S)
    BY <1>2, <1>4
<1>6. Len(d) = n
    BY <1>2, <1>5
<1>7. NoDuplicates(d)
    BY <1>1, <1>2, <1>6 DEF NoDuplicates
<1>8. ASSUME NEW y PROVE InQueue(d, y) <=> InQueue(q, y) /\ y # x
    <2>1. ASSUME InQueue(d, y) PROVE InQueue(q, y) /\ y # x
        BY <2>1, <1>1, <1>2, <1>6 DEF InQueue, NoDuplicates
    <2>2. ASSUME InQueue(q, y), y # x PROVE InQueue(d, y)
        <3>1. PICK i \in 1 .. Len(q) : q[i] = y
            BY <2>2 DEF InQueue
        <3>2. CASE i < at
            BY <3>1, <3>2, <1>1, <1>2, <1>6 DEF InQueue
        <3>3. CASE i > at
            <4>1. i - 1 \in 1 .. n /\ d[i - 1] = y
                BY <3>1, <3>3, <1>1, <1>2
            <4> QED BY <4>1, <1>6 DEF InQueue
        <3> QED BY <3>1, <3>2, <3>3, <2>2, <1>1, <1>2
    <2> QED BY <2>1, <2>2
<1> QED BY <1>3, <1>5, <1>7, <1>8
=============================================================================
