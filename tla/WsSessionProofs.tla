---------------------------- MODULE WsSessionProofs ----------------------------
(***************************************************************************)
(* Proofs about WsSession, for any connections, frames and bounds.  The     *)
(* invariant has a part for each group of variables, and most steps leave   *)
(* all parts but one as they are.                                           *)
(***************************************************************************)
EXTENDS WsSession, Lemmas

-----------------------------------------------------------------------------
(* Masking as a fold over the values of a frame                            *)

\* A book has a value under one number only.
Injective(book) == \A m, n \in DOMAIN book : book[m] = book[n] => m = n

\* One book continues another.
Continues(new, old) ==
    /\ Len(new) >= Len(old)
    /\ \A n \in DOMAIN old : new[n] = old[n]

\* One step of the fold.
Noted(book, v) == IF Contains(book, v) THEN book ELSE Append(book, v)

\* The function a fold goes by, over the first k values.
BookFolds(f, k, book, values) ==
    f = [s \in SUBSET (1..k) |->
            IF s = {} THEN book ELSE Noted(f[s \ {Max(s)}], values[Max(s)])]

LEMMA BookFoldExists ==
    ASSUME NEW book, NEW values, NEW n \in Nat
    PROVE  \E f : BookFolds(f, n, book, values)
<1> DEFINE Good == {k \in Nat : \E f : BookFolds(f, k, book, values)}
<1>1. 0 \in Good
  <2> DEFINE f == [s \in SUBSET (1..0) |-> book]
  <2>1. 1..0 = {}
    OBVIOUS
  <2>2. BookFolds(f, 0, book, values)
    BY <2>1 DEF BookFolds
  <2> QED
    BY <2>2
<1>2. ASSUME NEW k \in Nat, k \in Good PROVE k + 1 \in Good
  <2>1. PICK f : BookFolds(f, k, book, values)
    BY <1>2
  <2> DEFINE g == [s \in SUBSET (1..(k + 1)) |->
                      IF k + 1 \in s THEN Noted(f[s \ {k + 1}], values[k + 1]) ELSE f[s]]
  <2>2. ASSUME NEW s \in SUBSET (1..(k + 1))
        PROVE  g[s] = IF s = {} THEN book ELSE Noted(g[s \ {Max(s)}], values[Max(s)])
    <3>1. CASE k + 1 \in s
      <4>1. Max(s) = k + 1 /\ s \ {Max(s)} \in SUBSET (1..k)
        BY <3>1, MaxOfInterval
      <4>2. g[s \ {Max(s)}] = f[s \ {Max(s)}]
        BY <4>1
      <4>3. g[s] = Noted(f[s \ {k + 1}], values[k + 1])
        BY <3>1
      <4> QED
        BY <3>1, <4>1, <4>2, <4>3
    <3>2. CASE k + 1 \notin s
      <4>1. s \in SUBSET (1..k)
        BY <3>2
      <4>2. g[s] = f[s]
        BY <3>2
      <4>3. f[s] = IF s = {} THEN book ELSE Noted(f[s \ {Max(s)}], values[Max(s)])
        BY <2>1, <4>1 DEF BookFolds
      <4>4. CASE s # {}
        <5>1. g[s \ {Max(s)}] = f[s \ {Max(s)}]
          BY <3>2
        <5> QED
          BY <4>2, <4>3, <4>4, <5>1
      <4> QED
        BY <4>2, <4>3, <4>4
    <3> QED
      BY <3>1, <3>2
  <2>3. BookFolds(g, k + 1, book, values)
    <3> HIDE DEF Noted
    <3>1. g = [s \in SUBSET (1..(k + 1)) |-> g[s]]
      OBVIOUS
    <3> HIDE DEF g
    <3> QED
      BY <2>2, <3>1 DEF BookFolds
  <2> HIDE DEF g
  <2> QED
    BY <2>3
<1> HIDE DEF Good
<1>3. Nat \subseteq Good
  BY <1>1, <1>2, NatSetInduction
<1>4. n \in Good
  BY <1>3
<1> QED
  BY <1>4 DEF Good

LEMMA ExtendedIsFold ==
    ASSUME NEW book, NEW n \in Nat, NEW values, DOMAIN values = 1..n
    PROVE  \E f : BookFolds(f, n, book, values) /\ Extended(book, values) = f[1..n]
<1> DEFINE Iter == CHOOSE f : BookFolds(f, n, book, values)
<1>1. BookFolds(Iter, n, book, values)
  BY BookFoldExists
<1>2. Extended(book, values) = Iter[1..n]
  BY DEF Extended, FoldLeft, MapThenFoldSet, BookFolds, Noted
<1> QED
  BY <1>1, <1>2

\* What a book becomes when values are masked: the old one goes on, each value has
\* one number, and nothing else came in.
Grown(new, book, values, k) ==
    /\ new \in Seq(Values)
    /\ Continues(new, book)
    /\ Injective(book) => Injective(new)
    /\ \A i \in 1..k : Contains(new, values[i])
    /\ \A m \in DOMAIN new : m \in DOMAIN book \/ \E i \in 1..k : new[m] = values[i]

LEMMA NotedGrows ==
    ASSUME NEW old \in Seq(Values), NEW values, NEW k \in Nat, NEW book \in Seq(Values),
           values[k + 1] \in Values, Grown(book, old, values, k)
    PROVE  Grown(Noted(book, values[k + 1]), old, values, k + 1)
<1> DEFINE v == values[k + 1]
           new == Noted(book, v)
<1>1. /\ Len(book) \in Nat /\ DOMAIN book = 1..Len(book)
      /\ Len(old) \in Nat /\ DOMAIN old = 1..Len(old)
  BY LenProperties
<1>2. \A i \in 1..(k + 1) : i \in 1..k \/ i = k + 1
  OBVIOUS
<1>3. k + 1 \in 1..(k + 1) /\ 1..k \subseteq 1..(k + 1)
  OBVIOUS
<1>4. CASE Contains(book, v)
  <2>1. new = book
    BY <1>4 DEF Noted
  <2>2. \A i \in 1..(k + 1) : Contains(book, values[i])
    BY <1>2, <1>4 DEF Grown
  <2> HIDE DEF new
  <2>3. \A m \in DOMAIN book : m \in DOMAIN old \/ \E i \in 1..(k + 1) : book[m] = values[i]
    BY <1>3 DEF Grown
  <2>4. Grown(book, old, values, k + 1)
    BY <2>2, <2>3 DEF Grown
  <2> QED
    BY <2>1, <2>4 DEF new
<1>5. CASE ~ Contains(book, v)
  <2>1. new = Append(book, v)
    BY <1>5 DEF Noted
  <2>2. /\ new \in Seq(Values) /\ Len(new) = Len(book) + 1
        /\ \A i \in 1..Len(book) : new[i] = book[i]
        /\ new[Len(book) + 1] = v
    BY <2>1, AppendProperties
  <2> HIDE DEF new
  <2>3. DOMAIN new = 1..(Len(book) + 1)
    BY <2>2, LenProperties
  <2>4. Continues(new, old)
    BY <1>1, <2>2 DEF Grown, Continues
  <2>5. \A m \in DOMAIN new : m \in DOMAIN book \/ m = Len(book) + 1
    BY <1>1, <2>3
  <2>6. \A m \in DOMAIN book : book[m] # v
    BY <1>1, <1>5 DEF Contains
  <2>7. ASSUME Injective(old) PROVE Injective(new)
    <3>1. Injective(book)
      BY <2>7 DEF Grown
    <3> QED
      BY <1>1, <2>2, <2>5, <2>6, <3>1 DEF Injective
  <2>8. ASSUME NEW i \in 1..(k + 1) PROVE Contains(new, values[i])
    <3>1. CASE i \in 1..k
      <4>1. PICK m \in 1..Len(book) : book[m] = values[i]
        BY <3>1 DEF Grown, Contains
      <4>2. m \in 1..Len(new) /\ new[m] = values[i]
        BY <1>1, <2>2, <4>1
      <4> QED
        BY <4>2 DEF Contains
    <3>2. CASE i = k + 1
      <4>1. Len(book) + 1 \in 1..Len(new)
        BY <1>1, <2>2
      <4> QED
        BY <2>2, <3>2, <4>1 DEF Contains
    <3> QED
      BY <1>2, <3>1, <3>2
  <2>9. ASSUME NEW m \in DOMAIN new
        PROVE  m \in DOMAIN old \/ \E i \in 1..(k + 1) : new[m] = values[i]
    BY <1>1, <1>3, <2>2, <2>5 DEF Grown
  <2>10. Grown(new, old, values, k + 1)
    BY <2>2, <2>4, <2>7, <2>8, <2>9 DEF Grown
  <2> QED
    BY <2>10 DEF new
<1> QED
  BY <1>4, <1>5

LEMMA ExtendedGrows ==
    ASSUME NEW book \in Seq(Values), NEW values \in Seq(Values)
    PROVE  Grown(Extended(book, values), book, values, Len(values))
<1> DEFINE n == Len(values)
<1>1. n \in Nat /\ DOMAIN values = 1..n /\ \A i \in 1..n : values[i] \in Values
  BY LenProperties, ElementOfSeq
<1>2. PICK f : BookFolds(f, n, book, values) /\ Extended(book, values) = f[1..n]
  BY <1>1, ExtendedIsFold
<1> DEFINE Good == {k \in Nat : k <= n => Grown(f[1..k], book, values, k)}
<1> HIDE DEF n
<1>3. 0 \in Good
  <2>1. 1..0 = {} /\ 1..0 \in SUBSET (1..n)
    OBVIOUS
  <2>2. f[1..0] = book
    BY <1>2, <2>1 DEF BookFolds
  <2>3. Len(book) \in Nat
    BY LenProperties
  <2>4. Grown(book, book, values, 0)
    BY <2>1, <2>3 DEF Grown, Continues
  <2> QED
    BY <2>2, <2>4
<1>4. ASSUME NEW k \in Nat, k \in Good PROVE k + 1 \in Good
  <2>1. SUFFICES ASSUME k + 1 <= n PROVE Grown(f[1..(k + 1)], book, values, k + 1)
    OBVIOUS
  <2> DEFINE s == 1..(k + 1)
  <2>2. s \in SUBSET (1..n) /\ s # {} /\ k + 1 \in s /\ k + 1 \in 1..n
    <3>1. n \in Nat /\ k + 1 \in 1..n /\ k + 1 \in s
      BY <1>1, <2>1 DEF n
    <3> QED
      BY <2>1, <3>1
  <2>3. Max(s) = k + 1
    BY <2>2, MaxOfInterval
  <2>4. s \ {k + 1} = 1..k
    OBVIOUS
  <2> HIDE DEF s
  <2>5. f[s] = Noted(f[1..k], values[k + 1])
    BY <1>2, <2>2, <2>3, <2>4 DEF BookFolds
  <2>6. Grown(f[1..k], book, values, k) /\ f[1..k] \in Seq(Values)
    BY <1>1, <1>4, <2>1 DEF Grown
  <2>7. values[k + 1] \in Values
    BY <1>1, <2>2
  <2>8. Grown(Noted(f[1..k], values[k + 1]), book, values, k + 1)
    BY <2>6, <2>7, NotedGrows
  <2> QED
    BY <2>5, <2>8 DEF s
<1> HIDE DEF Good
<1>5. n \in Good
  BY <1>1, <1>3, <1>4, NatSetInduction
<1> QED
  BY <1>1, <1>2, <1>5 DEF Good, n

-----------------------------------------------------------------------------
(* The inductive invariant, a part for each group of variables             *)

Linked == {c \in Connections : session[c] # 0}

\* Every connection that was upgraded has a number of its own, and no number was
\* skipped: so the numbers do not run out.
Numbers ==
    /\ connId \in 0..Cardinality(Connections)
    /\ session \in [Connections -> 0..connId]
    /\ at \in [Connections -> Places]
    /\ \A c \in Connections : session[c] = 0 <=> at[c] \in {"none", "refused"}
    /\ connId = Cardinality(Linked)
    /\ \A c, d \in Linked : session[c] = session[d] => c = d

Early == {"none", "refused", "connecting"}

\* The events are accounted for; a connection that has not reached its upstream has
\* found none, and a number that nobody has yet has nothing in the ledger.
Accounts ==
    /\ masked \in Nat
    /\ {events, handled, failed} \subseteq [Connections -> Nat]
    /\ recorded \in [Sessions -> Nat]
    /\ EventsAccounted /\ BufferBounded
    /\ \A c \in Connections :
        at[c] \in Early => handled[c] = 0 /\ events[c] = 0 /\ failed[c] = 0
    /\ \A s \in Sessions : s > connId => recorded[s] = 0

AsPairs(book) == {<<n, book[n]>> : n \in DOMAIN book}

\* A book has every value under one placeholder, and is what its own connection
\* masked, until the task is lost: a panic leaves values in it that were never
\* sent.
Booked ==
    /\ books \in [Sessions -> Seq(Values)]
    /\ DOMAIN meant = Connections
    /\ \A s \in Sessions :
        /\ Injective(books[s])
        /\ s > connId => books[s] = <<>>
    /\ \A c \in Connections :
        /\ session[c] = 0 => meant[c] = {}
        /\ session[c] # 0 /\ at[c] # "lost" => meant[c] = AsPairs(Book(c))

\* The sockets are bounded, and a task has a frame in hand only while it sends it.
Wired ==
    /\ mishaps \in 0..MaxMishaps /\ sent \in 0..MaxFrames
    /\ {client, upstream} \subseteq [Connections -> {"open", "gone"}]
    /\ fromClient \in [Connections -> Seq(ClientFrames)]
    /\ fromUpstream \in [Connections -> Seq(UpstreamFrames)]
    /\ {toUpstream, toClient} \subseteq [Connections -> 0..Capacity]
    /\ DOMAIN inHand = Connections
    /\ \A c \in Connections :
        /\ inHand[c] # <<>> => at[c] \in {"sendUp", "sendDown", "lost"}
        /\ Len(fromClient[c]) <= Capacity /\ Len(fromUpstream[c]) <= Capacity

IInv == Numbers /\ Accounts /\ Booked /\ Wired

-----------------------------------------------------------------------------
(* What leaves a part as it is                                             *)

LEMMA SessionsCounted == Cardinality(Connections) \in Nat /\ IsFiniteSet(Connections)
BY ConnectionsAssumption, FS_CardinalityType

LEMMA NumberInUse ==
    ASSUME Numbers, NEW c \in Connections, session[c] # 0
    PROVE  session[c] \in Sessions /\ session[c] <= connId
BY SessionsCounted DEF Numbers, Sessions

LEMMA AccountsKept ==
    ASSUME Accounts,
           UNCHANGED <<connId, session, events, masked, recorded, handled, failed>>,
           \A c \in Connections :
               /\ at'[c] = "closed" => at[c] = "closed" \/ events[c] = 0
               /\ at'[c] \in Early => at[c] \in Early
    PROVE  Accounts'
<1>1. EventsAccounted'
  BY DEF Accounts, EventsAccounted
<1>2. BufferBounded'
  BY DEF Accounts, BufferBounded
<1> QED
  BY <1>1, <1>2 DEF Accounts

LEMMA BookedKept ==
    ASSUME Booked, UNCHANGED <<connId, session, books, meant>>,
           \A c \in Connections : at[c] = "lost" => at'[c] = "lost"
    PROVE  Booked'
BY DEF Booked, Book, AsPairs

\* A task may go to any place that needs a number.
LEMMA NumbersKept ==
    ASSUME Numbers, UNCHANGED <<connId, session>>, NEW c \in Connections,
           NEW place \in Places, at' = [at EXCEPT ![c] = place],
           session[c] = 0 <=> place \in {"none", "refused"}
    PROVE  Numbers'
<1>1. Linked' = Linked
  BY DEF Linked
<1>2. connId' = Cardinality(Linked') /\ connId' \in 0..Cardinality(Connections)
  BY <1>1 DEF Numbers
<1>3. \A d, e \in Linked' : session'[d] = session'[e] => d = e
  BY <1>1 DEF Numbers
<1>4. at' \in [Connections -> Places] /\ session' \in [Connections -> 0..connId']
  BY DEF Numbers
<1>5. \A d \in Connections : session'[d] = 0 <=> at'[d] \in {"none", "refused"}
  BY DEF Numbers
<1> QED
  BY <1>2, <1>3, <1>4, <1>5 DEF Numbers

LEMMA NumbersUnchanged ==
    ASSUME Numbers, UNCHANGED <<connId, session, at>>
    PROVE  Numbers'
BY DEF Numbers, Linked

-----------------------------------------------------------------------------
(* The initial states                                                      *)

LEMMA InitIInv == Init => IInv
<1> SUFFICES ASSUME Init PROVE IInv
  OBVIOUS
<1> USE DEF Init
<1>1. Numbers
  <2>1. Linked = {}
    BY DEF Linked
  <2>2. Cardinality({}) = 0
    BY FS_EmptySet
  <2>3. Cardinality(Connections) \in Nat
    BY SessionsCounted
  <2> QED
    BY <2>1, <2>2, <2>3 DEF Numbers, Places
<1>2. Accounts
  <2>1. EventsAccounted /\ BufferBounded
    BY BoundsAssumption DEF EventsAccounted, BufferBounded
  <2> QED
    BY <2>1 DEF Accounts
<1>3. Booked
  <2>1. <<>> \in Seq(Values) /\ Injective(<<>>)
    BY EmptySeq DEF Injective
  <2> QED
    BY <2>1 DEF Booked
<1>4. Wired
  <2>1. /\ <<>> \in Seq(ClientFrames) /\ <<>> \in Seq(UpstreamFrames)
        /\ Len(<<>>) = 0
    BY EmptySeq
  <2> QED
    BY <2>1, BoundsAssumption DEF Wired
<1> QED
  BY <1>1, <1>2, <1>3, <1>4 DEF IInv

-----------------------------------------------------------------------------
(* Before the pump                                                         *)

LEMMA RefuseKeeps ==
    ASSUME IInv, NEW c \in Connections, Refuse(c) PROVE IInv'
<1> USE DEF IInv, Refuse, Goto, peers, sockets, history
<1>1. Numbers'
  BY NumbersKept DEF Numbers, Places
<1>2. Accounts'
  BY AccountsKept DEF Numbers, Early
<1>3. Booked'
  BY BookedKept DEF Numbers
<1>4. Wired'
  BY DEF Wired, Numbers
<1> QED
  BY <1>1, <1>2, <1>3, <1>4

LEMMA UpgradeKeeps ==
    ASSUME IInv, NEW c \in Connections, Upgrade(c) PROVE IInv'
<1> USE DEF IInv, Upgrade, Goto, peers, sockets, history
<1>1. session[c] = 0 /\ connId \in Nat /\ connId' = connId + 1
  BY SessionsCounted DEF Numbers
<1>2. session' = [session EXCEPT ![c] = connId + 1] /\ session \in [Connections -> 0..connId]
  BY DEF Numbers
<1>3. connId + 1 = Cardinality(Linked') /\ connId + 1 <= Cardinality(Connections)
  <2>1. Linked' = Linked \cup {c} /\ c \notin Linked
    BY <1>1, <1>2 DEF Linked
  <2>2. IsFiniteSet(Linked)
    BY SessionsCounted, FS_Subset DEF Linked
  <2>3. Cardinality(Linked') = connId + 1
    BY <2>1, <2>2, FS_AddElement DEF Numbers
  <2>4. Linked' \in SUBSET Connections
    BY DEF Linked
  <2>5. Cardinality(Linked') <= Cardinality(Connections)
    BY <2>4, SessionsCounted, FS_Subset
  <2> QED
    BY <2>3, <2>5
<1>4. Numbers'
  <2>1. session' \in [Connections -> 0..connId'] /\ at' \in [Connections -> Places]
    BY <1>1, <1>2 DEF Numbers, Places
  <2>2. \A d \in Connections : session'[d] = 0 <=> at'[d] \in {"none", "refused"}
    BY <1>1, <1>2 DEF Numbers
  <2>3. \A d, e \in Linked' : session'[d] = session'[e] => d = e
    <3>1. \A d \in Connections : d # c => session'[d] = session[d] /\ session[d] \in 0..connId
      BY <1>2
    <3>2. session'[c] = connId + 1
      BY <1>2
    <3>3. \A d \in Linked' : d # c => d \in Linked
      BY <3>1 DEF Linked
    <3> QED
      BY <1>1, <3>1, <3>2, <3>3 DEF Numbers, Linked
  <2> QED
    BY <1>1, <1>3, <2>1, <2>2, <2>3, SessionsCounted DEF Numbers
<1>5. connId + 1 \in Sessions
  BY <1>1, <1>3, SessionsCounted DEF Sessions
<1>6. Accounts'
  <2>1. EventsAccounted'
    <3>1. SUFFICES ASSUME NEW d \in Connections, session'[d] # 0
                   PROVE  /\ handled[d] = recorded[session'[d]] + failed[d] + events[d]
                          /\ at'[d] = "closed" => events[d] = 0
      BY DEF EventsAccounted
    <3>2. CASE d = c
      <4>1. recorded[connId + 1] = 0
        BY <1>1, <1>5 DEF Accounts
      <4> QED
        BY <1>1, <1>2, <3>2, <4>1 DEF Accounts, Numbers, Early
    <3>3. CASE d # c
      BY <1>2, <3>1, <3>3 DEF Accounts, EventsAccounted, Numbers
    <3> QED
      BY <3>2, <3>3
  <2>2. BufferBounded'
    BY DEF Accounts, BufferBounded
  <2>3. \A d \in Connections :
            at'[d] \in Early => handled[d] = 0 /\ events[d] = 0 /\ failed[d] = 0
    BY DEF Accounts, Early, Numbers
  <2>4. \A s \in Sessions : s > connId' => recorded[s] = 0
    BY <1>1, SessionsCounted DEF Accounts, Sessions
  <2> QED
    BY <2>1, <2>2, <2>3, <2>4 DEF Accounts
<1>7. Booked'
  <2>1. \A s \in Sessions : s > connId' => books[s] = <<>>
    BY <1>1, SessionsCounted DEF Booked, Sessions
  <2>2. ASSUME NEW d \in Connections
        PROVE  /\ session'[d] = 0 => meant[d] = {}
               /\ session'[d] # 0 /\ at'[d] # "lost" => meant[d] = AsPairs(books[session'[d]])
    <3>1. CASE d = c
      <4>1. books[connId + 1] = <<>> /\ meant[c] = {}
        BY <1>1, <1>5 DEF Booked
      <4>2. AsPairs(<<>>) = {}
        BY DEF AsPairs
      <4> QED
        BY <1>1, <1>2, <3>1, <4>1, <4>2
    <3>2. CASE d # c
      BY <1>2, <3>2 DEF Booked, Book, Numbers
    <3> QED
      BY <3>1, <3>2
  <2> QED
    BY <2>1, <2>2 DEF Booked, Book, AsPairs
<1>8. Wired'
  BY DEF Wired, Numbers
<1> QED
  BY <1>4, <1>6, <1>7, <1>8

LEMMA ConnectsKeeps ==
    ASSUME IInv, NEW c \in Connections, Connects(c) PROVE IInv'
<1> USE DEF IInv, Connects, Goto, peers, sockets, history
<1>1. Numbers'
  BY NumbersKept DEF Numbers, Places
<1>2. Accounts'
  BY AccountsKept DEF Numbers, Early
<1>3. Booked'
  BY BookedKept DEF Numbers
<1>4. Wired'
  BY DEF Wired, Numbers
<1> QED
  BY <1>1, <1>2, <1>3, <1>4

LEMMA ConnectFailsKeeps ==
    ASSUME IInv, NEW c \in Connections, ConnectFails(c) PROVE IInv'
<1> USE DEF IInv, ConnectFails, Goto, peers, sockets, history
<1>1. Numbers'
  BY NumbersKept DEF Numbers, Places
<1>2. Accounts'
  <2>1. events[c] = 0
    BY DEF Accounts, Early
  <2> QED
    BY <2>1, AccountsKept DEF Numbers, Early
<1>3. Booked'
  BY BookedKept DEF Numbers
<1>4. Wired'
  BY BoundsAssumption DEF Wired, Numbers, Mishap
<1> QED
  BY <1>1, <1>2, <1>3, <1>4

-----------------------------------------------------------------------------
(* What flush_ledger leaves                                                *)

\* A connection's events are found, and flushed or kept: all is accounted for, as
\* the session is nobody else's.
LEMMA FoundAccounted ==
    ASSUME Numbers, Accounts, NEW c \in Connections, NEW n \in Nat,
           session[c] # 0, at[c] = "pump", at'[c] # "closed",
           UNCHANGED <<connId, session>>,
           \A d \in Connections : d # c => at'[d] = at[d],
           at'[c] \notin Early,
           handled' = [handled EXCEPT ![c] = @ + n],
           Counted(n),
           IF Full(events[c] + n) THEN Flush(c, events[c] + n)
           ELSE /\ events' = [events EXCEPT ![c] = events[c] + n]
                /\ UNCHANGED <<recorded, failed>>
    PROVE  Accounts'
<1> DEFINE found == events[c] + n
           s == session[c]
<1>1. s \in Sessions /\ s <= connId
  BY NumberInUse
<1>2. /\ events \in [Connections -> Nat] /\ handled \in [Connections -> Nat]
      /\ failed \in [Connections -> Nat] /\ recorded \in [Sessions -> Nat]
      /\ masked \in Nat
  BY DEF Accounts
<1>3. found \in Nat /\ handled[c] = recorded[s] + failed[c] + events[c]
  BY <1>2 DEF Accounts, EventsAccounted
<1>4. \A d \in Connections : d # c /\ session[d] # 0 => session[d] # s
  BY DEF Numbers, Linked
<1>5. /\ events' \in [Connections -> Nat] /\ failed' \in [Connections -> Nat]
      /\ recorded' \in [Sessions -> Nat] /\ handled' \in [Connections -> Nat]
      /\ events'[c] < Threshold
      /\ recorded'[s] + failed'[c] + events'[c] = recorded[s] + failed[c] + found
      /\ \A d \in Connections : d # c => events'[d] = events[d] /\ failed'[d] = failed[d]
      /\ \A t \in Sessions : t # s => recorded'[t] = recorded[t]
  <2>1. CASE ~ Full(found)
    BY <1>1, <1>2, <1>3, <2>1, BoundsAssumption DEF Full
  <2>2. CASE Full(found)
    <3>1. events' = [events EXCEPT ![c] = 0]
      BY <2>2 DEF Flush
    <3>2. CASE recorded' = [recorded EXCEPT ![s] = @ + found] /\ UNCHANGED failed
      BY <1>1, <1>2, <1>3, <3>1, <3>2, BoundsAssumption
    <3>3. CASE failed' = [failed EXCEPT ![c] = @ + found] /\ UNCHANGED recorded
      BY <1>1, <1>2, <1>3, <3>1, <3>3, BoundsAssumption
    <3> QED
      BY <2>2, <3>2, <3>3 DEF Flush
  <2> QED
    BY <2>1, <2>2
<1>6. handled'[c] = handled[c] + n /\ \A d \in Connections : d # c => handled'[d] = handled[d]
  BY <1>2
<1> HIDE DEF found, s
<1>7. EventsAccounted'
  <2>1. SUFFICES ASSUME NEW d \in Connections, session[d] # 0
                 PROVE  /\ handled'[d] = recorded'[session[d]] + failed'[d] + events'[d]
                        /\ at'[d] = "closed" => events'[d] = 0
    BY DEF EventsAccounted
  <2>2. CASE d = c
    <3>1. handled'[c] = recorded'[s] + failed'[c] + events'[c]
      <4>1. recorded'[s] + failed'[c] + events'[c] = recorded[s] + failed[c] + (events[c] + n)
        BY <1>5 DEF found
      <4> QED
        BY <1>1, <1>2, <1>3, <1>6, <4>1
    <3> QED
      BY <2>2, <3>1 DEF s
  <2>3. CASE d # c
    <3>1. session[d] \in Sessions /\ recorded'[session[d]] = recorded[session[d]]
      BY <1>4, <1>5, <2>1, <2>3, NumberInUse
    <3> QED
      BY <1>5, <1>6, <2>1, <2>3, <3>1 DEF Accounts, EventsAccounted
  <2> QED
    BY <2>2, <2>3
<1>8. BufferBounded'
  BY <1>5 DEF Accounts, BufferBounded
<1>9. masked' \in Nat
  BY <1>2 DEF Counted
<1>10. \A d \in Connections :
          at'[d] \in Early => handled'[d] = 0 /\ events'[d] = 0 /\ failed'[d] = 0
  BY <1>5, <1>6 DEF Accounts
<1>11. \A t \in Sessions : t > connId' => recorded'[t] = 0
  BY <1>1, <1>5, SessionsCounted DEF Accounts, Sessions, Numbers
<1> QED
  BY <1>5, <1>7, <1>8, <1>9, <1>10, <1>11 DEF Accounts

-----------------------------------------------------------------------------
(* What masking leaves in the book                                         *)

\* The book's entries, after masking, are those it had and those of the values.
LEMMA PairsOfExtended ==
    ASSUME NEW old \in Seq(Values), Injective(old), NEW values \in Seq(Values)
    PROVE  LET book == Extended(old, values)
           IN  AsPairs(old) \cup Pairs(book, values) = AsPairs(book)
<1> DEFINE book == Extended(old, values)
<1>1. Grown(book, old, values, Len(values))
  BY ExtendedGrows
<1> HIDE DEF book
<1>2. /\ DOMAIN old = 1..Len(old) /\ DOMAIN book = 1..Len(book)
      /\ Len(old) \in Nat /\ Len(book) \in Nat
      /\ DOMAIN values = 1..Len(values)
  BY <1>1, LenProperties DEF Grown
<1>3. AsPairs(old) \subseteq AsPairs(book)
  BY <1>1, <1>2 DEF AsPairs, Grown, Continues
<1>4. \A v \in ToSet(values) : NumberOf(book, v) \in DOMAIN book /\ book[NumberOf(book, v)] = v
  <2>1. SUFFICES ASSUME NEW v \in ToSet(values) PROVE \E n \in DOMAIN book : book[n] = v
    BY DEF NumberOf
  <2>2. PICK i \in 1..Len(values) : values[i] = v
    BY <1>2 DEF ToSet
  <2> QED
    BY <1>1, <1>2, <2>2 DEF Grown, Contains
<1>5. Pairs(book, values) \subseteq AsPairs(book)
  <2>1. SUFFICES ASSUME NEW v \in ToSet(values)
                 PROVE  <<NumberOf(book, v), v>> \in AsPairs(book)
    BY DEF Pairs
  <2> QED
    BY <1>4 DEF AsPairs
<1>6. ASSUME NEW n \in DOMAIN book
      PROVE  <<n, book[n]>> \in AsPairs(old) \cup Pairs(book, values)
  <2>1. CASE n \in DOMAIN old
    BY <1>1, <2>1 DEF AsPairs, Grown, Continues
  <2>2. CASE n \notin DOMAIN old
    <3>1. PICK i \in 1..Len(values) : book[n] = values[i]
      BY <1>1, <2>2 DEF Grown
    <3>2. book[n] \in ToSet(values)
      BY <1>2, <3>1 DEF ToSet
    <3>3. NumberOf(book, book[n]) = n
      BY <1>1, <1>4, <3>2 DEF Grown, Injective
    <3> QED
      BY <3>2, <3>3 DEF Pairs
  <2> QED
    BY <2>1, <2>2
<1>7. AsPairs(book) \subseteq AsPairs(old) \cup Pairs(book, values)
  BY <1>6 DEF AsPairs
<1> QED
  BY <1>3, <1>5, <1>7 DEF book

\* Other sessions' books do not change.
LEMMA BookGrows ==
    ASSUME Numbers, Booked, NEW c \in Connections, session[c] # 0,
           NEW values \in Seq(Values), UNCHANGED <<connId, session>>,
           books' = [books EXCEPT ![session[c]] = Extended(Book(c), values)],
           \A d \in Connections : d # c => at'[d] = at[d],
           DOMAIN meant' = Connections,
           \A d \in Connections : d # c => meant'[d] = meant[d],
           \/ at'[c] = "lost"
           \/ /\ meant[c] = AsPairs(Book(c))
              /\ meant'[c] = meant[c] \cup Pairs(Extended(Book(c), values), values)
    PROVE  Booked'
<1> DEFINE s == session[c]
           book == Extended(Book(c), values)
<1>1. s \in Sessions /\ s <= connId
  BY NumberInUse
<1>2. books \in [Sessions -> Seq(Values)] /\ Book(c) \in Seq(Values) /\ Injective(Book(c))
  BY <1>1 DEF Booked, Book
<1>3. Grown(book, Book(c), values, Len(values))
  BY <1>2, ExtendedGrows
<1>4. book \in Seq(Values) /\ Injective(book)
  BY <1>2, <1>3 DEF Grown
<1>5. AsPairs(Book(c)) \cup Pairs(book, values) = AsPairs(book)
  BY <1>2, PairsOfExtended
<1>6. books' = [books EXCEPT ![s] = book]
  OBVIOUS
<1> HIDE DEF book
<1>7. books' \in [Sessions -> Seq(Values)]
  BY <1>2, <1>4, <1>6
<1>8. ASSUME NEW t \in Sessions
      PROVE  Injective(books'[t]) /\ (t > connId' => books'[t] = <<>>)
  <2>1. t > connId => t # s
    BY <1>1, SessionsCounted DEF Numbers, Sessions
  <2> QED
    BY <1>2, <1>4, <1>6, <2>1 DEF Booked
<1>9. ASSUME NEW d \in Connections
      PROVE  /\ session'[d] = 0 => meant'[d] = {}
             /\ session'[d] # 0 /\ at'[d] # "lost" => meant'[d] = AsPairs(books'[session'[d]])
  <2>1. CASE d = c
    <3>1. books'[s] = book
      BY <1>1, <1>2, <1>6
    <3> QED
      BY <1>5, <2>1, <3>1 DEF s, book
  <2>2. CASE d # c
    <3>1. CASE session[d] = 0
      BY <2>2, <3>1 DEF Booked
    <3>2. CASE session[d] # 0
      <4>1. session[d] # s
        BY <2>2, <3>2 DEF Numbers, Linked
      <4>2. session[d] \in Sessions
        BY <3>2, NumberInUse
      <4>3. books'[session[d]] = books[session[d]]
        BY <1>2, <1>6, <4>1, <4>2
      <4> QED
        BY <2>2, <3>2, <4>3 DEF Booked, Book
    <3> QED
      BY <3>1, <3>2
  <2> QED
    BY <2>1, <2>2
<1> QED
  BY <1>7, <1>8, <1>9 DEF Booked, Book, AsPairs

-----------------------------------------------------------------------------
(* The pump                                                                *)

LEMMA FrontFrame ==
    ASSUME Wired, NEW c \in Connections, fromClient[c] # <<>>
    PROVE  /\ Head(fromClient[c]) \in ClientFrames
           /\ Head(fromClient[c]).values \in Seq(Values)
           /\ Tail(fromClient[c]) \in Seq(ClientFrames)
           /\ Len(Tail(fromClient[c])) <= Capacity
<1>1. fromClient[c] \in Seq(ClientFrames) /\ Len(fromClient[c]) <= Capacity
  BY DEF Wired
<1>2. /\ Head(fromClient[c]) \in ClientFrames
      /\ Tail(fromClient[c]) \in Seq(ClientFrames)
      /\ Len(Tail(fromClient[c])) = Len(fromClient[c]) - 1
  BY <1>1, HeadTailProperties
<1>3. Len(fromClient[c]) \in Nat
  BY <1>1, LenProperties
<1> QED
  BY <1>1, <1>2, <1>3, FramesAssumption, BoundsAssumption DEF ClientFrame

LEMMA FrontAnswer ==
    ASSUME Wired, NEW c \in Connections, fromUpstream[c] # <<>>
    PROVE  /\ Tail(fromUpstream[c]) \in Seq(UpstreamFrames)
           /\ Len(Tail(fromUpstream[c])) <= Capacity
<1>1. fromUpstream[c] \in Seq(UpstreamFrames) /\ Len(fromUpstream[c]) <= Capacity
  BY DEF Wired
<1>2. /\ Tail(fromUpstream[c]) \in Seq(UpstreamFrames)
      /\ Len(Tail(fromUpstream[c])) = Len(fromUpstream[c]) - 1
  BY <1>1, HeadTailProperties
<1>3. Len(fromUpstream[c]) \in Nat
  BY <1>1, LenProperties
<1> QED
  BY <1>1, <1>2, <1>3, BoundsAssumption

LEMMA FromClientKeeps ==
    ASSUME IInv, NEW c \in Connections, FromClient(c) PROVE IInv'
<1> DEFINE frame == Head(fromClient[c])
           values == IF frame.parses THEN frame.values ELSE <<>>
           book == Extended(Book(c), values)
           found == events[c] + Len(values)
<1> USE DEF IInv
<1>1. /\ at[c] = "pump" /\ at' = [at EXCEPT ![c] = "sendUp"]
      /\ fromClient[c] # <<>> /\ fromClient' = [fromClient EXCEPT ![c] = Tail(@)]
      /\ UNCHANGED <<connId, session>>
  BY DEF FromClient, NextIs, Goto, Take
<1>2. session[c] # 0 /\ at \in [Connections -> Places]
  BY <1>1 DEF Numbers
<1>3. frame.values \in Seq(Values) /\ values \in Seq(Values) /\ Len(values) \in Nat
  BY <1>1, FrontFrame, EmptySeq, LenProperties
<1>4. Numbers'
  BY <1>1, <1>2, NumbersKept DEF Places
<1>5. Accounts'
  <2>1. /\ handled' = [handled EXCEPT ![c] = @ + Len(values)]
        /\ Counted(Len(values))
        /\ IF Full(found) THEN Flush(c, found)
           ELSE /\ events' = [events EXCEPT ![c] = found]
                /\ UNCHANGED <<recorded, failed>>
    BY DEF FromClient
  <2>2. at'[c] = "sendUp" /\ \A d \in Connections : d # c => at'[d] = at[d]
    BY <1>1, <1>2
  <2> HIDE DEF values
  <2> QED
    BY <1>1, <1>2, <1>3, <2>1, <2>2, FoundAccounted DEF Early
<1>6. Booked'
  <2>1. /\ books' = [books EXCEPT ![session[c]] = book]
        /\ meant' = [meant EXCEPT ![c] = @ \cup Pairs(book, values)]
    BY DEF FromClient
  <2> HIDE DEF values
  <2>2. /\ meant'[c] = meant[c] \cup Pairs(book, values) /\ DOMAIN meant' = Connections
        /\ \A d \in Connections : d # c => meant'[d] = meant[d]
    BY <2>1 DEF Booked
  <2>3. meant[c] = AsPairs(Book(c))
    BY <1>1, <1>2 DEF Booked
  <2>4. \A d \in Connections : d # c => at'[d] = at[d]
    BY <1>1, <1>2
  <2> QED
    BY <1>1, <1>2, <1>3, <2>1, <2>2, <2>3, <2>4, BookGrows
<1>7. Wired'
  <2>1. DOMAIN inHand' = Connections /\ \A d \in Connections : d # c => inHand'[d] = inHand[d]
    BY DEF FromClient, Wired
  <2>2. UNCHANGED <<mishaps, sent, client, upstream, fromUpstream, toUpstream, toClient>>
    BY DEF FromClient, peers
  <2>3. /\ fromClient' \in [Connections -> Seq(ClientFrames)]
        /\ \A d \in Connections : Len(fromClient'[d]) <= Capacity
    BY <1>1, FrontFrame DEF Wired
  <2> QED
    BY <1>1, <1>2, <2>1, <2>2, <2>3 DEF Wired
<1> QED
  BY <1>4, <1>5, <1>6, <1>7

LEMMA MaskPanicsKeeps ==
    ASSUME IInv, NEW c \in Connections, MaskPanics(c) PROVE IInv'
<1> USE DEF IInv
<1>1. /\ at[c] = "pump" /\ at' = [at EXCEPT ![c] = "lost"]
      /\ fromClient[c] # <<>>
      /\ UNCHANGED <<connId, session, events, recorded, peers, sockets, inHand,
                     handled, failed, meant>>
  BY DEF MaskPanics, NextIs, Goto
<1>2. session[c] # 0 /\ at \in [Connections -> Places]
  BY <1>1 DEF Numbers
<1>3. PICK done \in 0..Len(Head(fromClient[c]).values) :
        LET values == SubSeq(Head(fromClient[c]).values, 1, done)
        IN /\ books' = [books EXCEPT ![session[c]] = Extended(@, values)]
           /\ masked' = masked + done
  BY DEF MaskPanics
<1> DEFINE whole == Head(fromClient[c]).values
           values == SubSeq(whole, 1, done)
<1>4. values \in Seq(Values) /\ done \in Nat
  <2>1. whole \in Seq(Values) /\ Len(whole) \in Nat
    BY <1>1, FrontFrame, LenProperties
  <2>2. done \in Nat /\ \A i \in 1..done : whole[i] \in Values
    BY <2>1, ElementOfSeq
  <2> QED
    BY <2>2, SubSeqProperties
<1>5. Numbers'
  BY <1>1, <1>2, NumbersKept DEF Places
<1>6. Accounts'
  <2>1. EventsAccounted'
    BY <1>1, <1>2 DEF Accounts, EventsAccounted
  <2>2. BufferBounded'
    BY <1>1 DEF Accounts, BufferBounded
  <2>3. masked' \in Nat
    BY <1>3, <1>4 DEF Accounts
  <2>4. \A d \in Connections : at'[d] \in Early => at[d] \in Early
    BY <1>1, <1>2 DEF Early
  <2> QED
    BY <1>1, <2>1, <2>2, <2>3, <2>4 DEF Accounts
<1>7. Booked'
  <2>1. session[c] \in Sessions
    BY <1>2, NumberInUse
  <2>2. books' = [books EXCEPT ![session[c]] = Extended(Book(c), values)]
    BY <1>3, <2>1 DEF Booked, Book
  <2>3. at'[c] = "lost" /\ \A d \in Connections : d # c => at'[d] = at[d]
    BY <1>1, <1>2
  <2> HIDE DEF values
  <2> QED
    BY <1>1, <1>2, <1>4, <2>2, <2>3, BookGrows DEF Booked
<1>8. Wired'
  <2>1. mishaps' \in 0..MaxMishaps
    BY BoundsAssumption DEF MaskPanics, Mishap, Wired
  <2> QED
    BY <1>1, <1>2, <2>1 DEF Wired, peers, sockets
<1> QED
  BY <1>5, <1>6, <1>7, <1>8

LEMMA SendUpKeeps ==
    ASSUME IInv, NEW c \in Connections, SendUp(c) PROVE IInv'
<1> USE DEF IInv, SendUp, Goto, peers, history
<1>1. Numbers'
  BY NumbersKept DEF Numbers, Places
<1>2. Accounts'
  BY AccountsKept DEF Numbers, Early
<1>3. Booked'
  BY BookedKept DEF Numbers
<1>4. Wired'
  <2>1. toUpstream' \in [Connections -> 0..Capacity]
    BY BoundsAssumption DEF Wired
  <2>2. DOMAIN inHand' = Connections
        /\ \A d \in Connections : inHand'[d] # <<>> => at'[d] \in {"sendUp", "sendDown", "lost"}
    BY DEF Wired, Numbers
  <2> QED
    BY <2>1, <2>2 DEF Wired
<1> QED
  BY <1>1, <1>2, <1>3, <1>4

LEMMA FromUpstreamKeeps ==
    ASSUME IInv, NEW c \in Connections, FromUpstream(c) PROVE IInv'
<1> USE DEF IInv
<1>1. /\ at[c] = "pump" /\ at' = [at EXCEPT ![c] = "sendDown"]
      /\ fromUpstream[c] # <<>> /\ fromUpstream' = [fromUpstream EXCEPT ![c] = Tail(@)]
      /\ UNCHANGED <<connId, session, books, events, masked, recorded, peers,
                     fromClient, toUpstream, toClient, mishaps, history>>
  BY DEF FromUpstream, NextIs, Goto
<1>2. session[c] # 0 /\ at \in [Connections -> Places]
  BY <1>1 DEF Numbers
<1>3. Numbers'
  BY <1>1, <1>2, NumbersKept DEF Places
<1>4. Accounts'
  BY <1>1, <1>2, AccountsKept DEF history, Early
<1>5. Booked'
  BY <1>1, <1>2, BookedKept DEF history
<1>6. Wired'
  <2>1. DOMAIN inHand' = Connections /\ \A d \in Connections : d # c => inHand'[d] = inHand[d]
    BY DEF FromUpstream, Wired
  <2>2. /\ fromUpstream' \in [Connections -> Seq(UpstreamFrames)]
        /\ \A d \in Connections : Len(fromUpstream'[d]) <= Capacity
    BY <1>1, FrontAnswer DEF Wired
  <2> QED
    BY <1>1, <1>2, <2>1, <2>2 DEF Wired, peers
<1> QED
  BY <1>3, <1>4, <1>5, <1>6

LEMMA SendDownKeeps ==
    ASSUME IInv, NEW c \in Connections, SendDown(c) PROVE IInv'
<1> USE DEF IInv, SendDown, Goto, peers, history
<1>1. Numbers'
  BY NumbersKept DEF Numbers, Places
<1>2. Accounts'
  BY AccountsKept DEF Numbers, Early
<1>3. Booked'
  BY BookedKept DEF Numbers
<1>4. Wired'
  <2>1. toClient' \in [Connections -> 0..Capacity]
    BY BoundsAssumption DEF Wired
  <2>2. DOMAIN inHand' = Connections
        /\ \A d \in Connections : inHand'[d] # <<>> => at'[d] \in {"sendUp", "sendDown", "lost"}
    BY DEF Wired, Numbers
  <2> QED
    BY <2>1, <2>2 DEF Wired
<1> QED
  BY <1>1, <1>2, <1>3, <1>4

LEMMA IgnoreOtherKeeps ==
    ASSUME IInv, NEW c \in Connections, IgnoreOther(c) PROVE IInv'
<1> USE DEF IInv
<1>1. UNCHANGED <<connId, session, books, events, masked, recorded, at, peers,
                  toUpstream, toClient, inHand, mishaps, history>>
  BY DEF IgnoreOther
<1>2. Numbers'
  BY <1>1, NumbersUnchanged
<1>3. Accounts'
  BY <1>1, AccountsKept DEF history
<1>4. Booked'
  BY <1>1, BookedKept DEF history
<1>5. Wired'
  <2>1. CASE /\ fromClient[c] # <<>>
             /\ fromClient' = [fromClient EXCEPT ![c] = Tail(@)]
             /\ UNCHANGED fromUpstream
    <3>1. /\ fromClient' \in [Connections -> Seq(ClientFrames)]
          /\ \A d \in Connections : Len(fromClient'[d]) <= Capacity
      BY <2>1, FrontFrame DEF Wired
    <3> QED
      BY <1>1, <2>1, <3>1 DEF Wired, peers
  <2>2. CASE /\ fromUpstream[c] # <<>>
             /\ fromUpstream' = [fromUpstream EXCEPT ![c] = Tail(@)]
             /\ UNCHANGED fromClient
    <3>1. /\ fromUpstream' \in [Connections -> Seq(UpstreamFrames)]
          /\ \A d \in Connections : Len(fromUpstream'[d]) <= Capacity
      BY <2>2, FrontAnswer DEF Wired
    <3> QED
      BY <1>1, <2>2, <3>1 DEF Wired, peers
  <2> QED
    BY <2>1, <2>2 DEF IgnoreOther, NextIs, Take
<1> QED
  BY <1>2, <1>3, <1>4, <1>5

LEMMA CloseKeeps ==
    ASSUME IInv, NEW c \in Connections, Close(c) PROVE IInv'
<1> USE DEF IInv
<1>1. /\ at[c] = "pump" /\ at' = [at EXCEPT ![c] = "closed"]
      /\ Flush(c, events[c])
      /\ UNCHANGED <<connId, session, books, masked, peers, sockets, inHand, mishaps,
                     handled, meant>>
  BY DEF Close, Goto
<1>2. session[c] # 0 /\ at \in [Connections -> Places]
  BY <1>1 DEF Numbers
<1>3. Numbers'
  BY <1>1, <1>2, NumbersKept DEF Places
<1>4. Accounts'
  <2> DEFINE s == session[c]
  <2>1. s \in Sessions /\ s <= connId
    BY <1>2, NumberInUse
  <2>2. \A d \in Connections : d # c /\ session[d] # 0 => session[d] # s
    BY <1>2 DEF Numbers, Linked
  <2>3. /\ events \in [Connections -> Nat] /\ handled \in [Connections -> Nat]
        /\ failed \in [Connections -> Nat] /\ recorded \in [Sessions -> Nat]
    BY DEF Accounts
  <2>4. /\ events' \in [Connections -> Nat] /\ failed' \in [Connections -> Nat]
        /\ recorded' \in [Sessions -> Nat]
        /\ events'[c] = 0
        /\ recorded'[s] + failed'[c] = recorded[s] + failed[c] + events[c]
        /\ \A d \in Connections : d # c => events'[d] = events[d] /\ failed'[d] = failed[d]
        /\ \A t \in Sessions : t # s => recorded'[t] = recorded[t]
    <3>1. CASE recorded' = [recorded EXCEPT ![s] = @ + events[c]] /\ UNCHANGED failed
      BY <1>1, <2>1, <2>3, <3>1 DEF Flush
    <3>2. CASE failed' = [failed EXCEPT ![c] = @ + events[c]] /\ UNCHANGED recorded
      BY <1>1, <2>1, <2>3, <3>2 DEF Flush
    <3> QED
      BY <1>1, <3>1, <3>2 DEF Flush
  <2> HIDE DEF s
  <2>5. EventsAccounted'
    <3>1. SUFFICES ASSUME NEW d \in Connections, session[d] # 0
                   PROVE  /\ handled[d] = recorded'[session[d]] + failed'[d] + events'[d]
                          /\ at'[d] = "closed" => events'[d] = 0
      BY <1>1 DEF EventsAccounted
    <3>2. CASE d = c
      <4>1. handled[c] = recorded[s] + failed[c] + events[c]
        BY <1>2 DEF Accounts, EventsAccounted, s
      <4>2. handled[c] = recorded'[s] + failed'[c] + events'[c]
        BY <2>1, <2>3, <2>4, <4>1
      <4> QED
        BY <2>4, <3>2, <4>2 DEF s
    <3>3. CASE d # c
      <4>1. session[d] \in Sessions /\ recorded'[session[d]] = recorded[session[d]]
        BY <2>2, <2>4, <3>1, <3>3, NumberInUse
      <4> QED
        BY <1>1, <1>2, <2>4, <3>1, <3>3, <4>1 DEF Accounts, EventsAccounted
    <3> QED
      BY <3>2, <3>3
  <2>6. BufferBounded'
    BY <2>4, BoundsAssumption DEF Accounts, BufferBounded
  <2>7. \A d \in Connections :
            at'[d] \in Early => handled'[d] = 0 /\ events'[d] = 0 /\ failed'[d] = 0
    BY <1>1, <1>2, <2>4 DEF Accounts, Early
  <2>8. \A t \in Sessions : t > connId' => recorded'[t] = 0
    BY <1>1, <2>1, <2>4, SessionsCounted DEF Accounts, Sessions, Numbers
  <2> QED
    BY <1>1, <2>4, <2>5, <2>6, <2>7, <2>8 DEF Accounts
<1>5. Booked'
  BY <1>1, <1>2, BookedKept
<1>6. Wired'
  BY <1>1, <1>2 DEF Wired, peers, sockets
<1> QED
  BY <1>3, <1>4, <1>5, <1>6

LEMMA TaskDroppedKeeps ==
    ASSUME IInv, NEW c \in Connections, TaskDropped(c) PROVE IInv'
<1> USE DEF IInv, TaskDropped, Goto, peers, sockets, history
<1>1. Numbers'
  BY NumbersKept DEF Numbers, Places
<1>2. Accounts'
  BY AccountsKept DEF Numbers, Early
<1>3. Booked'
  BY BookedKept DEF Numbers
<1>4. Wired'
  BY BoundsAssumption DEF Wired, Numbers, Mishap
<1> QED
  BY <1>1, <1>2, <1>3, <1>4

-----------------------------------------------------------------------------
(* The peers                                                               *)

\* What a peer does leaves the task and its accounts alone.
LEMMA PeersKeep ==
    ASSUME IInv, Wired',
           UNCHANGED <<connId, session, books, events, masked, recorded, at, history>>
    PROVE  IInv'
<1>1. Numbers'
  BY NumbersUnchanged DEF IInv
<1>2. Accounts'
  BY AccountsKept DEF IInv, history
<1>3. Booked'
  BY BookedKept DEF IInv, history
<1> QED
  BY <1>1, <1>2, <1>3 DEF IInv

LEMMA ClientSendsKeeps ==
    ASSUME IInv, NEW c \in Connections, NEW frame \in ClientFrames, ClientSends(c, frame)
    PROVE  IInv'
<1>1. Wired'
  <2>1. /\ fromClient \in [Connections -> Seq(ClientFrames)]
        /\ fromClient' = [fromClient EXCEPT ![c] = Append(fromClient[c], frame)]
    BY DEF IInv, Wired, ClientSends
  <2>2. /\ fromClient[c] \in Seq(ClientFrames) /\ Len(fromClient[c]) \in Nat
        /\ Append(fromClient[c], frame) \in Seq(ClientFrames)
        /\ Len(Append(fromClient[c], frame)) = Len(fromClient[c]) + 1
    BY <2>1, AppendProperties, LenProperties
  <2>3. /\ fromClient' \in [Connections -> Seq(ClientFrames)]
        /\ \A d \in Connections : Len(fromClient'[d]) <= Capacity
    BY <2>1, <2>2, BoundsAssumption DEF IInv, Wired, ClientSends
  <2>4. sent' \in 0..MaxFrames
    BY BoundsAssumption DEF IInv, Wired, ClientSends
  <2> QED
    BY <2>3, <2>4 DEF IInv, Wired, ClientSends
<1> QED
  BY <1>1, PeersKeep DEF ClientSends

LEMMA UpstreamSendsKeeps ==
    ASSUME IInv, NEW c \in Connections, NEW frame \in UpstreamFrames, UpstreamSends(c, frame)
    PROVE  IInv'
<1>1. Wired'
  <2>1. /\ fromUpstream \in [Connections -> Seq(UpstreamFrames)]
        /\ fromUpstream' = [fromUpstream EXCEPT ![c] = Append(fromUpstream[c], frame)]
    BY DEF IInv, Wired, UpstreamSends
  <2>2. /\ fromUpstream[c] \in Seq(UpstreamFrames) /\ Len(fromUpstream[c]) \in Nat
        /\ Append(fromUpstream[c], frame) \in Seq(UpstreamFrames)
        /\ Len(Append(fromUpstream[c], frame)) = Len(fromUpstream[c]) + 1
    BY <2>1, AppendProperties, LenProperties
  <2>3. /\ fromUpstream' \in [Connections -> Seq(UpstreamFrames)]
        /\ \A d \in Connections : Len(fromUpstream'[d]) <= Capacity
    BY <2>1, <2>2, BoundsAssumption DEF IInv, Wired, UpstreamSends
  <2>4. sent' \in 0..MaxFrames
    BY BoundsAssumption DEF IInv, Wired, UpstreamSends
  <2> QED
    BY <2>3, <2>4 DEF IInv, Wired, UpstreamSends
<1> QED
  BY <1>1, PeersKeep DEF UpstreamSends

LEMMA ReadsKeep ==
    ASSUME IInv, NEW c \in Connections, ClientReads(c) \/ UpstreamReads(c)
    PROVE  IInv'
<1>1. CASE ClientReads(c)
  <2>1. toClient' \in [Connections -> 0..Capacity]
    BY <1>1, BoundsAssumption DEF IInv, Wired, ClientReads
  <2>2. Wired'
    BY <1>1, <2>1 DEF IInv, Wired, ClientReads, peers
  <2> QED
    BY <1>1, <2>2, PeersKeep DEF ClientReads
<1>2. CASE UpstreamReads(c)
  <2>1. toUpstream' \in [Connections -> 0..Capacity]
    BY <1>2, BoundsAssumption DEF IInv, Wired, UpstreamReads
  <2>2. Wired'
    BY <1>2, <2>1 DEF IInv, Wired, UpstreamReads, peers
  <2> QED
    BY <1>2, <2>2, PeersKeep DEF UpstreamReads
<1> QED
  BY <1>1, <1>2

LEMMA GoesKeeps ==
    ASSUME IInv, NEW c \in Connections, ClientGoes(c) \/ UpstreamGoes(c)
    PROVE  IInv'
<1>1. CASE ClientGoes(c)
  <2>1. PICK arrives \in {<<>>, fromClient[c]} : fromClient' = [fromClient EXCEPT ![c] = arrives]
    BY <1>1 DEF ClientGoes
  <2>2. arrives \in Seq(ClientFrames) /\ Len(arrives) <= Capacity
    <3>1. <<>> \in Seq(ClientFrames) /\ Len(<<>>) <= Capacity
      <4>1. <<>> \in Seq(ClientFrames) /\ Len(<<>>) = 0
        BY EmptySeq
      <4> QED
        BY <4>1, BoundsAssumption
    <3>2. fromClient[c] \in Seq(ClientFrames) /\ Len(fromClient[c]) <= Capacity
      BY DEF IInv, Wired
    <3>3. CASE arrives = <<>>
      BY <3>1, <3>3, Zenon
    <3>4. CASE arrives = fromClient[c]
      BY <3>2, <3>4
    <3> QED
      BY <3>3, <3>4
  <2>3. /\ fromClient' \in [Connections -> Seq(ClientFrames)]
        /\ \A d \in Connections : Len(fromClient'[d]) <= Capacity
    BY <2>1, <2>2 DEF IInv, Wired
  <2>4. mishaps' \in 0..MaxMishaps
    BY <1>1, BoundsAssumption DEF IInv, Wired, ClientGoes, Mishap
  <2>5. Wired'
    BY <1>1, <2>3, <2>4 DEF IInv, Wired, ClientGoes
  <2> QED
    BY <1>1, <2>5, PeersKeep DEF ClientGoes
<1>2. CASE UpstreamGoes(c)
  <2>1. PICK arrives \in {<<>>, fromUpstream[c]} :
            fromUpstream' = [fromUpstream EXCEPT ![c] = arrives]
    BY <1>2 DEF UpstreamGoes
  <2>2. arrives \in Seq(UpstreamFrames) /\ Len(arrives) <= Capacity
    <3>1. <<>> \in Seq(UpstreamFrames) /\ Len(<<>>) <= Capacity
      <4>1. <<>> \in Seq(UpstreamFrames) /\ Len(<<>>) = 0
        BY EmptySeq
      <4> QED
        BY <4>1, BoundsAssumption
    <3>2. fromUpstream[c] \in Seq(UpstreamFrames) /\ Len(fromUpstream[c]) <= Capacity
      BY DEF IInv, Wired
    <3>3. CASE arrives = <<>>
      BY <3>1, <3>3, Zenon
    <3>4. CASE arrives = fromUpstream[c]
      BY <3>2, <3>4
    <3> QED
      BY <3>3, <3>4
  <2>3. /\ fromUpstream' \in [Connections -> Seq(UpstreamFrames)]
        /\ \A d \in Connections : Len(fromUpstream'[d]) <= Capacity
    BY <2>1, <2>2 DEF IInv, Wired
  <2>4. mishaps' \in 0..MaxMishaps
    BY <1>2, BoundsAssumption DEF IInv, Wired, UpstreamGoes, Mishap
  <2>5. Wired'
    BY <1>2, <2>3, <2>4 DEF IInv, Wired, UpstreamGoes
  <2> QED
    BY <1>2, <2>5, PeersKeep DEF UpstreamGoes
<1> QED
  BY <1>1, <1>2

-----------------------------------------------------------------------------
(* The theorems                                                            *)

LEMMA NextIInv == IInv /\ [Next]_vars => IInv'
<1> SUFFICES ASSUME IInv, [Next]_vars PROVE IInv'
  OBVIOUS
<1>1. CASE UNCHANGED vars
  <2>1. Wired'
    BY <1>1 DEF IInv, Wired, vars
  <2> QED
    BY <1>1, <2>1, PeersKeep DEF vars, history
<1>2. ASSUME NEW c \in Connections,
             Refuse(c) \/ Upgrade(c) \/ Task(c) \/ MaskPanics(c) \/ TaskDropped(c)
      PROVE  IInv'
  BY <1>2, RefuseKeeps, UpgradeKeeps, ConnectsKeeps, ConnectFailsKeeps,
     FromClientKeeps, SendUpKeeps, FromUpstreamKeeps, SendDownKeeps,
     IgnoreOtherKeeps, CloseKeeps, MaskPanicsKeeps, TaskDroppedKeeps
     DEF Task
<1>3. ASSUME NEW c \in Connections, Peers(c) PROVE IInv'
  BY <1>3, ClientSendsKeeps, UpstreamSendsKeeps, ReadsKeep, GoesKeeps DEF Peers
<1> QED
  BY <1>1, <1>2, <1>3 DEF Next

LEMMA Invariance == Spec => []IInv
BY InitIInv, NextIInv, PTL DEF Spec

\* Every state has the types TypeOK states; the numbers of connections do not run
\* out, and no socket holds more than its capacity.
THEOREM TypeCorrect == Spec => []TypeOK
<1>1. IInv => TypeOK
  BY DEF IInv, Numbers, Accounts, Booked, Wired, TypeOK
<1> QED
  BY <1>1, Invariance, PTL

\* However many connections mask, flush, close and are dropped at once, each event
\* found is in the ledger once, in a failed append or in its task's buffer, and a
\* session that was closed has flushed it (flush_ledger, the pump's end).
THEOREM EventsAreAccounted == Spec => []EventsAccounted
<1>1. IInv => EventsAccounted
  BY DEF IInv, Accounts
<1> QED
  BY <1>1, Invariance, PTL

\* No task ever buffers as many events as the threshold, which bounds what a crash
\* can take (flush_ledger at LEDGER_FLUSH_THRESHOLD).
THEOREM BuffersBounded == Spec => []BufferBounded
<1>1. IInv => BufferBounded
  BY DEF IInv, Accounts
<1> QED
  BY <1>1, Invariance, PTL

\* Only a frame from the upstream brings the task to sendDown.
LEMMA ToSendDown ==
    ASSUME IInv, Next, NEW c \in Connections, at[c] = "pump", at'[c] = "sendDown"
    PROVE  FromUpstream(c)
<1>1. at \in [Connections -> Places]
  BY DEF IInv, Numbers
<1>2. PICK d \in Connections :
        Refuse(d) \/ Upgrade(d) \/ Task(d) \/ MaskPanics(d) \/ TaskDropped(d) \/ Peers(d)
  BY DEF Next
<1>3. CASE Peers(d)
  BY <1>3 DEF Peers, ClientSends, UpstreamSends, ClientReads, UpstreamReads, ClientGoes,
     UpstreamGoes
<1>4. CASE Refuse(d) \/ Upgrade(d) \/ MaskPanics(d) \/ TaskDropped(d)
  BY <1>1, <1>4 DEF Refuse, Upgrade, MaskPanics, TaskDropped, Goto
<1>5. CASE Task(d)
  BY <1>1, <1>5 DEF Task, Connects, ConnectFails, FromClient, SendUp, FromUpstream,
     SendDown, IgnoreOther, Close, Goto
<1> QED
  BY <1>2, <1>3, <1>4, <1>5

\* What a client is sent was masked on its own connection, whatever the others mask
\* at the same time: the numbers of sessions are apart, a session's book has one
\* value for each placeholder, and nobody else writes to it.
THEOREM ClientsGetOwnWords == Spec => OwnWords
<1> DEFINE Own(c) ==
        at[c] = "pump" /\ at'[c] = "sendDown" =>
            \A p \in ToSet(inHand'[c]) :
                \/ p \in meant[c]
                \/ p[2] = p[1] /\ \A q \in meant[c] : q[1] # p[1]
<1>1. ASSUME IInv, [Next]_vars, NEW c \in Connections PROVE Own(c)
  <2>1. SUFFICES ASSUME at[c] = "pump", at'[c] = "sendDown", NEW p \in ToSet(inHand'[c])
                 PROVE  \/ p \in meant[c]
                        \/ p[2] = p[1] /\ \A q \in meant[c] : q[1] # p[1]
    OBVIOUS
  <2>2. FromUpstream(c)
    <3>1. Next
      BY <1>1, <2>1 DEF vars
    <3> QED
      BY <1>1, <2>1, <3>1, ToSendDown
  <2> DEFINE numbers == Head(fromUpstream[c]).numbers
  <2>3. inHand'[c] = [i \in DOMAIN numbers |-> <<numbers[i], Rehydrated(c, numbers[i])>>]
    BY <1>1, <2>2 DEF FromUpstream, IInv, Wired
  <2>4. PICK i \in DOMAIN numbers : p = <<numbers[i], Rehydrated(c, numbers[i])>>
    BY <2>1, <2>3 DEF ToSet
  <2>5. meant[c] = AsPairs(Book(c))
    BY <1>1, <2>1 DEF IInv, Booked, Numbers
  <2> HIDE DEF numbers
  <2>6. CASE numbers[i] \in DOMAIN Book(c)
    BY <2>4, <2>5, <2>6 DEF Rehydrated, AsPairs
  <2>7. CASE numbers[i] \notin DOMAIN Book(c)
    BY <2>4, <2>5, <2>7 DEF Rehydrated, AsPairs
  <2> QED
    BY <2>6, <2>7
<1>2. IInv /\ [Next]_vars => [\A c \in Connections : Own(c)]_vars
  BY <1>1
<1> QED
  BY <1>2, Invariance, PTL DEF Spec, OwnWords

-----------------------------------------------------------------------------
(* Masking is what the Masker promises                                     *)

\* A session's book the other way round: the placeholder of each value.
Given(book) == [v \in ToSet(book) |-> NumberOf(book, v)]

\* A frame is masked by putting a placeholder where a value was.
Placed(gaps, pieces) == [i \in DOMAIN pieces |-> pieces[i][1]]

\* What numbers read as: the value that has the number, or the number.
Readings(given, numbers) ==
    {[i \in DOMAIN numbers |->
        IF \E v \in DOMAIN given : given[v] = numbers[i]
        THEN CHOOSE v \in DOMAIN given : given[v] = numbers[i] ELSE numbers[i]]}

\* The call that masks some values.
Call(values) ==
    [gaps |-> <<>>, spans |-> [i \in DOMAIN values |-> [text |-> values[i], action |-> "mask"]]]

\* What the Masker promises of these books; what its calls return is compared with the
\* promise below.
Promise == INSTANCE PlaceholderBook WITH
    Threads <- Connections, Texts <- Values,
    Inputs <- {Call(values) : values \in Seq(Values)},
    Placeholder <- Nat \ {0}, Redacted <- 0, Fill <- Placed, Rehydrations <- Readings,
    book <- [s \in Sessions |-> Given(books[s])],
    answer <- [c \in Connections |-> [op |-> "none"]]

GrowsBy(s, values) == Promise!Grow(s, Given(books'[s]), Call(values))

LEMMA NumberIs ==
    ASSUME NEW book \in Seq(Values), Injective(book), NEW n \in DOMAIN book
    PROVE  book[n] \in ToSet(book) /\ NumberOf(book, book[n]) = n
<1>1. book[n] \in ToSet(book)
  BY DEF ToSet
<1>2. \A m \in DOMAIN book : book[m] = book[n] => m = n
  BY DEF Injective
<1>3. NumberOf(book, book[n]) \in DOMAIN book /\ book[NumberOf(book, book[n])] = book[n]
  BY DEF NumberOf
<1> QED
  BY <1>1, <1>2, <1>3

LEMMA GivenAre ==
    ASSUME NEW book \in Seq(Values), Injective(book)
    PROVE  /\ DOMAIN Given(book) = ToSet(book)
           /\ \A v \in ToSet(book) : Given(book)[v] \in DOMAIN book
                                     /\ book[Given(book)[v]] = v
           /\ \A n \in DOMAIN book : book[n] \in ToSet(book) /\ Given(book)[book[n]] = n
<1>1. \A n \in DOMAIN book : book[n] \in ToSet(book) /\ NumberOf(book, book[n]) = n
  BY NumberIs
<1>2. \A v \in ToSet(book) : \E n \in DOMAIN book : book[n] = v
  BY DEF ToSet
<1> QED
  BY <1>1, <1>2 DEF Given

\* Extending a book is the growth the Masker promises.
LEMMA ExtendedAsPromised ==
    ASSUME books \in [Sessions -> Seq(Values)], NEW s \in Sessions, Injective(books[s]),
           NEW values \in Seq(Values),
           books' = [books EXCEPT ![s] = Extended(books[s], values)]
    PROVE  GrowsBy(s, values)
<1> DEFINE old == books[s]
           new == Extended(old, values)
<1>1. old \in Seq(Values) /\ books'[s] = new /\ books' = [books EXCEPT ![s] = new]
  OBVIOUS
<1>2. Grown(new, old, values, Len(values))
  BY <1>1, ExtendedGrows
<1>3. DOMAIN values = 1..Len(values) /\ Len(values) \in Nat
  BY LenProperties
<1> HIDE DEF new
<1>4. new \in Seq(Values) /\ Injective(new) /\ Continues(new, old)
  BY <1>2 DEF Grown
<1>5. /\ Len(new) \in Nat /\ DOMAIN new = 1..Len(new)
      /\ Len(old) \in Nat /\ DOMAIN old = 1..Len(old)
      /\ Len(new) >= Len(old)
  BY <1>1, <1>4, LenProperties DEF Continues
<1>6. DOMAIN old \subseteq DOMAIN new
  BY <1>5
<1>7. ToSet(new) = ToSet(old) \cup {values[i] : i \in 1..Len(values)}
  <2>1. ASSUME NEW v \in ToSet(new)
        PROVE  v \in ToSet(old) \/ \E i \in 1..Len(values) : v = values[i]
    <3>1. PICK m \in DOMAIN new : new[m] = v
      BY DEF ToSet
    <3>2. m \in DOMAIN old => v = old[m]
      BY <1>4, <3>1 DEF Continues
    <3> QED
      BY <1>2, <3>1, <3>2 DEF Grown, ToSet
  <2>2. ASSUME NEW v \in ToSet(old) PROVE v \in ToSet(new)
    <3>1. PICK m \in DOMAIN old : old[m] = v
      BY DEF ToSet
    <3>2. m \in DOMAIN new /\ new[m] = v
      BY <1>4, <1>6, <3>1 DEF Continues
    <3> QED
      BY <3>2 DEF ToSet
  <2>3. ASSUME NEW i \in 1..Len(values) PROVE values[i] \in ToSet(new)
    <3>1. Contains(new, values[i])
      BY <1>2 DEF Grown
    <3> QED
      BY <1>5, <3>1 DEF Contains, ToSet
  <2> QED
    BY <2>1, <2>2, <2>3
<1> DEFINE b == Given(new)
           a == Given(old)
<1>8. /\ DOMAIN b = ToSet(new)
      /\ \A v \in ToSet(new) : b[v] \in DOMAIN new /\ new[b[v]] = v
      /\ \A n \in DOMAIN new : new[n] \in ToSet(new) /\ b[new[n]] = n
  BY <1>4, GivenAre
<1>9. /\ DOMAIN a = ToSet(old)
      /\ \A v \in ToSet(old) : a[v] \in DOMAIN old /\ old[a[v]] = v
  BY <1>1, GivenAre
<1>10. books'[s] = new /\ [t \in Sessions |-> Given(books[t])][s] = a
  BY <1>1
<1> HIDE DEF a, b
<1>11. DOMAIN b = DOMAIN a \cup Promise!ToMask(Call(values))
  <2>1. Promise!ToMask(Call(values)) = {values[i] : i \in 1..Len(values)}
    BY <1>3 DEF Promise!ToMask, Call
  <2> QED
    BY <1>7, <1>8, <1>9, <2>1
<1>12. ASSUME NEW v \in DOMAIN a PROVE b[v] = a[v]
  <2>1. a[v] \in DOMAIN old /\ old[a[v]] = v
    BY <1>9
  <2>2. a[v] \in DOMAIN new /\ new[a[v]] = v
    BY <1>4, <1>6, <2>1 DEF Continues
  <2> QED
    BY <1>8, <2>2
<1>13. \A v \in DOMAIN b : b[v] \in Nat \ {0}
  <2>1. \A n \in DOMAIN new : n \in Nat \ {0}
    BY <1>5
  <2> QED
    BY <1>8, <2>1
<1>14. Promise!OneToOne(b)
  BY <1>8 DEF Promise!OneToOne
<1>15. [t \in Sessions |-> Given(books'[t])]
         = [[t \in Sessions |-> Given(books[t])] EXCEPT ![s] = b]
  BY <1>1 DEF b
<1>16. Given(books'[s]) = b
  BY <1>10 DEF b
<1> QED
  BY <1>10, <1>11, <1>12, <1>13, <1>14, <1>15, <1>16 DEF GrowsBy, Promise!Grow

\* The values of the next frame that are masked.
ToMaskNext(c) ==
    IF Head(fromClient[c]).parses THEN Head(fromClient[c]).values ELSE <<>>

AsPromised ==
    /\ \/ books' = books
       \/ \E c \in Connections, values \in Seq(Values) :
            session[c] # 0 /\ GrowsBy(session[c], values)
    /\ \A c \in Connections : FromClient(c) =>
          /\ GrowsBy(session[c], ToMaskNext(c))
          /\ Head(fromClient[c]).parses =>
                inHand'[c] = Promise!Masked(Given(books'[session[c]]), Call(ToMaskNext(c)))
    /\ \A c \in Connections : FromUpstream(c) =>
          [i \in DOMAIN inHand'[c] |-> inHand'[c][i][2]]
             \in Readings(Given(Book(c)), Head(fromUpstream[c]).numbers)

LEMMA FromClientAsPromised ==
    ASSUME IInv, NEW c \in Connections, FromClient(c)
    PROVE  /\ session[c] # 0 /\ ToMaskNext(c) \in Seq(Values)
           /\ GrowsBy(session[c], ToMaskNext(c))
           /\ Head(fromClient[c]).parses =>
                inHand'[c] = Promise!Masked(Given(books'[session[c]]), Call(ToMaskNext(c)))
<1> DEFINE frame == Head(fromClient[c])
           values == ToMaskNext(c)
           s == session[c]
           book == Extended(Book(c), values)
<1>1. at[c] = "pump" /\ fromClient[c] # <<>>
  BY DEF FromClient, NextIs
<1>2. s # 0 /\ s \in Sessions
  <2>1. s # 0
    BY <1>1 DEF IInv, Numbers
  <2> QED
    BY <2>1, NumberInUse DEF IInv
<1>3. frame.values \in Seq(Values) /\ values \in Seq(Values)
  BY <1>1, FrontFrame, EmptySeq DEF IInv, ToMaskNext
<1>4. /\ books \in [Sessions -> Seq(Values)] /\ Book(c) = books[s]
      /\ books[s] \in Seq(Values) /\ Injective(books[s])
  BY <1>2 DEF IInv, Booked, Book
<1>5. /\ books' = [books EXCEPT ![s] = book]
      /\ inHand' = [inHand EXCEPT ![c] = Outbound(book, frame)]
  BY DEF FromClient, ToMaskNext
<1>6. GrowsBy(s, values)
  <2> HIDE DEF values
  <2> QED
    BY <1>2, <1>3, <1>4, <1>5, ExtendedAsPromised
<1>7. ASSUME frame.parses
      PROVE  inHand'[c] = Promise!Masked(Given(books'[s]), Call(values))
  <2>1. values = frame.values
    BY <1>7 DEF ToMaskNext
  <2>2. Grown(book, books[s], values, Len(values))
    BY <1>3, <1>4, ExtendedGrows
  <2>3. DOMAIN values = 1..Len(values)
    BY <1>3, LenProperties
  <2>4. books'[s] = book
    BY <1>2, <1>4, <1>5
  <2>5. inHand'[c] = Outbound(book, frame)
    BY <1>5 DEF IInv, Wired
  <2> HIDE DEF book, values
  <2>6. \A i \in DOMAIN values : values[i] \in ToSet(book)
    <3>1. DOMAIN book = 1..Len(book)
      BY <2>2, LenProperties DEF Grown
    <3> QED
      BY <2>2, <2>3, <3>1 DEF Grown, Contains, ToSet
  <2>7. Promise!Masked(Given(book), Call(values))
          = [i \in DOMAIN values |-> Given(book)[values[i]]]
    BY DEF Promise!Masked, Call, Placed
  <2>8. [i \in DOMAIN values |-> Given(book)[values[i]]]
          = [i \in DOMAIN values |-> NumberOf(book, values[i])]
    BY <2>6 DEF Given
  <2>9. Outbound(book, frame) = [i \in DOMAIN values |-> NumberOf(book, values[i])]
    BY <1>7, <2>1 DEF Outbound
  <2> QED
    BY <2>4, <2>5, <2>7, <2>8, <2>9
<1> QED
  BY <1>2, <1>3, <1>6, <1>7

LEMMA MaskPanicsAsPromised ==
    ASSUME IInv, NEW c \in Connections, MaskPanics(c)
    PROVE  session[c] # 0 /\ \E values \in Seq(Values) : GrowsBy(session[c], values)
<1> DEFINE s == session[c]
           all == Head(fromClient[c]).values
<1>1. at[c] = "pump" /\ fromClient[c] # <<>>
  BY DEF MaskPanics, NextIs
<1>2. s # 0 /\ s \in Sessions
  <2>1. s # 0
    BY <1>1 DEF IInv, Numbers
  <2> QED
    BY <2>1, NumberInUse DEF IInv
<1>3. all \in Seq(Values) /\ Len(all) \in Nat
  BY <1>1, FrontFrame, LenProperties DEF IInv
<1>4. books \in [Sessions -> Seq(Values)] /\ Injective(books[s])
  BY <1>2 DEF IInv, Booked
<1>5. PICK done \in 0..Len(all) :
        books' = [books EXCEPT ![s] = Extended(@, SubSeq(all, 1, done))]
  BY DEF MaskPanics
<1>6. SubSeq(all, 1, done) \in Seq(Values)
  BY <1>3, SubSeqProperties
<1>7. books' = [books EXCEPT ![s] = Extended(books[s], SubSeq(all, 1, done))]
  BY <1>4, <1>5
<1>8. GrowsBy(s, SubSeq(all, 1, done))
  BY <1>2, <1>4, <1>6, <1>7, ExtendedAsPromised
<1> QED
  BY <1>2, <1>6, <1>8

LEMMA FromUpstreamAsPromised ==
    ASSUME IInv, NEW c \in Connections, FromUpstream(c)
    PROVE  [i \in DOMAIN inHand'[c] |-> inHand'[c][i][2]]
             \in Readings(Given(Book(c)), Head(fromUpstream[c]).numbers)
<1> DEFINE numbers == Head(fromUpstream[c]).numbers
           book == Book(c)
           given == Given(book)
<1>1. book \in Seq(Values) /\ Injective(book)
  <2>1. session[c] # 0
    BY DEF IInv, Numbers, FromUpstream
  <2>2. session[c] \in Sessions
    BY <2>1, NumberInUse DEF IInv
  <2> QED
    BY <2>2 DEF IInv, Booked, Book
<1>2. inHand'[c] = [i \in DOMAIN numbers |-> <<numbers[i], Rehydrated(c, numbers[i])>>]
  BY DEF IInv, Wired, FromUpstream
<1>3. /\ DOMAIN given = ToSet(book)
      /\ \A v \in ToSet(book) : given[v] \in DOMAIN book /\ book[given[v]] = v
      /\ \A n \in DOMAIN book : book[n] \in ToSet(book) /\ given[book[n]] = n
  BY <1>1, GivenAre
<1> HIDE DEF given
<1>4. ASSUME NEW n
      PROVE  Rehydrated(c, n) = IF \E v \in DOMAIN given : given[v] = n
                                THEN CHOOSE v \in DOMAIN given : given[v] = n ELSE n
  <2>1. CASE n \in DOMAIN book
    <3>1. book[n] \in DOMAIN given /\ given[book[n]] = n
      BY <1>3, <2>1
    <3>2. \A v \in DOMAIN given : given[v] = n => v = book[n]
      BY <1>3
    <3> QED
      BY <2>1, <3>1, <3>2 DEF Rehydrated
  <2>2. CASE n \notin DOMAIN book
    <3>1. \A v \in DOMAIN given : given[v] # n
      BY <1>3, <2>2
    <3> QED
      BY <2>2, <3>1 DEF Rehydrated
  <2> QED
    BY <2>1, <2>2
<1>5. [i \in DOMAIN inHand'[c] |-> inHand'[c][i][2]]
        = [i \in DOMAIN numbers |-> Rehydrated(c, numbers[i])]
  BY <1>2
<1>6. [i \in DOMAIN numbers |-> Rehydrated(c, numbers[i])]
        = [i \in DOMAIN numbers |->
             IF \E v \in DOMAIN given : given[v] = numbers[i]
             THEN CHOOSE v \in DOMAIN given : given[v] = numbers[i] ELSE numbers[i]]
  BY <1>4
<1> QED
  BY <1>5, <1>6 DEF Readings, given

LEMMA NextAsPromised == IInv /\ [Next]_vars => [AsPromised]_vars
<1> SUFFICES ASSUME IInv, Next PROVE AsPromised
  OBVIOUS
<1>1. ASSUME NEW c \in Connections, books' # books,
             Refuse(c) \/ Upgrade(c) \/ Task(c) \/ MaskPanics(c) \/ TaskDropped(c) \/ Peers(c)
      PROVE  session[c] # 0 /\ \E values \in Seq(Values) : GrowsBy(session[c], values)
  <2>1. FromClient(c) \/ MaskPanics(c)
    BY <1>1 DEF Refuse, Upgrade, Task, Connects, ConnectFails, SendUp, FromUpstream, SendDown,
                IgnoreOther, Close, TaskDropped, Peers, ClientSends, UpstreamSends,
                ClientReads, UpstreamReads, ClientGoes, UpstreamGoes
  <2> QED
    BY <2>1, FromClientAsPromised, MaskPanicsAsPromised
<1>2. \/ books' = books
      \/ \E c \in Connections, values \in Seq(Values) :
            session[c] # 0 /\ GrowsBy(session[c], values)
  BY <1>1 DEF Next
<1> QED
  BY <1>2, FromClientAsPromised, FromUpstreamAsPromised DEF AsPromised

\* WsSession uses the Masker as PlaceholderBook promises it: a step changes the books by
\* masking some values for one connection or not at all, which gives those values and no
\* others a placeholder, none twice, and changes no placeholder, also when the task panics
\* half way; a frame that goes up is what that call returns, and a frame that goes down is
\* what rehydrate returns.
THEOREM MaskerAsPromised == Spec => [][AsPromised]_vars
<1> QED
  BY Invariance, NextAsPromised, PTL DEF Spec
=============================================================================
