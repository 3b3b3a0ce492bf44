-------------------------- MODULE ServerLoopProofs --------------------------
(***************************************************************************)
(* Proofs about the loop of the server: the array of clients, and what the *)
(* handlers are given.                                                     *)
(***************************************************************************)
EXTENDS ServerLoop, StreamProofs, FiniteSetTheorems

(***************************************************************************)
(* Sequences.                                                              *)
(***************************************************************************)

(* t is s without its element at c.                                        *)
IsWithout(t, s, c, S) ==
  /\ t \in Seq(S) /\ Len(t) = Len(s) - 1
  /\ \A k \in 1 .. Len(s) - 1 : t[k] = s[IF k < c THEN k ELSE k + 1]

LEMMA RemoveIs ==
  ASSUME NEW S, NEW s \in Seq(S), NEW c \in 1 .. Len(s), NEW t, t = RemoveAt(s, c)
  PROVE  IsWithout(t, s, c, S)
<1> DEFINE l == Len(s)
           a == SubSeq(s, 1, c - 1)
           b == SubSeq(s, c + 1, l)
<1>1. l \in Nat /\ c <= Len(s) /\ c \in Nat /\ c >= 1
  OBVIOUS
<1>2. a \in Seq(S) /\ Len(a) = c - 1 /\ \A k \in 1 .. c - 1 : a[k] = s[k]
  BY <1>1
<1>3. b \in Seq(S) /\ Len(b) = l - c /\ LiesAt(s, c, b)
  BY <1>1, SubSeqRest, Zenon
<1>4. t = a \o b
  BY DEF RemoveAt
<1> HIDE DEF a, b
<1>5. a \in Seq(S) /\ b \in Seq(S)
  BY <1>2, <1>3, Zenon
<1>6. a \o b \in Seq(S) /\ Len(a \o b) = Len(a) + Len(b)
  BY <1>5, Joining, Zenon
<1>7. t \in Seq(S) /\ Len(t) = l - 1
  BY <1>1, <1>2, <1>3, <1>4, <1>6
<1>8. ASSUME NEW k \in 1 .. l - 1 PROVE t[k] = s[IF k < c THEN k ELSE k + 1]
  <2>1. CASE k < c
    <3>1. k \in 1 .. Len(a) /\ k \in 1 .. c - 1
      BY <1>1, <1>2, <2>1
    <3>2. (a \o b)[k] = a[k]
      BY <1>5, <3>1, JoinLeft, Zenon
    <3>3. QED
      BY <1>2, <1>4, <2>1, <3>1, <3>2, Zenon
  <2>2. CASE ~ (k < c)
    <3>1. /\ k \in 1 .. Len(a) + Len(b) /\ ~ (k <= Len(a)) /\ k - Len(a) \in 1 .. Len(b)
          /\ c + (k - Len(a)) = k + 1
      BY <1>1, <1>2, <1>3, <2>2
    <3>2. (a \o b)[k] = b[k - Len(a)]
      BY <1>5, <3>1, JoinRight, Zenon
    <3>3. s[c + (k - Len(a))] = b[k - Len(a)]
      BY <1>3, <3>1, Zenon DEF LiesAt
    <3>4. QED
      BY <1>4, <2>2, <3>1, <3>2, <3>3, Zenon
  <2>3. QED
    BY <2>1, <2>2, Zenon
<1>9. QED
  BY <1>7, <1>8 DEF IsWithout

LEMMA AppendIs ==
  ASSUME NEW S, NEW s \in Seq(S), NEW x \in S, NEW t, t = Append(s, x)
  PROVE  /\ t \in Seq(S) /\ Len(s) \in Nat /\ Len(t) = Len(s) + 1 /\ t[Len(t)] = x
         /\ \A k \in 1 .. Len(s) : t[k] = s[k]
OBVIOUS

(***************************************************************************)
(* The array and the backlog: nobody is there twice.                       *)
(***************************************************************************)
Distinct(cs, bs) ==
  /\ \A i, k \in 1 .. Len(cs) : cs[i] = cs[k] => i = k
  /\ \A i, k \in 1 .. Len(bs) : bs[i] = bs[k] => i = k
  /\ \A i \in 1 .. Len(cs), k \in 1 .. Len(bs) : cs[i] # bs[k]

ArrayInv ==
  /\ setting \in Settings
  /\ clients \in Seq(setting.conn) /\ Len(clients) <= MAX_CLIENTS
  /\ backlog \in Seq(setting.conn)
  /\ Distinct(clients, backlog)
  /\ pc \in {"select", "body", "corrupt"}
  /\ pc = "body" => current \in 1 .. Len(clients)
  /\ pc = "corrupt" => Len(clients) = MAX_CLIENTS /\ backlog # <<>>

LEMMA ConnectArray ==
  ASSUME ArrayInv, NEW p \in Conn, Connect(p)
  PROVE  ArrayInv'
<1> DEFINE S == setting.conn
<1>1. /\ p \in S /\ clients' = clients /\ setting' = setting /\ pc' = pc /\ current' = current
      /\ backlog' = Append(backlog, p)
  BY DEF Connect, ghosts
<1>2. /\ \A i \in 1 .. Len(clients) : clients[i] # p
      /\ \A i \in 1 .. Len(backlog) : backlog[i] # p
  BY DEF Connect, Connected, InArray, Contains
<1>3. backlog \in Seq(S) /\ clients \in Seq(S) /\ Distinct(clients, backlog)
  BY DEF ArrayInv
<1> HIDE DEF S
<1>4. PICK b : b = backlog'
  OBVIOUS
<1>5. /\ b \in Seq(S) /\ Len(backlog) \in Nat /\ Len(b) = Len(backlog) + 1 /\ b[Len(b)] = p
      /\ \A k \in 1 .. Len(backlog) : b[k] = backlog[k]
  <2>1. p \in S /\ backlog \in Seq(S) /\ b = Append(backlog, p)
    BY <1>1, <1>3, <1>4, Zenon
  <2>2. QED
    BY <2>1
<1>6. Distinct(clients, b)
  <2>1. \A k \in 1 .. Len(b) : k \in 1 .. Len(backlog) \/ k = Len(b)
    BY <1>5
  <2>2. \A i, k \in 1 .. Len(b) : b[i] = b[k] => i = k
    BY <1>2, <1>3, <1>5, <2>1, Zenon DEF Distinct
  <2>3. \A i \in 1 .. Len(clients), k \in 1 .. Len(b) : clients[i] # b[k]
    BY <1>2, <1>3, <1>5, <2>1, Zenon DEF Distinct
  <2>4. QED
    BY <1>3, <2>2, <2>3, Zenon DEF Distinct
<1>7. b # <<>>
  BY <1>5
<1>8. QED
  BY <1>1, <1>4, <1>5, <1>6, <1>7 DEF ArrayInv, S

LEMMA AcceptArray ==
  ASSUME ArrayInv, Accept
  PROVE  ArrayInv'
<1> DEFINE S == setting.conn
<1>1. /\ pc = "select" /\ backlog # <<>> /\ Len(clients) < MAX_CLIENTS
      /\ clients' = Append(clients, Head(backlog)) /\ backlog' = Tail(backlog)
      /\ setting' = setting /\ pc' = pc
  BY DEF Accept, ghosts
<1>2. backlog \in Seq(S) /\ clients \in Seq(S) /\ Distinct(clients, backlog)
  BY DEF ArrayInv
<1> HIDE DEF S
<1>3. PICK b : b = backlog'
  OBVIOUS
<1>4. PICK c : c = clients'
  OBVIOUS
<1>5. /\ b \in Seq(S) /\ Len(backlog) \in Nat /\ Len(backlog) >= 1
      /\ Len(b) = Len(backlog) - 1 /\ Head(backlog) = backlog[1] /\ backlog[1] \in S
      /\ \A k \in 1 .. Len(b) : b[k] = backlog[k + 1]
  BY <1>1, <1>2, <1>3, TailIs
<1>6. c = Append(clients, backlog[1])
  BY <1>1, <1>4, <1>5, Zenon
<1>7. /\ c \in Seq(S) /\ Len(clients) \in Nat /\ Len(c) = Len(clients) + 1
      /\ c[Len(c)] = backlog[1] /\ \A k \in 1 .. Len(clients) : c[k] = clients[k]
  <2> DEFINE x == backlog[1]
  <2>1. x \in S /\ clients \in Seq(S) /\ c = Append(clients, x)
    BY <1>2, <1>5, <1>6, Zenon
  <2> HIDE DEF x
  <2>2. /\ c \in Seq(S) /\ Len(clients) \in Nat /\ Len(c) = Len(clients) + 1
        /\ c[Len(c)] = x /\ \A k \in 1 .. Len(clients) : c[k] = clients[k]
    BY <2>1
  <2>3. QED
    BY <2>2, Zenon DEF x
<1>8. Distinct(c, b)
  <2>1. \A k \in 1 .. Len(c) : k \in 1 .. Len(clients) \/ k = Len(c)
    BY <1>7
  <2>2. /\ 1 \in 1 .. Len(backlog)
        /\ \A k \in 1 .. Len(b) : k + 1 \in 1 .. Len(backlog) /\ k + 1 # 1
        /\ \A i, k \in 1 .. Len(b) : i + 1 = k + 1 => i = k
    BY <1>5
  <2>3. \A i, k \in 1 .. Len(c) : c[i] = c[k] => i = k
    <3>1. SUFFICES ASSUME NEW i \in 1 .. Len(c), NEW k \in 1 .. Len(c), c[i] = c[k], i # k
                   PROVE  FALSE
      OBVIOUS
    <3>2. /\ \A j \in 1 .. Len(clients) : c[j] # backlog[1]
      BY <1>2, <1>7, <2>2, Zenon DEF Distinct
    <3>3. CASE i \in 1 .. Len(clients) /\ k \in 1 .. Len(clients)
      <4>1. c[i] = clients[i] /\ c[k] = clients[k]
        BY <1>7, <3>3, Zenon
      <4>2. clients[i] = clients[k]
        BY <3>1, <4>1, Zenon
      <4>3. QED
        BY <1>2, <3>1, <3>3, <4>2, Zenon DEF Distinct
    <3>4. CASE i = Len(c) \/ k = Len(c)
      BY <1>7, <2>1, <3>1, <3>2, <3>4, Zenon
    <3>5. QED
      BY <2>1, <3>3, <3>4, Zenon
  <2>4. \A i, k \in 1 .. Len(b) : b[i] = b[k] => i = k
    BY <1>2, <1>5, <2>2, Zenon DEF Distinct
  <2>5. \A i \in 1 .. Len(c), k \in 1 .. Len(b) : c[i] # b[k]
    <3>1. TAKE i \in 1 .. Len(c), k \in 1 .. Len(b)
    <3>2. k + 1 \in 1 .. Len(backlog) /\ k + 1 # 1 /\ b[k] = backlog[k + 1]
      BY <1>5, <2>2, Zenon
    <3>3. CASE i \in 1 .. Len(clients)
      <4>1. c[i] = clients[i]
        BY <1>7, <3>3, Zenon
      <4>2. clients[i] # backlog[k + 1]
        BY <1>2, <3>2, <3>3, Zenon DEF Distinct
      <4>3. QED
        BY <3>2, <4>1, <4>2, Zenon
    <3>4. CASE i = Len(c)
      BY <1>2, <1>7, <2>2, <3>2, <3>4, Zenon DEF Distinct
    <3>5. QED
      BY <2>1, <3>3, <3>4, Zenon
  <2>6. QED
    BY <2>3, <2>4, <2>5, Zenon DEF Distinct
<1>9. Len(c) <= MAX_CLIENTS
  BY <1>1, <1>7, LoopAssumption
<1>10. QED
  BY <1>1, <1>3, <1>4, <1>5, <1>7, <1>8, <1>9 DEF ArrayInv, S

LEMMA RemoveArray ==
  ASSUME ArrayInv, RemoveClient
  PROVE  ArrayInv'
<1> DEFINE S == setting.conn
           l == Len(clients)
           at(k) == IF k < current THEN k ELSE k + 1
<1>1. /\ pc = "body" /\ clients' = RemoveAt(clients, current) /\ backlog' = backlog
      /\ setting' = setting /\ pc' = "select"
  BY DEF RemoveClient, Without
<1>2. /\ backlog \in Seq(S) /\ clients \in Seq(S) /\ Distinct(clients, backlog)
      /\ current \in 1 .. l /\ l <= MAX_CLIENTS
  BY <1>1 DEF ArrayInv
<1>3. PICK c : c = clients'
  OBVIOUS
<1>4. c \in Seq(S) /\ Len(c) = l - 1 /\ \A k \in 1 .. l - 1 : c[k] = clients[at(k)]
  <2>1. c = RemoveAt(clients, current)
    BY <1>1, <1>3
  <2>2. IsWithout(c, clients, current, S)
    BY <1>2, <2>1, RemoveIs
  <2>3. QED
    BY <2>2 DEF IsWithout
<1>5. l \in Nat
  BY <1>2, LenProperties
<1> HIDE DEF S, l
<1>6. /\ \A k \in 1 .. l - 1 : at(k) \in 1 .. l
      /\ \A i, k \in 1 .. l - 1 : at(i) = at(k) => i = k
  BY <1>2, <1>5
<1> HIDE DEF at
<1>7. Distinct(c, backlog)
  <2>1. \A i, k \in 1 .. l - 1 : c[i] = c[k] => i = k
    BY <1>2, <1>4, <1>6 DEF Distinct, l
  <2>2. \A i \in 1 .. l - 1, k \in 1 .. Len(backlog) : c[i] # backlog[k]
    BY <1>2, <1>4, <1>6 DEF Distinct, l
  <2>3. QED
    BY <1>2, <1>4, <2>1, <2>2, Zenon DEF Distinct
<1>8. Len(c) <= MAX_CLIENTS
  BY <1>2, <1>4, <1>5, LoopAssumption
<1>9. QED
  BY <1>1, <1>2, <1>3, <1>4, <1>7, <1>8 DEF ArrayInv, S

LEMMA ArrayNext ==
  ASSUME ArrayInv, [Next]_vars
  PROVE  ArrayInv'
<1> DEFINE kept == <<setting, clients, backlog, pc, current>>
<1>1. ASSUME UNCHANGED kept PROVE ArrayInv'
  BY <1>1 DEF ArrayInv, Distinct
<1>2. CASE UNCHANGED vars
  BY <1>1, <1>2 DEF vars, ghosts
<1>3. ASSUME NEW p \in Conn, Connect(p) PROVE ArrayInv'
  BY <1>3, ConnectArray
<1>4. ASSUME NEW p \in Conn, NEW m \in setting.says[p], Send(p, m) PROVE ArrayInv'
  BY <1>1, <1>4 DEF Send
<1>5. ASSUME NEW p \in Conn, End(p) PROVE ArrayInv'
  BY <1>1, <1>5 DEF End, ghosts
<1>6. ASSUME NEW p \in Conn, Arrive(p) PROVE ArrayInv'
  BY <1>1, <1>6 DEF Arrive, ghosts
<1>7. CASE Accept
  BY <1>7, AcceptArray
<1>8. CASE AcceptOutOfBounds
  BY <1>8 DEF AcceptOutOfBounds, ghosts, ArrayInv, Distinct
<1>9. CASE ReadLength
  <2>1. /\ pc = "select" /\ current' = Served /\ pc' = "body" /\ Readable # {}
        /\ setting' = setting /\ clients' = clients /\ backlog' = backlog
    BY <1>9 DEF ReadLength
  <2>2. Readable \in SUBSET Nat /\ Readable \subseteq 1 .. Len(clients)
    BY DEF Readable, ArrayInv
  <2>3. Served \in 1 .. Len(clients)
    BY <2>1, <2>2, MinOfNaturals DEF Served
  <2>4. QED
    BY <2>1, <2>3 DEF ArrayInv, Distinct
<1>10. CASE Handle
  BY <1>10 DEF Handle, ArrayInv, Distinct
<1>11. CASE RemoveClient
  BY <1>11, RemoveArray
<1>12. QED
  BY <1>2, <1>3, <1>4, <1>5, <1>6, <1>7, <1>8, <1>9, <1>10, <1>11 DEF Next, Serve

LEMMA ArrayInit ==
  ASSUME Init
  PROVE  ArrayInv
BY LoopAssumption DEF Init, ArrayInv, Distinct

(* The array and the backlog as one sequence.                              *)
LEMMA AllDistinct ==
  ASSUME ArrayInv, NEW w, w = clients \o backlog
  PROVE  /\ w \in Seq(setting.conn) /\ Len(w) = Len(clients) + Len(backlog)
         /\ \A i, k \in 1 .. Len(w) : w[i] = w[k] => i = k
<1> DEFINE S == setting.conn
           l == Len(clients)
           h == Len(backlog)
<1>1. clients \in Seq(S) /\ backlog \in Seq(S) /\ Distinct(clients, backlog)
  BY DEF ArrayInv
<1>2. l \in Nat /\ h \in Nat
  BY <1>1, LenProperties
<1> HIDE DEF S
<1>3. clients \o backlog \in Seq(S) /\ Len(clients \o backlog) = l + h
  BY <1>1, Joining, Zenon
<1>4. ASSUME NEW k \in 1 .. l + h
      PROVE  \/ k \in 1 .. l /\ w[k] = clients[k]
             \/ k - l \in 1 .. h /\ w[k] = backlog[k - l]
  <2>1. CASE k <= l
    <3>1. k \in 1 .. l
      BY <1>2, <2>1
    <3>2. (clients \o backlog)[k] = clients[k]
      BY <1>1, <3>1, JoinLeft, Zenon
    <3>3. QED
      BY <3>1, <3>2, Zenon
  <2>2. CASE ~ (k <= l)
    <3>1. k - l \in 1 .. h
      BY <1>2, <2>2
    <3>2. (clients \o backlog)[k] = backlog[k - l]
      BY <1>1, <2>2, JoinRight, Zenon
    <3>3. QED
      BY <3>1, <3>2, Zenon
  <2>3. QED
    BY <2>1, <2>2, Zenon
<1> HIDE DEF l, h
<1>5. /\ \A i, k \in 1 .. l : clients[i] = clients[k] => i = k
      /\ \A i, k \in 1 .. h : backlog[i] = backlog[k] => i = k
      /\ \A i \in 1 .. l, k \in 1 .. h : clients[i] # backlog[k]
  BY <1>1, Zenon DEF Distinct, l, h
<1>6. ASSUME NEW i \in 1 .. l + h, NEW k \in 1 .. l + h, w[i] = w[k] PROVE i = k
  <2>1. CASE i \in 1 .. l /\ w[i] = clients[i]
    <3>1. k \in 1 .. l /\ w[k] = clients[k]
      BY <1>4, <1>5, <1>6, <2>1
    <3>2. QED
      BY <1>5, <1>6, <2>1, <3>1
  <2>2. CASE i - l \in 1 .. h /\ w[i] = backlog[i - l]
    <3>1. k - l \in 1 .. h /\ w[k] = backlog[k - l]
      BY <1>4, <1>5, <1>6, <2>2
    <3>2. i - l = k - l
      BY <1>5, <1>6, <2>2, <3>1
    <3>3. QED
      BY <1>2, <3>2
  <2>3. QED
    BY <1>4, <2>1, <2>2
<1>7. QED
  BY <1>3, <1>6, Zenon DEF S, l, h

LEMMA NoMoreThanConnections ==
  ASSUME ArrayInv
  PROVE  /\ IsFiniteSet(setting.conn) /\ Cardinality(setting.conn) \in Nat
         /\ Len(clients) + Len(backlog) <= Cardinality(setting.conn)
         /\ Len(clients) \in Nat /\ Len(backlog) \in Nat
<1> DEFINE S == setting.conn
<1>1. S \subseteq Conn /\ IsFiniteSet(Conn)
  BY LoopAssumption DEF ArrayInv
<1>2. IsFiniteSet(S)
  BY <1>1, FS_Subset, Zenon
<1>3. Cardinality(S) \in Nat
  BY <1>2, FS_CardinalityType, Zenon
<1>4. PICK w : w = clients \o backlog
  OBVIOUS
<1>5. /\ w \in Seq(S) /\ Len(w) = Len(clients) + Len(backlog)
      /\ \A i, k \in 1 .. Len(w) : w[i] = w[k] => i = k
  BY <1>4, AllDistinct, Zenon
<1>6. Len(clients) \in Nat /\ Len(backlog) \in Nat
  BY LenProperties DEF ArrayInv
<1> HIDE DEF S
<1> DEFINE n == Len(w)
<1>7. n \in Nat /\ w \in [1 .. n -> S]
  BY <1>5, LenProperties
<1>8. IsFiniteSet(1 .. n) /\ Cardinality(1 .. n) = n
  <2> HIDE DEF n
  <2>1. QED
    BY <1>7, FS_Interval
<1>9. n <= Cardinality(S)
  <2> HIDE DEF n
  <2>1. SUFFICES ASSUME Cardinality(S) < n PROVE FALSE
    BY <1>3, <1>7
  <2>2. Cardinality(S) < Cardinality(1 .. n)
    BY <1>8, <2>1
  <2>3. \E x, y \in 1 .. n : x # y /\ w[x] = w[y]
    BY <1>2, <1>7, <1>8, <2>2, FS_PigeonHole, Zenon
  <2>4. QED
    BY <1>5, <2>3, Zenon DEF n
<1>10. QED
  BY <1>2, <1>3, <1>5, <1>6, <1>9 DEF S

LEMMA ArrayNoneTwice ==
  ASSUME ArrayInv
  PROVE  NoneTwice
<1>1. PICK w : w = clients \o backlog
  OBVIOUS
<1>2. w \in Seq(setting.conn) /\ \A i, k \in 1 .. Len(w) : w[i] = w[k] => i = k
  BY <1>1, AllDistinct, Zenon
<1>3. DOMAIN w = 1 .. Len(w)
  BY <1>2
<1>4. IsInjective(w)
  BY <1>2, <1>3, Zenon DEF IsInjective
<1>5. ASSUME pc = "corrupt" PROVE Cardinality(setting.conn) > MAX_CLIENTS
  <2>1. Len(clients) = MAX_CLIENTS /\ backlog # <<>> /\ backlog \in Seq(setting.conn)
    BY <1>5 DEF ArrayInv
  <2>2. Len(backlog) # 0
    BY <2>1, EmptySeq, Zenon
  <2>3. QED
    BY <2>1, <2>2, NoMoreThanConnections
<1>6. QED
  BY <1>1, <1>4, <1>5, Zenon DEF NoneTwice

(* No connection is in the array or in the backlog twice, and the array is *)
(* overrun only when more clients are connected than it has room for.      *)
THEOREM ServedOnce == Spec => []NoneTwice
<1>1. Init => ArrayInv
  BY ArrayInit
<1>2. ArrayInv /\ [Next]_vars => ArrayInv'
  BY ArrayNext
<1>3. ArrayInv => NoneTwice
  BY ArrayNoneTwice
<1>4. QED
  BY <1>1, <1>2, <1>3, PTL DEF Spec

(***************************************************************************)
(* The order of the array.                                                 *)
(***************************************************************************)
LEMMA OneOrder ==
  ASSUME NEW S, NEW s \in Seq(S), NEW p, NEW q, Before(s, p, q), Before(s, q, p),
         \A i, k \in 1 .. Len(s) : s[i] = s[k] => i = k
  PROVE  FALSE
<1>1. DOMAIN s = 1 .. Len(s)
  OBVIOUS
<1>2. PICK c \in 1 .. Len(s), d \in 1 .. Len(s) : c < d /\ s[c] = p /\ s[d] = q
  BY <1>1, Zenon DEF Before
<1>3. PICK e \in 1 .. Len(s), f \in 1 .. Len(s) : e < f /\ s[e] = q /\ s[f] = p
  BY <1>1, Zenon DEF Before
<1>4. e = d /\ f = c
  BY <1>2, <1>3, Zenon
<1>5. QED
  BY <1>2, <1>3, <1>4

LEMMA OrderAfterAppend ==
  ASSUME NEW S, NEW s \in Seq(S), NEW x \in S, NEW p, NEW q, Before(s, p, q)
  PROVE  Before(Append(s, x), p, q)
<1>1. DOMAIN s = 1 .. Len(s)
  OBVIOUS
<1>2. PICK c \in 1 .. Len(s), d \in 1 .. Len(s) : c < d /\ s[c] = p /\ s[d] = q
  BY <1>1, Zenon DEF Before
<1>3. PICK t : t = Append(s, x)
  OBVIOUS
<1>4. DOMAIN t = 1 .. Len(s) + 1 /\ \A k \in 1 .. Len(s) : t[k] = s[k] /\ k \in 1 .. Len(s) + 1
  BY <1>3
<1>5. Before(t, p, q)
  BY <1>2, <1>4, Zenon DEF Before
<1>6. QED
  BY <1>3, <1>5, Zenon

LEMMA OrderBeforeRemoval ==
  ASSUME NEW S, NEW s \in Seq(S), NEW c \in 1 .. Len(s), NEW t, t = RemoveAt(s, c),
         NEW p, NEW q, Before(t, p, q)
  PROVE  Before(s, p, q)
<1> DEFINE at(k) == IF k < c THEN k ELSE k + 1
           l == Len(s)
<1>1. t \in Seq(S) /\ Len(t) = l - 1 /\ \A k \in 1 .. l - 1 : t[k] = s[at(k)]
  BY RemoveIs DEF IsWithout
<1>2. DOMAIN s = 1 .. l /\ DOMAIN t = 1 .. l - 1 /\ l \in Nat
  BY <1>1
<1>3. PICK e \in 1 .. l - 1, f \in 1 .. l - 1 : e < f /\ t[e] = p /\ t[f] = q
  BY <1>2, Zenon DEF Before
<1>4. at(e) \in 1 .. l /\ at(f) \in 1 .. l /\ at(e) < at(f)
  BY <1>2, <1>3
<1> HIDE DEF at, l
<1>5. s[at(e)] = p /\ s[at(f)] = q
  BY <1>1, <1>3, Zenon
<1>6. QED
  BY <1>2, <1>4, <1>5, Zenon DEF Before

(* Whom the loop prefers of two clients never changes.                     *)
THEOREM OrderKept == Spec => NobodyOvertakes
<1> DEFINE Step == \A p, q \in Conn : Before(clients, p, q) => ~Before(clients', q, p)
<1>1. Init => ArrayInv
  BY ArrayInit
<1>2. ArrayInv /\ [Next]_vars => ArrayInv'
  BY ArrayNext
<1>3. ArrayInv /\ [Next]_vars => Step
  <2>1. SUFFICES ASSUME ArrayInv, [Next]_vars, NEW p \in Conn, NEW q \in Conn,
                        Before(clients, p, q), Before(clients', q, p)
                 PROVE  FALSE
    OBVIOUS
  <2> DEFINE S == setting.conn
  <2>2. clients \in Seq(S) /\ Distinct(clients, backlog) /\ backlog \in Seq(S)
    BY <2>1 DEF ArrayInv
  <2>3. PICK t : t = clients'
    OBVIOUS
  <2>4. ArrayInv'
    BY <2>1, ArrayNext
  <2>5. \A i, k \in 1 .. Len(t) : t[i] = t[k] => i = k
    BY <2>3, <2>4 DEF ArrayInv, Distinct
  <2>6. \A i, k \in 1 .. Len(clients) : clients[i] = clients[k] => i = k
    BY <2>2, Zenon DEF Distinct
  <2> HIDE DEF S
  <2>7. CASE clients' = clients
    BY <2>1, <2>2, <2>6, <2>7, OneOrder, Zenon
  <2>8. CASE Accept
    <3>1. t = Append(clients, Head(backlog)) /\ backlog # <<>>
      BY <2>3, <2>8 DEF Accept
    <3>2. Head(backlog) \in S
      BY <2>2, <3>1
    <3>3. PICK x \in S : x = Head(backlog)
      BY <3>2, Zenon
    <3>4. t = Append(clients, x)
      BY <3>1, <3>3, Zenon
    <3>5. Before(t, p, q)
      BY <2>1, <2>2, <3>4, OrderAfterAppend, Zenon
    <3>6. t \in Seq(S)
      BY <2>2, <3>4, AppendProperties, Zenon
    <3>7. Before(t, q, p)
      BY <2>1, <2>3, Zenon
    <3>8. QED
      BY <2>5, <3>5, <3>6, <3>7, OneOrder, Zenon
  <2>9. CASE RemoveClient
    <3>1. t = RemoveAt(clients, current) /\ current \in 1 .. Len(clients)
      BY <2>1, <2>3, <2>9 DEF RemoveClient, Without, ArrayInv
    <3>2. Before(t, q, p)
      BY <2>1, <2>3, Zenon
    <3>3. Before(clients, q, p)
      BY <2>2, <3>1, <3>2, OrderBeforeRemoval, Zenon
    <3>4. QED
      BY <2>1, <2>2, <2>6, <3>3, OneOrder, Zenon
  <2>10. clients' = clients \/ Accept \/ RemoveClient
    BY <2>1 DEF Next, Serve, vars, Connect, Send, End, Arrive, AcceptOutOfBounds, ReadLength,
                Handle
  <2>11. QED
    BY <2>7, <2>8, <2>9, <2>10
<1>4. QED
  BY <1>1, <1>2, <1>3, PTL DEF Spec, NobodyOvertakes

(***************************************************************************)
(* The sockets and the buffer.                                             *)
(***************************************************************************)
SocketInv ==
  /\ stream \in [Conn -> Streams] /\ arrived \in [Conn -> BOOLEAN]
  /\ \A p \in Conn : arrived[p] => stream[p] # <<>>
  /\ cut \in [Conn -> BOOLEAN]
  /\ unheard \in [Conn -> Seq(Requests)]
  /\ \A p \in Conn : FitBuffer(unheard[p])
  /\ buffer \in Buffers

LEMMA ServedConn ==
  ASSUME ArrayInv, NEW c \in 1 .. Len(clients)
  PROVE  clients[c] \in Conn
<1>1. clients \in Seq(setting.conn) /\ setting.conn \subseteq Conn
  BY LoopAssumption DEF ArrayInv
<1>2. clients[c] \in setting.conn
  BY <1>1, ElementOfSeq
<1>3. QED
  BY <1>1, <1>2

(* A recv on a connection that has something to read.                      *)
LEMMA TakesIs ==
  ASSUME SocketInv, NEW p \in Conn, arrived[p], NEW asked \in Nat, NEW got,
         Takes(p, asked, got)
  PROVE  /\ stream' \in [Conn -> Streams] /\ arrived' \in [Conn -> BOOLEAN]
         /\ cut' \in [Conn -> BOOLEAN]
         /\ \A q \in Conn : arrived'[q] => stream'[q] # <<>>
         /\ \A q \in Conn : q # p => stream'[q] = stream[q] /\ cut'[q] = cut[q]
         /\ cut'[p] = (cut[p] \/ IsShort(got, asked))
         /\ stream[p] \in Streams /\ stream[p] # <<>>
         /\ got \in Received(stream[p], asked) /\ stream'[p] = Rest(stream[p], got)
<1>1. stream \in [Conn -> Streams] /\ arrived \in [Conn -> BOOLEAN] /\ cut \in [Conn -> BOOLEAN]
  BY DEF SocketInv
<1>2. stream[p] \in Streams /\ stream[p] # <<>>
  BY <1>1 DEF SocketInv
<1>3. /\ got \in Received(stream[p], asked)
      /\ stream' = [stream EXCEPT ![p] = Rest(stream[p], got)]
      /\ cut' = [cut EXCEPT ![p] = cut[p] \/ IsShort(got, asked)]
  BY DEF Takes
<1>4. PICK more \in MoreArrived(stream'[p]) :
        arrived' = [arrived EXCEPT ![p] = IF got = <<>> THEN @ ELSE more]
  BY DEF Takes
<1>5. stream'[p] = Rest(stream[p], got)
  BY <1>1, <1>3
<1>6. Rest(stream[p], got) \in Streams
  BY <1>2, <1>3, ReceivedStream, Zenon
<1>7. more \in BOOLEAN /\ (more => stream'[p] # <<>>)
  BY <1>4 DEF MoreArrived
<1>8. got = <<>> => Rest(stream[p], got) = stream[p]
  <2>1. stream[p] \in Seq(Bytes \cup {END})
    BY <1>2, InFlightIs
  <2>2. Len(<<>>) + 1 = 1
    OBVIOUS
  <2>3. SubSeq(stream[p], 1, Len(stream[p])) = stream[p]
    BY <2>1, SubSeqFull, Zenon
  <2>4. QED
    BY <2>2, <2>3, Zenon DEF Rest
<1>9. stream' \in [Conn -> Streams]
  BY <1>1, <1>3, <1>6
<1>10. arrived' \in [Conn -> BOOLEAN]
  BY <1>1, <1>4, <1>7
<1>11. ASSUME NEW q \in Conn, arrived'[q] PROVE stream'[q] # <<>>
  <2>1. CASE q # p
    BY <1>1, <1>3, <1>4, <1>11, <2>1 DEF SocketInv
  <2>2. CASE q = p /\ got = <<>>
    BY <1>2, <1>5, <1>8, <2>2, Zenon
  <2>3. CASE q = p /\ got # <<>>
    <3>1. arrived'[p] = more
      BY <1>1, <1>4, <2>3
    <3>2. QED
      BY <1>7, <1>11, <2>3, <3>1, Zenon
  <2>4. QED
    BY <2>1, <2>2, <2>3, Zenon
<1>12. cut' \in [Conn -> BOOLEAN] /\ cut'[p] = (cut[p] \/ IsShort(got, asked))
  BY <1>1, <1>3 DEF IsShort
<1>13. \A q \in Conn : q # p => stream'[q] = stream[q] /\ cut'[q] = cut[q]
  BY <1>1, <1>3
<1>14. QED
  BY <1>2, <1>3, <1>5, <1>9, <1>10, <1>11, <1>12, <1>13, Zenon

LEMMA SaysFits ==
  ASSUME ArrayInv, SocketInv, NEW p \in Conn, NEW m \in setting.says[p], Send(p, m)
  PROVE  m \in Requests /\ FrameLen(m) <= BUF_SIZE - 1
<1>1. setting \in Settings
  BY DEF ArrayInv
<1>2. setting.says[p] \subseteq Requests /\ setting.window[p] \in 0 .. BUF_SIZE - 1
  BY <1>1, LoopAssumption
<1>3. m \in Requests
  BY <1>2
<1>4. stream[p] \in Streams
  BY DEF SocketInv
<1>5. Len(stream[p]) \in Nat
  BY <1>4, InFlightIs
<1>6. FrameLen(m) \in Nat
  BY <1>3, OfRequest, FrameLenIs
<1>7. Len(stream[p]) + FrameLen(m) <= setting.window[p]
  BY <1>3, OfRequest DEF Send, FrameLen
<1>8. QED
  BY <1>2, <1>3, <1>5, <1>6, <1>7, BufferSize

LEMMA SendSockets ==
  ASSUME ArrayInv, SocketInv, NEW p \in Conn, NEW m \in setting.says[p], Send(p, m)
  PROVE  SocketInv'
<1>1. m \in Requests /\ FrameLen(m) <= BUF_SIZE - 1
  BY SaysFits
<1>2. /\ ~ Ended(stream[p])
      /\ stream' = [stream EXCEPT ![p] = stream[p] \o FrameOf(m)]
      /\ unheard' = [unheard EXCEPT ![p] = Append(unheard[p], m)]
      /\ arrived' = arrived /\ cut' = cut /\ buffer' = buffer
  BY <1>1, OfRequest DEF Send
<1>3. /\ stream \in [Conn -> Streams] /\ unheard \in [Conn -> Seq(Requests)]
      /\ \A q \in Conn : FitBuffer(unheard[q])
      /\ \A q \in Conn : arrived[q] => stream[q] # <<>>
  BY DEF SocketInv
<1>4. PICK s : s = stream[p] \o FrameOf(m)
  OBVIOUS
<1>5. s \in Streams /\ s # <<>>
  BY <1>1, <1>2, <1>3, <1>4, OfRequest, SendStream
<1>6. PICK f : f = Append(unheard[p], m)
  OBVIOUS
<1>7. f \in Seq(Requests) /\ FitBuffer(f)
  BY <1>1, <1>3, <1>6, FitAppend
<1>8. stream' \in [Conn -> Streams] /\ \A q \in Conn : arrived'[q] => stream'[q] # <<>>
  BY <1>2, <1>3, <1>4, <1>5
<1>9. unheard' \in [Conn -> Seq(Requests)] /\ \A q \in Conn : FitBuffer(unheard'[q])
  BY <1>2, <1>3, <1>6, <1>7
<1>10. QED
  BY <1>2, <1>8, <1>9 DEF SocketInv

LEMMA EndSockets ==
  ASSUME SocketInv, NEW p \in Conn, End(p)
  PROVE  SocketInv'
<1>1. /\ ~ Ended(stream[p]) /\ stream' = [stream EXCEPT ![p] = Append(stream[p], END)]
      /\ arrived' = arrived /\ cut' = cut /\ buffer' = buffer /\ unheard' = unheard
  BY DEF End, ghosts
<1>2. stream \in [Conn -> Streams] /\ \A q \in Conn : arrived[q] => stream[q] # <<>>
  BY DEF SocketInv
<1>3. PICK s : s = Append(stream[p], END)
  OBVIOUS
<1>4. s \in Streams /\ s # <<>>
  BY <1>1, <1>2, <1>3, EndStream
<1>5. stream' \in [Conn -> Streams] /\ \A q \in Conn : arrived'[q] => stream'[q] # <<>>
  BY <1>1, <1>2, <1>3, <1>4
<1>6. QED
  BY <1>1, <1>5 DEF SocketInv

LEMMA ReadLengthSockets ==
  ASSUME ArrayInv, SocketInv, ReadLength
  PROVE  SocketInv'
<1>1. PICK p : p = clients[Served]
  OBVIOUS
<1>2. p \in Conn /\ arrived[p]
  <2>1. Readable \in SUBSET Nat /\ Readable # {} /\ Readable \subseteq 1 .. Len(clients)
    BY DEF Readable, ArrayInv, ReadLength
  <2>2. Served \in Readable
    BY <2>1, MinOfNaturals DEF Served
  <2>3. QED
    BY <1>1, <2>1, <2>2, ServedConn DEF Readable
<1>3. PICK got \in Received(stream[p], LengthBytes) :
        /\ Takes(p, LengthBytes, got)
        /\ buffer' = Put(buffer, got)
        /\ unheard' = IF cut'[p] THEN [unheard EXCEPT ![p] = <<>>] ELSE unheard
  BY <1>1 DEF ReadLength
<1>4. LengthBytes \in Nat
  BY DEF LengthBytes
<1>5. /\ stream' \in [Conn -> Streams] /\ arrived' \in [Conn -> BOOLEAN]
      /\ cut' \in [Conn -> BOOLEAN]
      /\ \A q \in Conn : arrived'[q] => stream'[q] # <<>>
      /\ stream[p] \in Streams /\ stream[p] # <<>>
  BY <1>2, <1>3, <1>4, TakesIs, Zenon
<1>6. Len(got) \in Nat /\ \A j \in 1 .. Len(got) : got[j] \in Bytes
  BY <1>3, <1>4, <1>5, ReceivedLength, ReceivedStream, Zenon
<1>7. buffer' \in Buffers
  BY <1>3, <1>6, PutIs DEF SocketInv
<1>8. unheard' \in [Conn -> Seq(Requests)] /\ \A q \in Conn : FitBuffer(unheard'[q])
  <2>1. <<>> \in Seq(Requests)
    OBVIOUS
  <2>2. QED
    BY <1>3, <2>1, FitEmpty DEF SocketInv
<1>9. QED
  BY <1>5, <1>7, <1>8 DEF SocketInv

LEMMA HandleSockets ==
  ASSUME ArrayInv, SocketInv, Handle
  PROVE  SocketInv'
<1>1. PICK p : p = clients[current]
  OBVIOUS
<1>2. p \in Conn /\ arrived[p]
  BY <1>1, ServedConn DEF ArrayInv, Handle
<1>3. PICK size \in Nat : size = SizeIn(buffer)
  BY SizeInNat DEF SocketInv
<1>4. PICK got \in Received(stream[p], size) :
        /\ Takes(p, size, got)
        /\ buffer' = Terminate(Put(buffer, got), Len(got))
  BY <1>1, <1>3 DEF Handle
<1>5. /\ stream' \in [Conn -> Streams] /\ arrived' \in [Conn -> BOOLEAN]
      /\ cut' \in [Conn -> BOOLEAN]
      /\ \A q \in Conn : arrived'[q] => stream'[q] # <<>>
      /\ stream[p] \in Streams /\ stream[p] # <<>>
  BY <1>2, <1>4, TakesIs, Zenon
<1>6. Len(got) \in Nat /\ \A j \in 1 .. Len(got) : got[j] \in Bytes
  BY <1>4, <1>5, ReceivedLength, ReceivedStream, Zenon
<1>7. buffer' \in Buffers
  BY <1>4, <1>6, PutIs, TerminateIs DEF SocketInv
<1>8. unheard' \in [Conn -> Seq(Requests)] /\ \A q \in Conn : FitBuffer(unheard'[q])
  <2>1. <<>> \in Seq(Requests)
    OBVIOUS
  <2>2. unheard \in [Conn -> Seq(Requests)] /\ \A q \in Conn : FitBuffer(unheard[q])
    BY DEF SocketInv
  <2>3. PICK f : f = IF cut'[p] \/ unheard[p] = <<>> THEN <<>> ELSE Tail(unheard[p])
    OBVIOUS
  <2>4. f \in Seq(Requests) /\ FitBuffer(f)
    <3>1. unheard[p] \in Seq(Requests) /\ FitBuffer(unheard[p])
      BY <1>2, <2>2
    <3>2. unheard[p] # <<>> => Tail(unheard[p]) \in Seq(Requests) /\ FitBuffer(Tail(unheard[p]))
      BY <3>1, FitTail, Zenon
    <3>3. QED
      BY <2>1, <2>3, <3>2, FitEmpty, Zenon
  <2>5. unheard' = [unheard EXCEPT ![p] = f]
    BY <1>1, <2>3 DEF Handle
  <2>6. QED
    BY <2>2, <2>4, <2>5
<1>9. QED
  BY <1>5, <1>7, <1>8 DEF SocketInv

(* The notice that app writes into the buffer.                             *)
LEMMA NoticeIs ==
  ASSUME ArrayInv, SocketInv, NEW p \in Conn, NEW name \in NamesOf(p)
  PROVE  Notice(name) \in Buffers
<1>1. setting.says[p] \subseteq Requests
  BY LoopAssumption DEF ArrayInv
<1>2. name \in Seq(Char)
  <2>1. CASE name = <<>>
    BY <2>1
  <2>2. ASSUME NEW m \in setting.says[p], m.type = "CONNECT", name = m.text
        PROVE  name \in Seq(Char)
    <3>1. m \in Requests
      BY <1>1
    <3>2. QED
      BY <2>2, <3>1 DEF Requests
  <2>3. QED
    BY <2>1, <2>2 DEF NamesOf
<1> DEFINE text == name \o DISCONNECTED
<1>3. DISCONNECTED \in Seq(Char)
  BY DEF DISCONNECTED, Char
<1>4. text \in Seq(Char) /\ Len(text) \in Nat
  BY <1>2, <1>3, Joining, LenProperties, Zenon
<1> HIDE DEF text
<1> DEFINE n == Min({Len(text), BUF_SIZE - 1})
<1>5. n \in Nat /\ n <= Len(text)
  <2> DEFINE T == {Len(text), BUF_SIZE - 1}
  <2>1. T \in SUBSET Nat /\ T # {} /\ Len(text) \in T
    BY <1>4, BufferSize
  <2> HIDE DEF T
  <2>2. Min(T) \in T /\ \A y \in T : Min(T) <= y
    BY <2>1, MinOfNaturals, Zenon
  <2>3. QED
    BY <2>1, <2>2 DEF T
<1>6. Notice(name) = [k \in DOMAIN buffer |-> IF k < n THEN text[k + 1] ELSE 0]
  BY DEF Notice, text
<1> HIDE DEF n
<1>7. DOMAIN buffer = 0 .. BUF_SIZE - 1
  BY DEF SocketInv, Buffers
<1>8. ASSUME NEW k \in 0 .. BUF_SIZE - 1 PROVE (IF k < n THEN text[k + 1] ELSE 0) \in Bytes
  <2>1. 0 \in Bytes /\ Char \subseteq Bytes
    BY DEF Char, Bytes
  <2>2. ASSUME k < n PROVE text[k + 1] \in Char
    <3>1. k + 1 \in 1 .. Len(text)
      BY <1>4, <1>5, <2>2, BufferSize
    <3>2. QED
      BY <1>4, <3>1, ElementOfSeq, Zenon
  <2>3. QED
    BY <2>1, <2>2
<1>9. QED
  BY <1>6, <1>7, <1>8, Zenon DEF Buffers

LEMMA RemoveSockets ==
  ASSUME ArrayInv, SocketInv, RemoveClient
  PROVE  SocketInv'
<1>1. PICK p : p = clients[current]
  OBVIOUS
<1>2. p \in Conn
  BY <1>1, ServedConn DEF ArrayInv, RemoveClient
<1>3. /\ stream' = [stream EXCEPT ![p] = <<>>] /\ arrived' = [arrived EXCEPT ![p] = FALSE]
      /\ unheard' = [unheard EXCEPT ![p] = <<>>] /\ cut' = [cut EXCEPT ![p] = FALSE]
      /\ \E name \in NamesOf(p) : buffer' = Notice(name)
  BY <1>1 DEF RemoveClient
<1>4. buffer' \in Buffers
  BY <1>2, <1>3, NoticeIs, Zenon
<1>5. /\ stream \in [Conn -> Streams] /\ arrived \in [Conn -> BOOLEAN]
      /\ \A q \in Conn : arrived[q] => stream[q] # <<>>
      /\ cut \in [Conn -> BOOLEAN] /\ unheard \in [Conn -> Seq(Requests)]
      /\ \A q \in Conn : FitBuffer(unheard[q])
  BY DEF SocketInv
<1>6. <<>> \in Streams /\ <<>> \in Seq(Requests) /\ FitBuffer(<<>>)
  BY EmptyStream, FitEmpty
<1>7. stream' \in [Conn -> Streams]
  BY <1>3, <1>5, <1>6
<1>8. arrived' \in [Conn -> BOOLEAN] /\ cut' \in [Conn -> BOOLEAN]
  BY <1>3, <1>5
<1>9. \A q \in Conn : arrived'[q] => stream'[q] # <<>>
  BY <1>3, <1>5
<1>10. unheard' \in [Conn -> Seq(Requests)] /\ \A q \in Conn : FitBuffer(unheard'[q])
  BY <1>3, <1>5, <1>6
<1>11. QED
  BY <1>4, <1>7, <1>8, <1>9, <1>10 DEF SocketInv

LEMMA SocketNext ==
  ASSUME ArrayInv, SocketInv, [Next]_vars
  PROVE  SocketInv'
<1> DEFINE kept == <<stream, arrived, cut, unheard, buffer>>
<1>1. ASSUME UNCHANGED kept PROVE SocketInv'
  BY <1>1 DEF SocketInv
<1>2. CASE UNCHANGED vars
  BY <1>1, <1>2 DEF vars, sockets, ghosts
<1>3. ASSUME NEW p \in Conn, Connect(p) PROVE SocketInv'
  BY <1>1, <1>3 DEF Connect, sockets, ghosts
<1>4. ASSUME NEW p \in Conn, NEW m \in setting.says[p], Send(p, m) PROVE SocketInv'
  BY <1>4, SendSockets
<1>5. ASSUME NEW p \in Conn, End(p) PROVE SocketInv'
  BY <1>5, EndSockets
<1>6. ASSUME NEW p \in Conn, Arrive(p) PROVE SocketInv'
  BY <1>6 DEF Arrive, ghosts, SocketInv
<1>7. CASE Accept
  BY <1>1, <1>7 DEF Accept, sockets, ghosts
<1>8. CASE AcceptOutOfBounds
  BY <1>1, <1>8 DEF AcceptOutOfBounds, sockets, ghosts
<1>9. CASE ReadLength
  BY <1>9, ReadLengthSockets
<1>10. CASE Handle
  BY <1>10, HandleSockets
<1>11. CASE RemoveClient
  BY <1>11, RemoveSockets
<1>12. QED
  BY <1>2, <1>3, <1>4, <1>5, <1>6, <1>7, <1>8, <1>9, <1>10, <1>11 DEF Next, Serve

LEMMA SocketInit ==
  ASSUME Init
  PROVE  SocketInv
<1>1. <<>> \in Streams /\ <<>> \in Seq(Requests) /\ FitBuffer(<<>>) /\ 0 \in Bytes
  BY EmptyStream, FitEmpty DEF Bytes
<1>2. QED
  BY <1>1 DEF Init, SocketInv, Buffers

LEMMA BoundedSeqIs ==
  ASSUME NEW S, NEW s \in Seq(S), NEW n \in Nat, Len(s) <= n
  PROVE  s \in BoundedSeq(S, n)
<1>1. Len(s) \in 0 .. n /\ s \in [1 .. Len(s) -> S]
  BY LenProperties
<1>2. QED
  BY <1>1, Zenon DEF BoundedSeq, SeqOf

LEMMA LoopTypes ==
  ASSUME ArrayInv, SocketInv
  PROVE  TypeOK
<1>1. clients \in BoundedSeq(Conn, MAX_CLIENTS) /\ backlog \in BoundedSeq(Conn, Cardinality(Conn))
  <2> DEFINE S == setting.conn
             n == Cardinality(Conn)
  <2>1. S \subseteq Conn /\ IsFiniteSet(Conn) /\ MAX_CLIENTS \in Nat
    BY LoopAssumption DEF ArrayInv
  <2>2. clients \in Seq(S) /\ backlog \in Seq(S) /\ Len(clients) <= MAX_CLIENTS
    BY DEF ArrayInv
  <2>3. Cardinality(S) <= n
    BY <2>1, FS_Subset
  <2>4. n \in Nat
    BY <2>1, FS_CardinalityType
  <2>5. /\ Cardinality(S) \in Nat /\ Len(clients) + Len(backlog) <= Cardinality(S)
        /\ Len(clients) \in Nat /\ Len(backlog) \in Nat
    BY NoMoreThanConnections
  <2> HIDE DEF n, S
  <2>6. Len(backlog) <= n
    BY <2>3, <2>4, <2>5
  <2>7. clients \in Seq(Conn) /\ backlog \in Seq(Conn)
    BY <2>1, <2>2, SeqMonotonic
  <2>8. QED
    BY <2>1, <2>2, <2>4, <2>6, <2>7, BoundedSeqIs, Zenon DEF n
<1>2. ASSUME NEW p \in Conn
      PROVE  /\ \A k \in DOMAIN stream[p] : stream[p][k] \in Bytes \cup {END}
             /\ arrived[p] => stream[p] # <<>>
  <2>1. stream[p] \in Streams
    BY DEF SocketInv
  <2>2. stream[p] \in Seq(Bytes \cup {END})
    BY <2>1, InFlightIs
  <2>3. \A k \in 1 .. Len(stream[p]) : stream[p][k] \in Bytes \cup {END}
    BY <2>2, ElementOfSeq, Zenon
  <2>4. DOMAIN stream[p] = 1 .. Len(stream[p])
    BY <2>2, LenProperties, Zenon
  <2>5. QED
    BY <2>3, <2>4 DEF SocketInv
<1>3. pc \in {"select", "body", "corrupt"} /\ (pc = "body" => current \in DOMAIN clients)
  <2>1. DOMAIN clients = 1 .. Len(clients)
    BY LenProperties DEF ArrayInv
  <2>2. QED
    BY <2>1 DEF ArrayInv
<1>4. DOMAIN buffer = 0 .. BUF_SIZE - 1 /\ \A k \in DOMAIN buffer : buffer[k] \in Bytes
  BY DEF SocketInv, Buffers
<1>5. QED
  BY <1>1, <1>2, <1>3, <1>4, Zenon DEF TypeOK

(* Every variable of the loop has its type; the backlog is never longer    *)
(* than there are connections, and a socket is readable only when there is *)
(* something to read.                                                      *)
THEOREM LoopTypeOK == Spec => []TypeOK
<1>1. Init => ArrayInv /\ SocketInv
  BY ArrayInit, SocketInit
<1>2. ArrayInv /\ SocketInv /\ [Next]_vars => ArrayInv' /\ SocketInv'
  BY ArrayNext, SocketNext
<1>3. ArrayInv /\ SocketInv => TypeOK
  BY LoopTypes
<1>4. QED
  BY <1>1, <1>2, <1>3, PTL DEF Spec

(***************************************************************************)
(* What is in flight is what was not handled yet.                          *)
(***************************************************************************)
Owed(p) ==
  IF Serving(p)
  THEN (stream[p] = <<END>> /\ unheard[p] = <<>>) \/ LengthRead(buffer, stream[p], unheard[p])
  ELSE Whole(stream[p], unheard[p])

MessageInv == \A p \in Conn : ~cut[p] => Owed(p)

LEMMA SendOwed ==
  ASSUME ArrayInv, SocketInv, MessageInv, NEW p \in Conn, NEW m \in setting.says[p], Send(p, m)
  PROVE  MessageInv'
<1>1. m \in Requests /\ m \in Messages
  BY SaysFits, OfRequest
<1>2. /\ ~ Ended(stream[p])
      /\ stream' = [stream EXCEPT ![p] = stream[p] \o FrameOf(m)]
      /\ unheard' = [unheard EXCEPT ![p] = Append(unheard[p], m)]
      /\ cut' = cut /\ buffer' = buffer /\ pc' = pc /\ current' = current /\ clients' = clients
  BY <1>1, OfRequest DEF Send
<1>3. stream \in [Conn -> Streams] /\ unheard \in [Conn -> Seq(Requests)]
  BY DEF SocketInv
<1>4. PICK t : t = stream[p] \o FrameOf(m)
  OBVIOUS
<1>5. PICK f : f = Append(unheard[p], m)
  OBVIOUS
<1>6. stream'[p] = t /\ unheard'[p] = f
  BY <1>2, <1>3, <1>4, <1>5
<1>7. SUFFICES ASSUME NEW q \in Conn, ~ cut[q] PROVE Owed(q)'
  BY <1>2 DEF MessageInv
<1>8. CASE q # p
  <2>1. stream'[q] = stream[q] /\ unheard'[q] = unheard[q]
    BY <1>2, <1>3, <1>8
  <2>2. Owed(q)
    BY <1>7 DEF MessageInv
  <2>3. QED
    BY <1>2, <2>1, <2>2 DEF Owed, Serving
<1>9. CASE q = p
  <2>1. /\ stream[p] \in Streams /\ unheard[p] \in Seq(Messages) /\ Owed(p) /\ ~ Ended(stream[p])
    BY <1>2, <1>3, <1>7, <1>9, MessagesToo DEF MessageInv
  <2>2. CASE Serving(p)
    <3>1. stream[p] # <<END>>
      <4>1. Ended(<<END>>)
        BY DEF Ended
      <4>2. QED
        BY <2>1, <4>1, Zenon
    <3>2. LengthRead(buffer, stream[p], unheard[p])
      BY <2>1, <2>2, <3>1, Zenon DEF Owed
    <3>3. LengthRead(buffer, t, f)
      BY <1>1, <1>4, <1>5, <2>1, <3>2, LengthReadMore
    <3>4. QED
      BY <1>2, <1>6, <1>9, <2>2, <3>3 DEF Owed, Serving
  <2>3. CASE ~ Serving(p)
    <3>1. Whole(stream[p], unheard[p])
      BY <2>1, <2>3, Zenon DEF Owed
    <3>2. Whole(t, f)
      BY <1>1, <1>4, <1>5, <2>1, <3>1, WholeMore
    <3>3. QED
      BY <1>2, <1>6, <1>9, <2>3, <3>2 DEF Owed, Serving
  <2>4. QED
    BY <2>2, <2>3
<1>10. QED
  BY <1>8, <1>9

LEMMA EndOwed ==
  ASSUME SocketInv, MessageInv, NEW p \in Conn, End(p)
  PROVE  MessageInv'
<1>1. /\ ~ Ended(stream[p]) /\ stream' = [stream EXCEPT ![p] = Append(stream[p], END)]
      /\ unheard' = unheard
      /\ cut' = cut /\ buffer' = buffer /\ pc' = pc /\ current' = current /\ clients' = clients
  BY DEF End, ghosts
<1>2. stream \in [Conn -> Streams] /\ unheard \in [Conn -> Seq(Requests)]
  BY DEF SocketInv
<1>3. PICK t : t = Append(stream[p], END)
  OBVIOUS
<1>4. stream'[p] = t
  BY <1>1, <1>2, <1>3
<1>5. SUFFICES ASSUME NEW q \in Conn, ~ cut[q] PROVE Owed(q)'
  BY <1>1 DEF MessageInv
<1>6. CASE q # p
  <2>1. stream'[q] = stream[q] /\ unheard'[q] = unheard[q]
    BY <1>1, <1>2, <1>6
  <2>2. Owed(q)
    BY <1>5 DEF MessageInv
  <2>3. QED
    BY <1>1, <2>1, <2>2 DEF Owed, Serving
<1>7. CASE q = p
  <2>1. /\ stream[p] \in Streams /\ unheard[p] \in Seq(Messages) /\ Owed(p) /\ ~ Ended(stream[p])
    BY <1>1, <1>2, <1>5, <1>7, MessagesToo DEF MessageInv
  <2>2. /\ Whole(stream[p], unheard[p]) => Whole(t, unheard[p])
        /\ LengthRead(buffer, stream[p], unheard[p]) => LengthRead(buffer, t, unheard[p])
    BY <1>3, <2>1, OwedEnd
  <2>3. stream[p] # <<END>>
    <3>1. Ended(<<END>>)
      BY DEF Ended
    <3>2. QED
      BY <2>1, <3>1, Zenon
  <2>4. QED
    BY <1>1, <1>4, <1>7, <2>1, <2>2, <2>3 DEF Owed, Serving
<1>8. QED
  BY <1>6, <1>7

LEMMA ReadLengthOwed ==
  ASSUME ArrayInv, SocketInv, MessageInv, ReadLength
  PROVE  MessageInv'
<1>1. PICK p : p = clients[Served]
  OBVIOUS
<1>2. p \in Conn /\ arrived[p]
  <2>1. Readable \in SUBSET Nat /\ Readable # {} /\ Readable \subseteq 1 .. Len(clients)
    BY DEF Readable, ArrayInv, ReadLength
  <2>2. Served \in Readable
    BY <2>1, MinOfNaturals DEF Served
  <2>3. QED
    BY <1>1, <2>1, <2>2, ServedConn DEF Readable
<1>3. /\ pc = "select" /\ pc' = "body" /\ current' = Served /\ clients' = clients
  BY DEF ReadLength
<1>4. PICK got \in Received(stream[p], LengthBytes) :
        /\ Takes(p, LengthBytes, got)
        /\ buffer' = Put(buffer, got)
        /\ unheard' = IF cut'[p] THEN [unheard EXCEPT ![p] = <<>>] ELSE unheard
  BY <1>1 DEF ReadLength
<1>5. LengthBytes \in Nat
  BY DEF LengthBytes
<1>6. /\ \A q \in Conn : q # p => stream'[q] = stream[q] /\ cut'[q] = cut[q]
      /\ cut'[p] = (cut[p] \/ IsShort(got, LengthBytes))
      /\ stream[p] \in Streams /\ stream[p] # <<>>
      /\ stream'[p] = Rest(stream[p], got)
  BY <1>2, <1>4, <1>5, TakesIs, Zenon
<1>7. \A q \in Conn : (~ Serving(q)) /\ (Serving(q)' <=> p = q)
  BY <1>1, <1>3 DEF Serving
<1>8. unheard \in [Conn -> Seq(Requests)] /\ buffer \in Buffers
  BY DEF SocketInv
<1>9. SUFFICES ASSUME NEW q \in Conn, ~ cut'[q] PROVE Owed(q)'
  BY DEF MessageInv
<1>10. CASE q # p
  <2>1. stream'[q] = stream[q] /\ unheard'[q] = unheard[q] /\ ~ cut[q]
    BY <1>4, <1>6, <1>8, <1>9, <1>10
  <2>2. Whole(stream[q], unheard[q])
    BY <1>7, <2>1 DEF MessageInv, Owed
  <2>3. QED
    BY <1>7, <1>10, <2>1, <2>2 DEF Owed
<1>11. CASE q = p
  <2>1. ~ cut[p] /\ ~ IsShort(got, LengthBytes) /\ unheard' = unheard
    BY <1>4, <1>6, <1>9, <1>11
  <2>2. Whole(stream[p], unheard[p])
    BY <1>2, <1>7, <2>1 DEF MessageInv, Owed
  <2>3. PICK t : t = Rest(stream[p], got)
    OBVIOUS
  <2>4. (t = <<END>> /\ unheard[p] = <<>>) \/ LengthRead(Put(buffer, got), t, unheard[p])
    <3>1. unheard[p] \in Seq(Messages)
      BY <1>2, <1>8, MessagesToo
    <3>2. PICK b : b = Put(buffer, got)
      OBVIOUS
    <3>3. LengthBytes \in Nat
      BY DEF LengthBytes
    <3>4. Len(got) \in Nat /\ \A j \in 1 .. Len(got) : got[j] \in Bytes
      BY <1>4, <1>6, <3>3, ReceivedLength, ReceivedStream, Zenon
    <3>5. \A j \in 1 .. Len(got) : j <= BUF_SIZE => b[j - 1] = got[j]
      BY <1>8, <3>2, <3>4, PutIs, Zenon
    <3>6. QED
      BY <1>4, <1>6, <2>1, <2>2, <2>3, <3>1, <3>2, <3>5, LengthIsRead, Zenon
  <2>5. QED
    BY <1>4, <1>6, <1>7, <1>11, <2>1, <2>3, <2>4 DEF Owed
<1>12. QED
  BY <1>10, <1>11

LEMMA HandleIs ==
  ASSUME ArrayInv, SocketInv, MessageInv, Handle, NEW p, p = clients[current]
  PROVE  /\ p \in Conn
         /\ \A q \in Conn : q # p => /\ stream'[q] = stream[q] /\ cut'[q] = cut[q]
                                     /\ unheard'[q] = unheard[q]
         /\ ~ cut'[p] => /\ unheard[p] # <<>>
                         /\ ReadRequest(buffer') = Head(unheard[p])
                         /\ Whole(stream'[p], unheard'[p])
<1>1. p \in Conn /\ arrived[p] /\ pc = "body"
  BY ServedConn DEF ArrayInv, Handle
<1>2. PICK size : size = SizeIn(buffer)
  OBVIOUS
<1>3. size \in Nat /\ buffer \in Buffers
  BY <1>2, SizeInNat DEF SocketInv
<1>4. PICK got \in Received(stream[p], size) :
        /\ got # <<>> /\ Takes(p, size, got)
        /\ buffer' = Terminate(Put(buffer, got), Len(got))
  BY <1>2 DEF Handle
<1>5. /\ \A q \in Conn : q # p => stream'[q] = stream[q] /\ cut'[q] = cut[q]
      /\ cut'[p] = (cut[p] \/ IsShort(got, size))
      /\ stream[p] \in Streams /\ stream[p] # <<>>
      /\ stream'[p] = Rest(stream[p], got)
  <2>1. p \in Conn /\ arrived[p] /\ size \in Nat /\ Takes(p, size, got)
    BY <1>1, <1>3, <1>4, Zenon
  <2>2. QED
    BY <2>1, TakesIs
<1>6. /\ unheard' = [unheard EXCEPT ![p] = IF cut'[p] \/ unheard[p] = <<>> THEN <<>>
                                           ELSE Tail(unheard[p])]
      /\ unheard \in [Conn -> Seq(Requests)]
  BY DEF Handle, SocketInv
<1>7. \A q \in Conn : q # p => unheard'[q] = unheard[q]
  BY <1>6
<1>8. ASSUME ~ cut'[p]
      PROVE  /\ unheard[p] # <<>>
             /\ ReadRequest(buffer') = Head(unheard[p])
             /\ Whole(stream'[p], unheard'[p])
  <2>1. ~ cut[p] /\ ~ IsShort(got, size)
    BY <1>5, <1>8
  <2>2. Serving(p)
    BY <1>1 DEF Serving
  <2>3. \/ stream[p] = <<END>>
        \/ LengthRead(buffer, stream[p], unheard[p])
    BY <1>1, <2>1, <2>2 DEF MessageInv, Owed
  <2>4. stream[p] # <<END>>
    <3>1. SUFFICES ASSUME stream[p] = <<END>> PROVE FALSE
      OBVIOUS
    <3>2. Head(stream[p]) = END
      BY <3>1
    <3>3. Len(got) = 0 /\ got = SubSeq(stream[p], 1, Len(got))
      BY <1>3, <1>5, <3>2, ReceivedLength
    <3>4. got = <<>>
      BY <3>1, <3>3
    <3>5. QED
      BY <1>4, <3>4
  <2>5. LengthRead(buffer, stream[p], unheard[p])
    BY <2>3, <2>4, Zenon
  <2>6. /\ unheard[p] \in Seq(Requests) /\ unheard[p] \in Seq(Messages)
        /\ FitBuffer(unheard[p])
    BY <1>1, <1>6, MessagesToo DEF SocketInv
  <2>7. /\ unheard[p] # <<>> /\ Whole(stream'[p], Tail(unheard[p]))
        /\ Holds(buffer', Head(unheard[p]))
    BY <1>2, <1>3, <1>4, <1>5, <2>1, <2>5, <2>6, NextIsHandled
  <2>8. unheard'[p] = Tail(unheard[p])
    BY <1>1, <1>6, <1>8, <2>7
  <2>9. Head(unheard[p]) \in Requests
    BY <2>6, <2>7
  <2>10. ReadRequest(buffer') = Head(unheard[p])
    BY <2>7, <2>9, RequestHeld, Zenon
  <2>11. QED
    BY <2>7, <2>8, <2>10, Zenon
<1>9. QED
  BY <1>1, <1>5, <1>7, <1>8, Zenon

LEMMA RemovedIs ==
  ASSUME ArrayInv, SocketInv, MessageInv, RemoveClient, NEW p, p = clients[current]
  PROVE  p \in Conn /\ (~ cut[p] => stream[p] = <<END>> /\ unheard[p] = <<>>)
<1>1. p \in Conn /\ arrived[p] /\ pc = "body" /\ (SizeIn(buffer) = 0 \/ Head(stream[p]) = END)
  BY ServedConn DEF ArrayInv, RemoveClient
<1>2. SUFFICES ASSUME ~ cut[p] PROVE stream[p] = <<END>> /\ unheard[p] = <<>>
  BY <1>1
<1>3. Serving(p)
  BY <1>1 DEF Serving
<1>4. \/ stream[p] = <<END>> /\ unheard[p] = <<>>
      \/ LengthRead(buffer, stream[p], unheard[p])
  BY <1>1, <1>2, <1>3 DEF MessageInv, Owed
<1>5. stream[p] \in Streams /\ stream[p] # <<>>
  BY <1>1 DEF SocketInv
<1>6. unheard[p] \in Seq(Messages) /\ FitBuffer(unheard[p])
  BY <1>1, MessagesToo DEF SocketInv
<1>7. ~ LengthRead(buffer, stream[p], unheard[p])
  BY <1>1, <1>5, <1>6, NotTheEnd, Zenon
<1>8. QED
  BY <1>4, <1>7, Zenon

LEMMA MessageNext ==
  ASSUME ArrayInv, SocketInv, MessageInv, [Next]_vars
  PROVE  MessageInv'
<1> DEFINE kept == <<stream, cut, unheard, buffer, pc, current>>
<1>1. ASSUME UNCHANGED kept, clients' = clients PROVE MessageInv'
  BY <1>1 DEF MessageInv, Owed, Serving
<1>2. CASE UNCHANGED vars
  BY <1>1, <1>2 DEF vars, sockets, ghosts
<1>3. ASSUME NEW p \in Conn, Connect(p) PROVE MessageInv'
  BY <1>1, <1>3 DEF Connect, sockets, ghosts
<1>4. ASSUME NEW p \in Conn, NEW m \in setting.says[p], Send(p, m) PROVE MessageInv'
  BY <1>4, SendOwed
<1>5. ASSUME NEW p \in Conn, End(p) PROVE MessageInv'
  BY <1>5, EndOwed
<1>6. ASSUME NEW p \in Conn, Arrive(p) PROVE MessageInv'
  BY <1>1, <1>6 DEF Arrive, ghosts
<1>7. CASE Accept
  BY <1>7 DEF Accept, sockets, ghosts, MessageInv, Owed, Serving
<1>8. CASE AcceptOutOfBounds
  BY <1>8 DEF AcceptOutOfBounds, sockets, ghosts, MessageInv, Owed, Serving
<1>9. CASE ReadLength
  BY <1>9, ReadLengthOwed
<1>10. CASE Handle
  <2>1. PICK p : p = clients[current]
    OBVIOUS
  <2>2. /\ p \in Conn
        /\ \A q \in Conn : q # p => /\ stream'[q] = stream[q] /\ cut'[q] = cut[q]
                                    /\ unheard'[q] = unheard[q]
        /\ ~ cut'[p] => Whole(stream'[p], unheard'[p])
    BY <1>10, <2>1, HandleIs
  <2>3. pc = "body" /\ pc' = "select"
    BY <1>10 DEF Handle
  <2>4. ASSUME NEW q \in Conn, ~ cut'[q] PROVE Whole(stream'[q], unheard'[q])
    <3>1. CASE q = p
      BY <2>2, <2>4, <3>1, Zenon
    <3>2. CASE q # p
      <4>1. Whole(stream[q], unheard[q])
        BY <2>1, <2>2, <2>4, <3>2 DEF MessageInv, Owed, Serving
      <4>2. QED
        BY <2>2, <3>2, <4>1
    <3>3. QED
      BY <3>1, <3>2
  <2>5. QED
    BY <2>3, <2>4 DEF MessageInv, Owed, Serving
<1>11. CASE RemoveClient
  <2>1. PICK p : p = clients[current]
    OBVIOUS
  <2>2. p \in Conn
    BY <1>11, <2>1, RemovedIs
  <2>3. /\ pc = "body" /\ pc' = "select"
        /\ stream' = [stream EXCEPT ![p] = <<>>] /\ unheard' = [unheard EXCEPT ![p] = <<>>]
        /\ cut' = [cut EXCEPT ![p] = FALSE]
    BY <1>11, <2>1 DEF RemoveClient
  <2>4. stream \in [Conn -> Streams] /\ unheard \in [Conn -> Seq(Requests)]
        /\ cut \in [Conn -> BOOLEAN]
    BY DEF SocketInv
  <2>5. Whole(<<>>, <<>>)
    BY EmptyStream, CarriesNothing, Zenon DEF Whole
  <2>6. ASSUME NEW q \in Conn, ~ cut'[q] PROVE Whole(stream'[q], unheard'[q])
    <3>1. CASE q = p
      BY <2>2, <2>3, <2>4, <2>5, <3>1
    <3>2. CASE q # p
      <4>1. stream'[q] = stream[q] /\ unheard'[q] = unheard[q] /\ cut'[q] = cut[q]
        BY <2>3, <2>4, <3>2
      <4>2. Whole(stream[q], unheard[q])
        BY <2>1, <2>6, <3>2, <4>1 DEF MessageInv, Owed, Serving
      <4>3. QED
        BY <4>1, <4>2
    <3>3. QED
      BY <3>1, <3>2
  <2>7. QED
    BY <2>3, <2>6 DEF MessageInv, Owed, Serving
<1>12. QED
  BY <1>2, <1>3, <1>4, <1>5, <1>6, <1>7, <1>8, <1>9, <1>10, <1>11 DEF Next, Serve

LoopInv == ArrayInv /\ SocketInv /\ MessageInv

LEMMA LoopInit ==
  ASSUME Init
  PROVE  LoopInv
<1>1. Whole(<<>>, <<>>)
  BY EmptyStream, CarriesNothing, Zenon DEF Whole
<1>2. MessageInv
  BY <1>1 DEF Init, MessageInv, Owed, Serving
<1>3. QED
  BY <1>2, ArrayInit, SocketInit DEF LoopInv

LEMMA LoopNext ==
  ASSUME LoopInv, [Next]_vars
  PROVE  LoopInv'
BY ArrayNext, SocketNext, MessageNext DEF LoopInv

(* Whoever leaves the array is the one that was served.                    *)
LEMMA OnlyServedRemoved ==
  ASSUME ArrayInv, [Next]_vars, NEW p \in Conn, Removed(p)
  PROVE  RemoveClient /\ p = clients[current]
<1>1. InArray(p) /\ ~ Contains(clients', p)
  BY DEF Removed
<1>2. clients \in Seq(setting.conn)
  BY DEF ArrayInv
<1>3. PICK i \in 1 .. Len(clients) : clients[i] = p
  BY <1>1 DEF InArray, Contains
<1>4. clients' # clients
  BY <1>1 DEF InArray
<1>5. ~ Accept
  <2>1. SUFFICES ASSUME Accept PROVE FALSE
    OBVIOUS
  <2>2. PICK x : x = Head(backlog)
    OBVIOUS
  <2>3. clients' = Append(clients, x)
    BY <2>1, <2>2 DEF Accept
  <2>4. i \in 1 .. Len(clients') /\ clients'[i] = p
    BY <1>2, <1>3, <2>3
  <2>5. QED
    BY <1>1, <2>4 DEF Contains
<1>6. RemoveClient
  BY <1>4, <1>5 DEF Next, Serve, vars, Connect, Send, End, Arrive, AcceptOutOfBounds, ReadLength,
                    Handle
<1>7. p = clients[current]
  <2>1. SUFFICES ASSUME i # current PROVE FALSE
    BY <1>3
  <2>2. current \in 1 .. Len(clients) /\ clients' = RemoveAt(clients, current)
    BY <1>6 DEF RemoveClient, Without, ArrayInv
  <2>3. PICK t : t = clients'
    OBVIOUS
  <2>4. /\ t \in Seq(setting.conn) /\ Len(t) = Len(clients) - 1
        /\ \A k \in 1 .. Len(clients) - 1 :
             t[k] = clients[IF k < current THEN k ELSE k + 1]
    <3>1. /\ clients \in Seq(setting.conn) /\ current \in 1 .. Len(clients)
          /\ t = RemoveAt(clients, current)
      BY <1>2, <2>2, <2>3
    <3>2. IsWithout(t, clients, current, setting.conn)
      BY <3>1, RemoveIs
    <3>3. QED
      BY <3>2 DEF IsWithout
  <2> DEFINE k == IF i < current THEN i ELSE i - 1
  <2>5. /\ k \in 1 .. Len(clients) - 1 /\ (IF k < current THEN k ELSE k + 1) = i
    BY <1>2, <2>1, <2>2, LenProperties
  <2> HIDE DEF k
  <2>6. t[k] = p /\ k \in 1 .. Len(t)
    BY <1>3, <2>4, <2>5
  <2>7. QED
    BY <1>1, <2>3, <2>6 DEF Contains
<1>8. QED
  BY <1>6, <1>7

(* Messages from many clients go through one buffer in two reads each:     *)
(* every message handled is the next its client sent, field by field.      *)
THEOREM MessagesInOrder == Spec => HandledAsSent
<1> DEFINE Step == \A p \in Conn : Handled(p) /\ ~cut'[p] =>
                     unheard[p] # <<>> /\ ReadRequest(buffer') = Head(unheard[p])
<1>1. Init => LoopInv
  BY LoopInit
<1>2. LoopInv /\ [Next]_vars => LoopInv'
  BY LoopNext
<1>3. LoopInv /\ [Next]_vars => Step
  <2>1. SUFFICES ASSUME LoopInv, [Next]_vars, NEW p \in Conn, Handled(p), ~ cut'[p]
                 PROVE  unheard[p] # <<>> /\ ReadRequest(buffer') = Head(unheard[p])
    OBVIOUS
  <2>2. /\ pc = "body" /\ pc' = "select" /\ clients[current] = p
        /\ Len(clients') = Len(clients)
    BY <2>1 DEF Handled
  <2>3. ~ RemoveClient
    <3>1. SUFFICES ASSUME RemoveClient PROVE FALSE
      OBVIOUS
    <3>2. /\ current \in 1 .. Len(clients) /\ clients' = RemoveAt(clients, current)
          /\ clients \in Seq(setting.conn)
      BY <2>1, <3>1 DEF RemoveClient, Without, ArrayInv, LoopInv
    <3>3. Len(RemoveAt(clients, current)) = Len(clients) - 1 /\ Len(clients) \in Nat
      BY <3>2, RemoveIs, LenProperties DEF IsWithout
    <3>4. QED
      BY <2>2, <3>2, <3>3
  <2>4. Handle
    BY <2>1, <2>2, <2>3 DEF Next, Serve, vars, Connect, Send, End, Arrive, Accept,
                            AcceptOutOfBounds, ReadLength
  <2>5. QED
    BY <2>1, <2>2, <2>4, HandleIs DEF LoopInv
<1>4. QED
  BY <1>1, <1>2, <1>3, PTL DEF Spec, HandledAsSent

(* A client is removed only when its process is gone and everything it had *)
(* sent was handled.                                                       *)
THEOREM NothingLostAtRemoval == Spec => RemovedWhenDone
<1> DEFINE Step == \A p \in Conn : Removed(p) /\ ~cut[p] => stream[p] = <<END>> /\ unheard[p] = <<>>
<1>1. Init => LoopInv
  BY LoopInit
<1>2. LoopInv /\ [Next]_vars => LoopInv'
  BY LoopNext
<1>3. LoopInv /\ [Next]_vars => Step
  <2>1. SUFFICES ASSUME LoopInv, [Next]_vars, NEW p \in Conn, Removed(p), ~ cut[p]
                 PROVE  stream[p] = <<END>> /\ unheard[p] = <<>>
    OBVIOUS
  <2>2. RemoveClient /\ p = clients[current]
    BY <2>1, OnlyServedRemoved DEF LoopInv
  <2>3. QED
    BY <2>1, <2>2, RemovedIs DEF LoopInv
<1>4. QED
  BY <1>1, <1>2, <1>3, PTL DEF Spec, RemovedWhenDone
=============================================================================
