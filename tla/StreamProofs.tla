---------------------------- MODULE StreamProofs ----------------------------
(***************************************************************************)
(* Proofs about a connection as its reader sees it: which messages the     *)
(* bytes on it are, and what a recv leaves of them.                        *)
(***************************************************************************)
EXTENDS Stream, CodecProofs

(* A message of either direction: its frame, how long it is and its bytes. *)
Messages == Requests \cup Replies

ContentOf(m)    == IF m \in Requests THEN BodyOf(m) ELSE ReplyBody(m)
FrameOf(m)      == IF m \in Requests THEN RequestBytes(m) ELSE ReplyBytes(m)
FrameLen(m)     == Len(FrameOf(m))
FrameByte(m, j) == FrameOf(m)[j]

(* The first n elements of s are the frames of f, one after the other: c   *)
(* tells where each of them ends.                                          *)
Offsets(c, n, f) ==
  /\ c \in [0 .. Len(f) -> Nat] /\ c[0] = 0 /\ c[Len(f)] = n
  /\ \A k \in 1 .. Len(f) : c[k] = c[k - 1] + FrameLen(f[k])
  /\ \A i, k \in 0 .. Len(f) : i <= k => c[i] <= c[k]

FramesAt(c, s, f) ==
  \A k \in 1 .. Len(f) : \A j \in 1 .. FrameLen(f[k]) : s[c[k - 1] + j] = FrameByte(f[k], j)

Carries(s, n, f) == \E c : Offsets(c, n, f) /\ FramesAt(c, s, f)

LEMMA OfRequest ==
  ASSUME NEW m \in Requests
  PROVE  m \in Messages /\ ContentOf(m) = BodyOf(m) /\ FrameOf(m) = RequestBytes(m)
BY DEF Messages, ContentOf, FrameOf

LEMMA OfReply ==
  ASSUME NEW m \in Replies
  PROVE  m \in Messages /\ ContentOf(m) = ReplyBody(m) /\ FrameOf(m) = ReplyBytes(m)
<1>1. m \notin Requests
  <2>1. m.type \in DOMAIN ServerClientProtocol
    BY ReplyKinds, Zenon
  <2>2. \A r \in Requests : r.type \in DOMAIN ClientServerProtocol
    BY DEF Requests, ClientServerProtocol
  <2>3. DOMAIN ServerClientProtocol \cap DOMAIN ClientServerProtocol = {}
    BY DEF ServerClientProtocol, ClientServerProtocol
  <2>4. QED
    BY <2>1, <2>2, <2>3
<1>2. QED
  BY <1>1 DEF Messages, ContentOf, FrameOf

LEMMA MessagesToo == Seq(Requests) \subseteq Seq(Messages) /\ Seq(Replies) \subseteq Seq(Messages)
<1>1. Requests \subseteq Messages /\ Replies \subseteq Messages
  BY DEF Messages
<1>2. QED
  BY <1>1, SeqMonotonic

LEMMA FrameOfIs ==
  ASSUME NEW m \in Messages
  PROVE  /\ ContentOf(m) \in Seq(Bytes) /\ Len(ContentOf(m)) >= 1
         /\ FrameOf(m) = Frame(Len(ContentOf(m)), ContentOf(m))
<1>1. CASE m \in Requests
  BY <1>1, OfRequest, RequestBytesIs, Zenon
<1>2. CASE m \in Replies
  BY <1>2, OfReply, ReplyBytesIs, Zenon
<1>3. QED
  BY <1>1, <1>2 DEF Messages

LEMMA FrameLenIs ==
  ASSUME NEW m \in Messages
  PROVE  /\ FrameLen(m) \in Nat /\ FrameLen(m) >= 3
         /\ Len(ContentOf(m)) \in Nat /\ Len(ContentOf(m)) = FrameLen(m) - 2
         /\ Fits(Len(ContentOf(m))) => SizeOf(FrameOf(m)) = Len(ContentOf(m))
         /\ LiesAt(FrameOf(m), 2, ContentOf(m))
         /\ \A j \in 1 .. FrameLen(m) : FrameByte(m, j) \in Bytes
<1> DEFINE body == ContentOf(m)
           n    == Len(body)
           f    == FrameOf(m)
<1>1. body \in Seq(Bytes) /\ n >= 1 /\ n = Len(body) /\ f = Frame(n, body)
  BY FrameOfIs, Zenon
<1> HIDE DEF body, n, f
<1>2. /\ f \in Seq(Bytes) /\ n \in Nat /\ Len(f) = 2 + n
      /\ Fits(n) => SizeOf(f) = n
      /\ LiesAt(f, 2, body)
  BY <1>1, FrameIs, Zenon
<1>3. \A j \in 1 .. Len(f) : f[j] \in Bytes
  BY <1>2, ElementOfSeq, Zenon
<1>4. Len(f) \in Nat /\ Len(f) >= 3 /\ n = Len(f) - 2
  BY <1>1, <1>2
<1>5. QED
  BY <1>2, <1>3, <1>4, Zenon DEF body, n, f, FrameLen, FrameByte

(***************************************************************************)
(* Carries.                                                                *)
(***************************************************************************)
LEMMA CarriesNothing == ASSUME NEW s PROVE Carries(s, 0, <<>>)
<1> DEFINE c == [k \in 0 .. 0 |-> 0]
<1>1. Offsets(c, 0, <<>>) /\ FramesAt(c, s, <<>>)
  BY DEF Offsets, FramesAt
<1>2. QED
  BY <1>1, Zenon DEF Carries

LEMMA OffsetsAt ==
  ASSUME NEW c, NEW n, NEW f \in Seq(Messages), Offsets(c, n, f), NEW k \in 1 .. Len(f)
  PROVE  /\ c[k - 1] \in Nat /\ c[k] \in Nat /\ n \in Nat
         /\ c[k] = c[k - 1] + FrameLen(f[k]) /\ c[k] <= n
<1>1. /\ Len(f) \in Nat /\ k - 1 \in 0 .. Len(f) /\ k \in 0 .. Len(f) /\ k <= Len(f)
      /\ Len(f) \in 0 .. Len(f)
  BY LenProperties
<1>2. c \in [0 .. Len(f) -> Nat] /\ c[Len(f)] = n
  BY DEF Offsets
<1>3. c[k - 1] \in Nat /\ c[k] \in Nat /\ n \in Nat
  BY <1>1, <1>2
<1>4. c[k] = c[k - 1] + FrameLen(f[k])
  BY DEF Offsets
<1>5. c[k] <= c[Len(f)]
  BY <1>1, Zenon DEF Offsets
<1>6. QED
  BY <1>2, <1>3, <1>4, <1>5, Zenon

(* Only what is there matters.                                             *)
LEMMA CarriesSame ==
  ASSUME NEW s, NEW t, NEW n, NEW f \in Seq(Messages), Carries(s, n, f),
         \A j \in 1 .. n : t[j] = s[j]
  PROVE  Carries(t, n, f)
<1>1. PICK c : Offsets(c, n, f) /\ FramesAt(c, s, f)
  BY DEF Carries
<1>2. ASSUME NEW k \in 1 .. Len(f), NEW j \in 1 .. FrameLen(f[k])
      PROVE  t[c[k - 1] + j] = FrameByte(f[k], j)
  <2>1. f[k] \in Messages /\ FrameLen(f[k]) \in Nat
    BY ElementOfSeq, FrameLenIs
  <2>2. /\ c[k - 1] \in Nat /\ c[k] \in Nat /\ n \in Nat
        /\ c[k] = c[k - 1] + FrameLen(f[k]) /\ c[k] <= n
    BY <1>1, OffsetsAt, Zenon
  <2>4. c[k - 1] + j \in 1 .. n
    BY <2>1, <2>2
  <2>5. QED
    BY <1>1, <2>4 DEF FramesAt
<1>3. FramesAt(c, t, f)
  BY <1>2 DEF FramesAt
<1>4. QED
  BY <1>1, <1>3, Zenon DEF Carries

(* Nothing is carried by nothing, and the other way round.                 *)
LEMMA CarriesLength ==
  ASSUME NEW s, NEW n, NEW f \in Seq(Messages), Carries(s, n, f)
  PROVE  n \in Nat /\ (n = 0 <=> f = <<>>)
<1>1. PICK c : Offsets(c, n, f)
  BY DEF Carries
<1>2. Len(f) \in Nat /\ (Len(f) = 0 <=> f = <<>>)
  BY LenProperties, EmptySeq
<1>3. n \in Nat /\ (Len(f) = 0 => n = 0)
  BY <1>1, <1>2 DEF Offsets
<1>4. ASSUME Len(f) # 0 PROVE n # 0
  <2>1. 1 \in 1 .. Len(f) /\ f[1] \in Messages
    BY <1>2, <1>4, ElementOfSeq
  <2>2. FrameLen(f[1]) \in Nat /\ FrameLen(f[1]) >= 3
    BY <2>1, FrameLenIs
  <2>3. c[1] = c[0] + FrameLen(f[1]) /\ c[0] = 0 /\ c[1] <= c[Len(f)] /\ c[Len(f)] = n
    BY <1>1, <1>2, <2>1 DEF Offsets
  <2>4. QED
    BY <1>3, <2>2, <2>3
<1>5. QED
  BY <1>2, <1>3, <1>4, Zenon

(* One more frame after the others.                                        *)
LEMMA CarriesMore ==
  ASSUME NEW s, NEW t, NEW n, NEW f \in Seq(Messages), NEW m \in Messages, Carries(s, n, f),
         \A j \in 1 .. n : t[j] = s[j],
         \A j \in 1 .. FrameLen(m) : t[n + j] = FrameByte(m, j)
  PROVE  Carries(t, n + FrameLen(m), Append(f, m))
<1>1. PICK c : Offsets(c, n, f) /\ FramesAt(c, s, f)
  BY DEF Carries
<1>2. n \in Nat /\ FrameLen(m) \in Nat
  BY CarriesLength, FrameLenIs
<1> DEFINE g == Append(f, m)
           l == Len(f)
           d == [k \in 0 .. l + 1 |-> IF k <= l THEN c[k] ELSE n + FrameLen(m)]
<1>3. /\ l \in Nat /\ g \in Seq(Messages) /\ Len(g) = l + 1 /\ g[l + 1] = m
      /\ \A k \in 1 .. l : g[k] = f[k]
  OBVIOUS
<1> HIDE DEF g
<1>4. \A k \in 1 .. l : /\ c[k - 1] \in Nat /\ c[k] \in Nat
                        /\ c[k] = c[k - 1] + FrameLen(f[k]) /\ c[k] <= n
  BY <1>1, OffsetsAt, Zenon
<1>5. /\ c \in [0 .. l -> Nat] /\ c[0] = 0 /\ c[l] = n
      /\ \A i, k \in 0 .. l : i <= k => c[i] <= c[k]
  BY <1>1 DEF Offsets
<1> HIDE DEF l
<1>6. Offsets(d, n + FrameLen(m), g)
  <2>1. d \in [0 .. Len(g) -> Nat] /\ d[0] = 0 /\ d[Len(g)] = n + FrameLen(m)
    BY <1>2, <1>3, <1>5
  <2>2. ASSUME NEW k \in 1 .. Len(g) PROVE d[k] = d[k - 1] + FrameLen(g[k])
    BY <1>2, <1>3, <1>4, <1>5
  <2>3. ASSUME NEW i \in 0 .. Len(g), NEW k \in 0 .. Len(g), i <= k PROVE d[i] <= d[k]
    <3>1. CASE k <= l
      BY <1>3, <1>5, <2>3, <3>1
    <3>2. CASE k > l /\ i <= l
      <4>1. i \in 0 .. l /\ l \in 0 .. l /\ c[i] <= c[l] /\ c[i] \in Nat
        BY <1>3, <1>5, <3>2
      <4>2. QED
        BY <1>2, <1>3, <1>5, <3>2, <4>1
    <3>3. CASE i > l
      BY <1>2, <1>3, <2>3, <3>3
    <3>4. QED
      BY <1>3, <3>1, <3>2, <3>3
  <2>4. QED
    BY <2>1, <2>2, <2>3 DEF Offsets
<1>7. FramesAt(d, t, g)
  <2>1. ASSUME NEW k \in 1 .. l, NEW j \in 1 .. FrameLen(g[k])
        PROVE  t[d[k - 1] + j] = FrameByte(g[k], j)
    <3>1. g[k] = f[k] /\ f[k] \in Messages /\ d[k - 1] = c[k - 1]
      BY <1>3, ElementOfSeq DEF l
    <3>2. FrameLen(f[k]) \in Nat /\ j \in 1 .. FrameLen(f[k])
      BY <3>1, FrameLenIs
    <3>3. /\ c[k - 1] \in Nat /\ c[k] \in Nat /\ c[k] <= n
          /\ c[k] = c[k - 1] + FrameLen(f[k])
      BY <1>4, Zenon
    <3>4. c[k - 1] + j \in 1 .. n
      BY <1>2, <3>2, <3>3
    <3>5. s[c[k - 1] + j] = FrameByte(f[k], j)
      BY <1>1, <3>1 DEF FramesAt, l
    <3>6. QED
      BY <3>1, <3>4, <3>5
  <2>2. d[l] = n
    BY <1>3, <1>5
  <2>3. ASSUME NEW k \in 1 .. Len(g), NEW j \in 1 .. FrameLen(g[k])
        PROVE  t[d[k - 1] + j] = FrameByte(g[k], j)
    <3>1. CASE k <= l
      <4>1. k \in 1 .. l
        BY <1>3, <3>1
      <4>2. QED
        BY <2>1, <4>1
    <3>2. CASE k = l + 1
      <4>1. g[k] = m /\ k - 1 = l
        BY <1>3, <3>2
      <4>2. t[n + j] = FrameByte(m, j) /\ d[k - 1] = n
        BY <2>2, <4>1
      <4>3. QED
        BY <4>1, <4>2, Zenon
    <3>3. QED
      BY <1>3, <3>1, <3>2
  <2>4. QED
    BY <2>3 DEF FramesAt
<1>8. QED
  BY <1>6, <1>7, Zenon DEF Carries, g

(* The first frame is the first message, and the others follow it.         *)
LEMMA CarriesFirst ==
  ASSUME NEW s, NEW t, NEW n, NEW f \in Seq(Messages), f # <<>>, Carries(s, n, f),
         NEW m, m = Head(f),
         \A j \in 1 .. n - FrameLen(m) : t[j] = s[FrameLen(m) + j]
  PROVE  /\ m \in Messages /\ n \in Nat /\ FrameLen(m) <= n
         /\ \A j \in 1 .. FrameLen(m) : s[j] = FrameByte(m, j)
         /\ Tail(f) \in Seq(Messages) /\ Carries(t, n - FrameLen(m), Tail(f))
<1>1. PICK c : Offsets(c, n, f) /\ FramesAt(c, s, f)
  BY DEF Carries
<1> DEFINE g == Tail(f)
           l == Len(f)
           d == [k \in 0 .. l - 1 |-> c[k + 1] - c[1]]
<1>2. /\ l \in Nat /\ l >= 1 /\ g \in Seq(Messages) /\ Len(g) = l - 1 /\ m = f[1]
      /\ m \in Messages /\ \A k \in 1 .. l - 1 : g[k] = f[k + 1]
  OBVIOUS
<1> HIDE DEF g
<1>3. \A k \in 1 .. l : /\ c[k - 1] \in Nat /\ c[k] \in Nat
                        /\ c[k] = c[k - 1] + FrameLen(f[k]) /\ c[k] <= n
  BY <1>1, OffsetsAt, Zenon
<1>4. /\ c \in [0 .. l -> Nat] /\ c[0] = 0 /\ c[l] = n
      /\ \A i, k \in 0 .. l : i <= k => c[i] <= c[k]
  BY <1>1 DEF Offsets
<1>5. n \in Nat /\ FrameLen(m) \in Nat
  BY <1>2, CarriesLength, FrameLenIs
<1> HIDE DEF l
<1>6. 1 \in 1 .. l /\ 1 - 1 = 0
  BY <1>2
<1>7. c[1] = FrameLen(m) /\ FrameLen(m) <= n
  BY <1>2, <1>3, <1>4, <1>5, <1>6
<1>8. ASSUME NEW j \in 1 .. FrameLen(m) PROVE s[j] = FrameByte(m, j)
  <2>1. s[c[1 - 1] + j] = FrameByte(f[1], j)
    BY <1>1, <1>2, <1>6 DEF FramesAt, l
  <2>2. c[1 - 1] + j = j
    BY <1>4, <1>6
  <2>3. QED
    BY <1>2, <2>1, <2>2
<1>9. Offsets(d, n - FrameLen(m), g)
  <2>1. \A k \in 0 .. l - 1 : c[k + 1] \in Nat /\ c[k + 1] >= c[1]
    BY <1>2, <1>4
  <2>2. d \in [0 .. Len(g) -> Nat] /\ d[0] = 0 /\ d[Len(g)] = n - FrameLen(m)
    <3>1. \A k \in 0 .. l - 1 : c[k + 1] - c[1] \in Nat
      BY <1>5, <1>7, <2>1
    <3>2. c[0 + 1] - c[1] = 0 /\ c[(l - 1) + 1] - c[1] = n - FrameLen(m)
      BY <1>2, <1>4, <1>5, <1>7
    <3>3. QED
      BY <1>2, <3>1, <3>2
  <2>3. ASSUME NEW k \in 1 .. Len(g) PROVE d[k] = d[k - 1] + FrameLen(g[k])
    <3>1. /\ k \in 0 .. l - 1 /\ k - 1 \in 0 .. l - 1 /\ k + 1 \in 1 .. l /\ (k + 1) - 1 = k
          /\ (k - 1) + 1 = k /\ k \in 1 .. l /\ g[k] = f[k + 1]
      <4>1. k \in 1 .. l - 1 /\ g[k] = f[k + 1]
        BY <1>2
      <4>2. QED
        BY <1>2, <4>1
    <3>2. c[k + 1] = c[k] + FrameLen(g[k]) /\ c[k + 1] \in Nat /\ c[k] \in Nat
      BY <1>3, <3>1
    <3>3. f[k + 1] \in Messages
      BY <3>1, ElementOfSeq DEF l
    <3>4. FrameLen(g[k]) \in Nat
      BY <3>1, <3>3, FrameLenIs
    <3>5. d[k] = c[k + 1] - c[1] /\ d[k - 1] = c[k] - c[1]
      BY <3>1
    <3>6. QED
      BY <1>5, <1>7, <3>2, <3>4, <3>5
  <2>4. ASSUME NEW i \in 0 .. Len(g), NEW k \in 0 .. Len(g), i <= k PROVE d[i] <= d[k]
    <3>1. i + 1 \in 0 .. l /\ k + 1 \in 0 .. l /\ i + 1 <= k + 1
      BY <1>2, <2>4
    <3>2. c[i + 1] <= c[k + 1] /\ c[i + 1] \in Nat /\ c[k + 1] \in Nat
      BY <1>4, <3>1
    <3>3. d[i] = c[i + 1] - c[1] /\ d[k] = c[k + 1] - c[1]
      BY <1>2
    <3>4. QED
      BY <1>5, <1>7, <3>2, <3>3
  <2>5. QED
    BY <2>2, <2>3, <2>4 DEF Offsets
<1>10. FramesAt(d, t, g)
  <2>1. ASSUME NEW k \in 1 .. Len(g), NEW j \in 1 .. FrameLen(g[k])
        PROVE  t[d[k - 1] + j] = FrameByte(g[k], j)
    <3>1. /\ k - 1 \in 0 .. l - 1 /\ k + 1 \in 1 .. l /\ (k + 1) - 1 = k /\ (k - 1) + 1 = k
          /\ 1 \in 0 .. l /\ k \in 0 .. l /\ 1 <= k
      <4>1. k \in 1 .. l - 1
        BY <1>2
      <4>2. QED
        BY <1>2, <4>1
    <3>2. g[k] = f[k + 1]
      BY <1>2, Zenon
    <3>3. f[k + 1] \in Messages
      BY <3>1, ElementOfSeq DEF l
    <3>4. FrameLen(f[k + 1]) \in Nat
      BY <3>3, FrameLenIs
    <3>5. c[k + 1] = c[k] + FrameLen(f[k + 1]) /\ c[k + 1] <= n /\ c[k] \in Nat
      BY <1>3, <3>1
    <3>6. c[1] <= c[k]
      BY <1>4, <3>1
    <3>7. d[k - 1] = c[k] - FrameLen(m)
      BY <1>7, <3>1
    <3>8. j \in 1 .. FrameLen(f[k + 1])
      BY <3>2, Zenon
    <3>9. s[c[k] + j] = FrameByte(f[k + 1], j)
      BY <1>1, <3>1, <3>8 DEF FramesAt, l
    <3> DEFINE x == (c[k] - FrameLen(m)) + j
    <3>10. x \in 1 .. n - FrameLen(m) /\ FrameLen(m) + x = c[k] + j
      <4>1. PICK a : a = FrameLen(m)
        OBVIOUS
      <4>2. PICK b : b = c[k]
        OBVIOUS
      <4>3. PICK e : e = FrameLen(f[k + 1])
        OBVIOUS
      <4>4. /\ a \in Nat /\ b \in Nat /\ e \in Nat /\ n \in Nat /\ j \in 1 .. e
            /\ a <= b /\ b + e <= n
        BY <1>5, <1>7, <3>4, <3>5, <3>6, <3>8, <4>1, <4>2, <4>3
      <4>5. (b - a) + j \in 1 .. n - a /\ a + ((b - a) + j) = b + j
        BY <4>4
      <4>6. QED
        BY <4>1, <4>2, <4>5
    <3> HIDE DEF x
    <3>11. t[x] = s[c[k] + j]
      BY <3>10
    <3>12. QED
      BY <3>2, <3>7, <3>9, <3>11, Zenon DEF x
  <2>2. QED
    BY <2>1 DEF FramesAt
<1>11. Carries(t, n - FrameLen(m), g)
  BY <1>9, <1>10, Zenon DEF Carries
<1>12. QED
  BY <1>2, <1>5, <1>7, <1>8, <1>11, Zenon DEF g

(***************************************************************************)
(* Streams: bytes, and END after them or not.                              *)
(***************************************************************************)
Streams == {s \in Seq(Bytes \cup {END}) : \A k \in 1 .. Len(s) - 1 : s[k] \in Bytes}

(* How many bytes are on their way.                                        *)
InFlight(s) == Len(Flowing(s))

LEMMA FrontLength ==
  ASSUME NEW S, NEW s \in Seq(S), s # <<>>
  PROVE  Len(SubSeq(s, 1, Len(s) - 1)) = Len(s) - 1
<1>1. Len(s) \in Nat /\ Len(s) >= 1
  OBVIOUS
<1>2. PICK n \in Nat : n = Len(s) - 1
  BY <1>1
<1>3. n <= Len(s) /\ Len(s) \in Nat
  BY <1>1, <1>2
<1>4. Len(SubSeq(s, 1, n)) = n
  BY <1>3
<1>5. QED
  BY <1>2, <1>4, Zenon

LEMMA InFlightIs ==
  ASSUME NEW s \in Streams
  PROVE  /\ s \in Seq(Bytes \cup {END}) /\ Len(s) \in Nat
         /\ InFlight(s) = IF Ended(s) THEN Len(s) - 1 ELSE Len(s)
         /\ InFlight(s) \in Nat
         /\ Ended(s) => Len(s) >= 1 /\ s[Len(s)] = END
         /\ \A k \in 1 .. InFlight(s) : s[k] \in Bytes
<1>1. s \in Seq(Bytes \cup {END}) /\ \A k \in 1 .. Len(s) - 1 : s[k] \in Bytes
  BY DEF Streams
<1> DEFINE S == Bytes \cup {END}
<1>2. s \in Seq(S)
  BY <1>1
<1>3. \A x \in S : x # END => x \in Bytes
  OBVIOUS
<1> HIDE DEF S
<1>4. Len(s) \in Nat /\ (s # <<>> => Len(s) >= 1) /\ (s = <<>> => Len(s) = 0)
  BY <1>2
<1>5. CASE Ended(s)
  <2>1. s # <<>> /\ s[Len(s)] = END /\ Flowing(s) = Front(s)
    BY <1>5 DEF Ended, Flowing
  <2>2. Front(s) = SubSeq(s, 1, Len(s) - 1)
    BY DEF Front
  <2>3. Len(SubSeq(s, 1, Len(s) - 1)) = Len(s) - 1
    BY <1>2, <1>4, <2>1, FrontLength, Zenon
  <2>4. InFlight(s) = Len(s) - 1
    BY <2>1, <2>2, <2>3, Zenon DEF InFlight
  <2>5. QED
    BY <1>1, <1>4, <1>5, <2>1, <2>4
<1>6. CASE ~ Ended(s)
  <2>1. InFlight(s) = Len(s)
    BY <1>6, Zenon DEF InFlight, Flowing
  <2>2. ASSUME NEW k \in 1 .. Len(s) PROVE s[k] \in Bytes
    <3>1. CASE k = Len(s)
      <4>1. s # <<>> /\ s[k] \in S
        BY <1>2, <1>4, ElementOfSeq
      <4>2. s[Len(s)] # END
        BY <1>6, <4>1 DEF Ended
      <4>3. QED
        BY <1>3, <3>1, <4>1, <4>2
    <3>2. CASE k # Len(s)
      BY <1>1, <1>4, <3>2
    <3>3. QED
      BY <3>1, <3>2, Zenon
  <2>3. QED
    BY <1>1, <1>4, <1>6, <2>1, <2>2
<1>7. QED
  BY <1>5, <1>6, Zenon

LEMMA SubSeqRest ==
  ASSUME NEW S, NEW s \in Seq(S), NEW k \in Nat, k <= Len(s)
  PROVE  /\ SubSeq(s, k + 1, Len(s)) \in Seq(S)
         /\ Len(SubSeq(s, k + 1, Len(s))) = Len(s) - k
         /\ LiesAt(s, k, SubSeq(s, k + 1, Len(s)))
<1> DEFINE l == Len(s)
           t == SubSeq(s, k + 1, l)
<1>1. l \in Nat /\ t \in Seq(S) /\ Len(t) = l - k
  OBVIOUS
<1>2. \A j \in 1 .. Len(t) : t[j] = s[k + j]
  BY <1>1
<1>3. QED
  BY <1>1, <1>2, Zenon DEF LiesAt

LEMMA NotAByte == END \notin Bytes
BY DEF END, Bytes

LEMMA EmptyStream ==
  ~ Ended(<<>>) /\ <<>> \in Streams /\ InFlight(<<>>) = 0
BY DEF Ended, Streams, InFlight, Flowing

(* A frame is sent.                                                        *)
LEMMA SendStream ==
  ASSUME NEW s \in Streams, ~ Ended(s), NEW m \in Messages, NEW t, t = s \o FrameOf(m)
  PROVE  /\ t \in Streams /\ InFlight(t) = InFlight(s) + FrameLen(m)
         /\ t # <<>>
         /\ \A j \in 1 .. InFlight(s) : t[j] = s[j]
         /\ \A j \in 1 .. FrameLen(m) : t[InFlight(s) + j] = FrameByte(m, j)
<1> DEFINE S == Bytes \cup {END}
           r == FrameOf(m)
           n == Len(s)
<1>1. s \in Seq(S) /\ n \in Nat /\ InFlight(s) = n /\ \A k \in 1 .. n : s[k] \in Bytes
  BY InFlightIs
<1>2. r \in Seq(Bytes) /\ Len(r) = FrameLen(m) /\ FrameLen(m) \in Nat /\ FrameLen(m) >= 3
  <2>1. ContentOf(m) \in Seq(Bytes) /\ r = Frame(Len(ContentOf(m)), ContentOf(m))
    BY FrameOfIs, Zenon
  <2>2. r \in Seq(Bytes)
    BY <2>1, FrameIs, Zenon
  <2>3. QED
    BY <2>2, FrameLenIs DEF FrameLen
<1>3. \A j \in 1 .. FrameLen(m) : r[j] \in Bytes
  BY <1>2, ElementOfSeq
<1>4. r \in Seq(S)
  BY <1>2, SeqMonotonic
<1>5. \A x \in S : x \notin Bytes => x = END
  OBVIOUS
<1>6. t = s \o r
  OBVIOUS
<1> HIDE DEF S, r, n
<1>7. s \in Seq(S)
  BY <1>1, Zenon
<1>8. t \in Seq(S) /\ Len(t) = n + FrameLen(m)
  <2>1. s \o r \in Seq(S) /\ Len(s \o r) = Len(s) + Len(r)
    BY <1>1, <1>4, Joining, Zenon
  <2>2. QED
    BY <1>2, <1>6, <2>1, Zenon DEF n
<1>9. ASSUME NEW j \in 1 .. n PROVE t[j] = s[j]
  <2>1. j \in 1 .. Len(s)
    BY DEF n
  <2>2. QED
    BY <1>4, <1>6, <1>7, <2>1, JoinLeft
<1>10. ASSUME NEW j \in 1 .. FrameLen(m) PROVE t[n + j] = r[j]
  <2> DEFINE k == n + j
  <2>1. k \in 1 .. n + FrameLen(m) /\ ~ (k <= n) /\ k - n = j
    BY <1>1, <1>2
  <2> HIDE DEF k
  <2>2. (s \o r)[k] = r[k - Len(s)]
    BY <1>1, <1>2, <1>4, <2>1, JoinRight, Zenon DEF n
  <2>3. QED
    BY <1>6, <2>1, <2>2, Zenon DEF k, n
<1>11. ASSUME NEW k \in 1 .. n + FrameLen(m) PROVE t[k] \in Bytes
  <2>1. CASE k <= n
    <3>1. k \in 1 .. n
      BY <1>1, <2>1
    <3>2. QED
      BY <1>1, <1>9, <3>1, Zenon
  <2>2. CASE ~ (k <= n)
    <3>1. k - n \in 1 .. FrameLen(m) /\ n + (k - n) = k
      BY <1>1, <1>2, <2>2
    <3>2. t[n + (k - n)] = r[k - n] /\ r[k - n] \in Bytes
      BY <1>3, <1>10, <3>1, Zenon
    <3>3. QED
      BY <3>1, <3>2, Zenon
  <2>3. QED
    BY <2>1, <2>2, Zenon
<1>12. t \in Streams
  <2>1. \A k \in 1 .. Len(t) - 1 : t[k] \in Bytes
    BY <1>1, <1>2, <1>8, <1>11
  <2>2. QED
    BY <1>8, <2>1 DEF Streams, S
<1>13. t # <<>> /\ ~ Ended(t)
  <2>1. Len(t) \in 1 .. n + FrameLen(m)
    BY <1>1, <1>2, <1>8
  <2>2. t[Len(t)] \in Bytes /\ t # <<>>
    BY <1>11, <2>1
  <2>3. QED
    BY <2>2, NotAByte, Zenon DEF Ended
<1>14. InFlight(t) = n + FrameLen(m)
  BY <1>8, <1>12, <1>13, InFlightIs, Zenon
<1>15. QED
  BY <1>1, <1>9, <1>10, <1>12, <1>13, <1>14 DEF FrameByte, r

(* The sender is gone.                                                     *)
LEMMA EndStream ==
  ASSUME NEW s \in Streams, ~ Ended(s), NEW t, t = Append(s, END)
  PROVE  /\ t \in Streams /\ InFlight(t) = InFlight(s) /\ t # <<>>
         /\ \A j \in 1 .. InFlight(s) : t[j] = s[j]
         /\ InFlight(s) = 0 => t = <<END>>
<1> DEFINE S == Bytes \cup {END}
           n == Len(s)
<1>1. s \in Seq(S) /\ n \in Nat /\ InFlight(s) = n /\ \A k \in 1 .. n : s[k] \in Bytes
  BY InFlightIs
<1>2. END \in S
  OBVIOUS
<1> HIDE DEF S
<1>3. t \in Seq(S) /\ Len(t) = n + 1 /\ t[n + 1] = END /\ \A j \in 1 .. n : t[j] = s[j]
  BY <1>1, <1>2
<1>4. n = 0 => t = <<END>>
  BY <1>1
<1> HIDE DEF n
<1>5. t # <<>>
  BY <1>1, <1>3
<1>6. Ended(t)
  BY <1>3, <1>5 DEF Ended
<1>7. t \in Streams
  <2>1. \A k \in 1 .. Len(t) - 1 : t[k] \in Bytes
    BY <1>1, <1>3
  <2>2. QED
    BY <1>3, <2>1 DEF Streams, S
<1>8. InFlight(t) = n
  <2>1. InFlight(t) = Len(t) - 1
    BY <1>6, <1>7, InFlightIs, Zenon
  <2>2. QED
    BY <1>1, <1>3, <2>1
<1>9. QED
  BY <1>1, <1>3, <1>4, <1>5, <1>7, <1>8

(* What recv takes and what it leaves.                                     *)
LEMMA ReceivedLength ==
  ASSUME NEW s \in Streams, s # <<>>, NEW size \in Nat, NEW got \in Received(s, size)
  PROVE  /\ Len(got) \in Nat /\ got = SubSeq(s, 1, Len(got))
         /\ Len(got) <= size /\ Len(got) <= InFlight(s)
         /\ Len(got) = 0 <=> (size = 0 \/ Head(s) = END)
<1> DEFINE n == InFlight(s)
           asked == {size, n}
<1>1. /\ Len(s) \in Nat /\ Len(s) >= 1 /\ s \in Seq(Bytes \cup {END}) /\ n \in Nat
      /\ n = IF Ended(s) THEN Len(s) - 1 ELSE Len(s)
      /\ \A k \in 1 .. n : s[k] \in Bytes
  BY InFlightIs
<1>2. PICK k \in (IF size = 0 \/ Head(s) = END THEN {0} ELSE 1 .. Min(asked)) :
        got = SubSeq(s, 1, k)
  BY DEF Received, InFlight
<1>3. Min(asked) \in Nat /\ Min(asked) <= size /\ Min(asked) <= n
  <2>1. asked \in SUBSET Nat /\ asked # {} /\ size \in asked /\ n \in asked
    BY <1>1
  <2> HIDE DEF asked
  <2>2. Min(asked) \in asked /\ \A y \in asked : Min(asked) <= y
    BY <2>1, MinOfNaturals, Zenon
  <2>3. QED
    BY <2>1, <2>2
<1> HIDE DEF asked, n
<1>4. k \in Nat /\ k <= size /\ k <= n /\ k <= Len(s) /\ (k = 0 <=> (size = 0 \/ Head(s) = END))
  BY <1>1, <1>2, <1>3
<1>5. Len(got) = k
  BY <1>1, <1>2, <1>4
<1>6. QED
  BY <1>2, <1>4, <1>5 DEF n

LEMMA ReceivedStream ==
  ASSUME NEW s \in Streams, s # <<>>, NEW size \in Nat, NEW got \in Received(s, size),
         NEW t, t = Rest(s, got)
  PROVE  /\ \A j \in 1 .. Len(got) : got[j] = s[j] /\ got[j] \in Bytes
         /\ t \in Streams /\ InFlight(t) = InFlight(s) - Len(got)
         /\ \A j \in 1 .. InFlight(t) : t[j] = s[Len(got) + j]
<1> DEFINE S == Bytes \cup {END}
           n == InFlight(s)
           k == Len(got)
           l == Len(s)
<1>1. /\ s \in Seq(S) /\ l \in Nat /\ n = IF Ended(s) THEN l - 1 ELSE l
      /\ Ended(s) => l >= 1 /\ s[l] = END
      /\ n \in Nat /\ \A j \in 1 .. n : s[j] \in Bytes
  BY InFlightIs
<1>2. k \in Nat /\ k <= n /\ got = SubSeq(s, 1, k)
  BY ReceivedLength
<1>3. t = SubSeq(s, k + 1, l)
  BY DEF Rest
<1> HIDE DEF S, n, k, l
<1>4. k <= l
  BY <1>1, <1>2
<1>5. s \in Seq(S) /\ Len(s) = l
  BY <1>1 DEF l
<1>6. /\ t \in Seq(S) /\ Len(t) = l - k
      /\ \A j \in 1 .. l - k : t[j] = s[k + j]
  <2>1. k <= Len(s) /\ t = SubSeq(s, k + 1, Len(s))
    BY <1>3, <1>4, <1>5, Zenon
  <2>2. /\ SubSeq(s, k + 1, Len(s)) \in Seq(S)
        /\ Len(SubSeq(s, k + 1, Len(s))) = Len(s) - k
        /\ LiesAt(s, k, SubSeq(s, k + 1, Len(s)))
    BY <1>2, <1>5, <2>1, SubSeqRest, Zenon
  <2>3. t \in Seq(S) /\ Len(t) = l - k /\ LiesAt(s, k, t)
    BY <1>5, <2>1, <2>2, Zenon
  <2>4. QED
    BY <2>3 DEF LiesAt
<1>7. \A j \in 1 .. k : got[j] = s[j] /\ got[j] \in Bytes
  <2>1. \A j \in 1 .. k : SubSeq(s, 1, k)[j] = s[j]
    BY <1>1, <1>2, <1>4, <1>5
  <2>2. \A j \in 1 .. k : s[j] \in Bytes
    BY <1>1, <1>2
  <2>3. QED
    BY <1>2, <2>1, <2>2, Zenon
<1>8. t \in Streams
  <2>1. ASSUME NEW j \in 1 .. Len(t) - 1 PROVE t[j] \in Bytes
    <3>1. j \in 1 .. l - k /\ k + j \in 1 .. n
      BY <1>1, <1>2, <1>4, <1>6
    <3>2. QED
      BY <1>1, <1>6, <3>1
  <2>2. QED
    BY <1>6, <2>1 DEF Streams, S
<1>9. InFlight(t) = n - k
  <2>1. CASE Ended(s)
    <3>1. l - k \in 1 .. l - k /\ k + (l - k) = l
      BY <1>1, <1>2, <2>1
    <3>2. t[Len(t)] = END
      BY <1>1, <1>6, <2>1, <3>1, Zenon
    <3>3. t # <<>>
      BY <1>6, <3>1
    <3>4. Ended(t)
      BY <3>2, <3>3, Zenon DEF Ended
    <3>5. InFlight(t) = Len(t) - 1
      BY <1>8, <3>4, InFlightIs, Zenon
    <3>6. QED
      BY <1>1, <1>2, <1>6, <2>1, <3>5
  <2>2. CASE ~ Ended(s)
    <3>1. ~ Ended(t)
      <4>1. SUFFICES ASSUME Ended(t) PROVE FALSE
        OBVIOUS
      <4>2. Len(t) >= 1 /\ t[Len(t)] = END
        BY <1>8, <4>1, InFlightIs, Zenon
      <4>3. l - k \in 1 .. l - k /\ k + (l - k) = l /\ l \in 1 .. n
        BY <1>1, <1>2, <1>4, <1>6, <2>2, <4>2
      <4>4. t[l - k] = s[l] /\ s[l] \in Bytes
        BY <1>1, <1>6, <4>3, Zenon
      <4>5. QED
        BY <1>6, <4>2, <4>4, NotAByte, Zenon
    <3>2. InFlight(t) = Len(t)
      BY <1>8, <3>1, InFlightIs, Zenon
    <3>3. QED
      BY <1>1, <1>6, <2>2, <3>2
  <2>3. QED
    BY <2>1, <2>2, Zenon
<1>10. \A j \in 1 .. n - k : t[j] = s[k + j]
  BY <1>1, <1>2, <1>4, <1>6
<1>11. QED
  BY <1>7, <1>8, <1>9, <1>10, Zenon DEF n, k

(***************************************************************************)
(* The buffer of a reader.                                                 *)
(***************************************************************************)
Buffers == [0 .. BUF_SIZE - 1 -> Bytes]

FitBuffer(f) == \A k \in 1 .. Len(f) : FrameLen(f[k]) <= BUF_SIZE - 1

LEMMA PutIs ==
  ASSUME NEW buf \in Buffers, NEW bytes, Len(bytes) \in Nat,
         \A j \in 1 .. Len(bytes) : bytes[j] \in Bytes
  PROVE  /\ Put(buf, bytes) \in Buffers
         /\ \A j \in 1 .. Len(bytes) : j <= BUF_SIZE => Put(buf, bytes)[j - 1] = bytes[j]
<1>1. BUF_SIZE \in Nat
  BY BufferSize
<1>2. DOMAIN buf = 0 .. BUF_SIZE - 1
  BY DEF Buffers
<1>3. ASSUME NEW k \in 0 .. BUF_SIZE - 1
      PROVE  (IF k < Len(bytes) THEN bytes[k + 1] ELSE buf[k]) \in Bytes
  <2>1. k < Len(bytes) => k + 1 \in 1 .. Len(bytes)
    BY <1>1
  <2>2. buf[k] \in Bytes
    BY DEF Buffers
  <2>3. QED
    BY <2>1, <2>2
<1>4. Put(buf, bytes) \in Buffers
  BY <1>2, <1>3, Zenon DEF Put, Buffers
<1>5. ASSUME NEW j \in 1 .. Len(bytes), j <= BUF_SIZE PROVE Put(buf, bytes)[j - 1] = bytes[j]
  <2>1. j - 1 \in 0 .. BUF_SIZE - 1 /\ j - 1 < Len(bytes) /\ (j - 1) + 1 = j
    BY <1>1, <1>5
  <2>2. QED
    BY <1>2, <2>1, Zenon DEF Put
<1>6. QED
  BY <1>4, <1>5

LEMMA TerminateIs ==
  ASSUME NEW buf \in Buffers, NEW n
  PROVE  /\ Terminate(buf, n) \in Buffers
         /\ \A k \in 0 .. BUF_SIZE - 1 : k # n => Terminate(buf, n)[k] = buf[k]
         /\ n \in 0 .. BUF_SIZE - 1 => Terminate(buf, n)[n] = 0
<1>1. 0 \in Bytes
  BY DEF Bytes
<1>2. QED
  BY <1>1 DEF Terminate, Buffers

LEMMA PutTerminated ==
  ASSUME NEW buf \in Buffers, NEW bytes, Len(bytes) \in Nat,
         \A j \in 1 .. Len(bytes) : bytes[j] \in Bytes,
         NEW b, b = Terminate(Put(buf, bytes), Len(bytes))
  PROVE  /\ b \in Buffers
         /\ \A j \in 1 .. Len(bytes) : j <= BUF_SIZE => b[j - 1] = bytes[j]
         /\ Len(bytes) < BUF_SIZE => b[Len(bytes)] = 0
<1> DEFINE p == Put(buf, bytes)
<1>1. p \in Buffers /\ \A j \in 1 .. Len(bytes) : j <= BUF_SIZE => p[j - 1] = bytes[j]
  BY PutIs, Zenon
<1>2. /\ b \in Buffers
      /\ \A k \in 0 .. BUF_SIZE - 1 : k # Len(bytes) => b[k] = p[k]
      /\ Len(bytes) \in 0 .. BUF_SIZE - 1 => b[Len(bytes)] = 0
  BY <1>1, TerminateIs, Zenon
<1> HIDE DEF p
<1>3. BUF_SIZE \in Nat
  BY BufferSize
<1>4. ASSUME NEW j \in 1 .. Len(bytes), j <= BUF_SIZE PROVE b[j - 1] = bytes[j]
  <2>1. j - 1 \in 0 .. BUF_SIZE - 1 /\ j - 1 # Len(bytes)
    BY <1>3, <1>4
  <2>2. QED
    BY <1>1, <1>2, <1>4, <2>1, Zenon
<1>5. Len(bytes) < BUF_SIZE => Len(bytes) \in 0 .. BUF_SIZE - 1
  BY <1>3
<1>6. QED
  BY <1>2, <1>4, <1>5, Zenon

LEMMA SizeInNat ==
  ASSUME NEW buf \in Buffers
  PROVE  SizeIn(buf) \in Nat
<1>1. 0 \in 0 .. BUF_SIZE - 1 /\ 1 \in 0 .. BUF_SIZE - 1
  BY BufferSize
<1>2. buf[0] \in Nat /\ buf[1] \in Nat
  <2>1. buf[0] \in Bytes /\ buf[1] \in Bytes
    BY <1>1 DEF Buffers
  <2>2. Bytes \subseteq Nat
    BY DEF Bytes
  <2>3. QED
    BY <2>1, <2>2
<1>3. QED
  BY <1>2 DEF SizeIn

LEMMA TailIs ==
  ASSUME NEW S, NEW s \in Seq(S), s # <<>>, NEW t, t = Tail(s)
  PROVE  /\ t \in Seq(S) /\ Len(s) \in Nat /\ Len(s) >= 1 /\ Len(t) = Len(s) - 1
         /\ Head(s) = s[1] /\ s[1] \in S
         /\ \A k \in 1 .. Len(t) : t[k] = s[k + 1]
OBVIOUS

LEMMA FitEmpty == FitBuffer(<<>>)
BY DEF FitBuffer

LEMMA FitTail ==
  ASSUME NEW S, NEW f \in Seq(S), f # <<>>, FitBuffer(f)
  PROVE  Tail(f) \in Seq(S) /\ FitBuffer(Tail(f))
<1>1. PICK t : t = Tail(f)
  OBVIOUS
<1>2. /\ t \in Seq(S) /\ Len(f) \in Nat /\ Len(t) = Len(f) - 1
      /\ \A k \in 1 .. Len(t) : t[k] = f[k + 1]
  BY <1>1, TailIs
<1>3. ASSUME NEW k \in 1 .. Len(t) PROVE FrameLen(t[k]) <= BUF_SIZE - 1
  <2>1. k + 1 \in 1 .. Len(f)
    BY <1>2
  <2>2. FrameLen(f[k + 1]) <= BUF_SIZE - 1
    BY <2>1, Zenon DEF FitBuffer
  <2>3. QED
    BY <1>2, <2>2, Zenon
<1>4. QED
  BY <1>1, <1>2, <1>3 DEF FitBuffer

LEMMA FitAppend ==
  ASSUME NEW S, NEW f \in Seq(S), NEW m \in S, FitBuffer(f), FrameLen(m) <= BUF_SIZE - 1
  PROVE  Append(f, m) \in Seq(S) /\ FitBuffer(Append(f, m))
<1>1. PICK t : t = Append(f, m)
  OBVIOUS
<1>2. /\ t \in Seq(S) /\ Len(f) \in Nat /\ Len(t) = Len(f) + 1 /\ t[Len(f) + 1] = m
      /\ \A k \in 1 .. Len(f) : t[k] = f[k]
  BY <1>1
<1>3. ASSUME NEW k \in 1 .. Len(t) PROVE FrameLen(t[k]) <= BUF_SIZE - 1
  <2>1. k \in 1 .. Len(f) \/ k = Len(f) + 1
    BY <1>2
  <2>2. CASE k \in 1 .. Len(f)
    BY <1>2, <2>2, Zenon DEF FitBuffer
  <2>3. CASE k = Len(f) + 1
    BY <1>2, <2>3, Zenon
  <2>4. QED
    BY <2>1, <2>2, <2>3, Zenon
<1>4. QED
  BY <1>1, <1>2, <1>3 DEF FitBuffer

(***************************************************************************)
(* What is in flight is what was not handled yet.                          *)
(***************************************************************************)
Whole(s, f) == Carries(s, InFlight(s), f)

(* The length of the next message is in the buffer, the rest in flight.    *)
LengthRead(buf, s, f) ==
  \E u : /\ Carries(u, InFlight(s) + 2, f)
         /\ SizeOf(u) = SizeIn(buf)
         /\ \A j \in 1 .. InFlight(s) : u[2 + j] = s[j]

LEMMA CarriesHead ==
  ASSUME NEW u, NEW n, NEW f \in Seq(Messages), f # <<>>, Carries(u, n, f), NEW m, m = Head(f)
  PROVE  /\ m \in Messages /\ n \in Nat /\ FrameLen(m) <= n
         /\ \A j \in 1 .. FrameLen(m) : u[j] = FrameByte(m, j)
<1> DEFINE t == [j \in 1 .. n - FrameLen(m) |-> u[FrameLen(m) + j]]
<1>1. \A j \in 1 .. n - FrameLen(m) : t[j] = u[FrameLen(m) + j]
  OBVIOUS
<1> HIDE DEF t
<1>2. QED
  BY <1>1, CarriesFirst

LEMMA WholeMore ==
  ASSUME NEW s \in Streams, ~ Ended(s), NEW m \in Messages, NEW f \in Seq(Messages), Whole(s, f),
         NEW t, t = s \o FrameOf(m)
  PROVE  Whole(t, Append(f, m))
<1>1. /\ InFlight(t) = InFlight(s) + FrameLen(m)
      /\ \A j \in 1 .. InFlight(s) : t[j] = s[j]
      /\ \A j \in 1 .. FrameLen(m) : t[InFlight(s) + j] = FrameByte(m, j)
  BY SendStream
<1>2. Carries(t, InFlight(s) + FrameLen(m), Append(f, m))
  BY <1>1, CarriesMore DEF Whole
<1>3. QED
  BY <1>1, <1>2, Zenon DEF Whole

LEMMA LengthReadMore ==
  ASSUME NEW s \in Streams, ~ Ended(s), NEW m \in Messages, NEW f \in Seq(Messages),
         NEW buf, LengthRead(buf, s, f), NEW t, t = s \o FrameOf(m)
  PROVE  LengthRead(buf, t, Append(f, m))
<1> DEFINE n == InFlight(s)
           l == FrameLen(m)
<1>1. /\ InFlight(t) = n + l
      /\ \A j \in 1 .. n : t[j] = s[j]
      /\ \A j \in 1 .. l : t[n + j] = FrameByte(m, j)
  BY SendStream
<1>2. n \in Nat /\ l \in Nat
  BY InFlightIs, FrameLenIs
<1>3. PICK u : /\ Carries(u, n + 2, f) /\ SizeOf(u) = SizeIn(buf)
               /\ \A j \in 1 .. n : u[2 + j] = s[j]
  BY DEF LengthRead
<1> DEFINE v == [j \in 1 .. n + 2 + l |-> IF j <= n + 2 THEN u[j] ELSE FrameByte(m, j - (n + 2))]
<1> HIDE DEF n, l
<1>4. \A j \in 1 .. n + 2 : v[j] = u[j]
  BY <1>2
<1>5. \A j \in 1 .. l : v[(n + 2) + j] = FrameByte(m, j)
  BY <1>2
<1>6. SizeOf(v) = SizeIn(buf)
  <2>1. v[1] = u[1] /\ v[2] = u[2]
    BY <1>2, <1>4
  <2> HIDE DEF v
  <2>2. QED
    BY <1>3, <2>1, Zenon DEF SizeOf
<1>7. ASSUME NEW j \in 1 .. n + l PROVE v[2 + j] = t[j]
  <2>1. CASE j <= n
    <3>1. v[2 + j] = u[2 + j]
      BY <1>2, <1>4, <2>1
    <3>2. j \in 1 .. n
      BY <1>2, <2>1
    <3>3. t[j] = s[j]
      BY <1>1, <3>2, Zenon DEF n
    <3>4. u[2 + j] = s[j]
      BY <1>3, <3>2, Zenon DEF n
    <3> HIDE DEF v
    <3>5. QED
      BY <3>1, <3>3, <3>4, Zenon
  <2>2. CASE ~ (j <= n)
    <3>1. j - n \in 1 .. l /\ (n + 2) + (j - n) = 2 + j /\ n + (j - n) = j
      BY <1>2, <2>2
    <3> HIDE DEF v
    <3>2. v[(n + 2) + (j - n)] = FrameByte(m, j - n)
      BY <1>5, <3>1, Zenon
    <3>3. t[n + (j - n)] = FrameByte(m, j - n)
      BY <1>1, <3>1, Zenon DEF n, l
    <3>4. QED
      BY <3>1, <3>2, <3>3, Zenon
  <2>3. QED
    BY <2>1, <2>2
<1> HIDE DEF v
<1>8. Carries(v, (n + 2) + l, Append(f, m))
  BY <1>3, <1>4, <1>5, CarriesMore DEF l, n
<1>9. (n + 2) + l = (n + l) + 2
  BY <1>2
<1>10. InFlight(t) = n + l
  BY <1>1 DEF n, l
<1>11. Carries(v, InFlight(t) + 2, Append(f, m)) /\ \A j \in 1 .. InFlight(t) : v[2 + j] = t[j]
  BY <1>7, <1>8, <1>9, <1>10, Zenon
<1>12. QED
  BY <1>6, <1>11, Zenon DEF LengthRead

LEMMA OwedEnd ==
  ASSUME NEW s \in Streams, ~ Ended(s), NEW f \in Seq(Messages), NEW buf,
         NEW t, t = Append(s, END)
  PROVE  /\ Whole(s, f) => Whole(t, f)
         /\ LengthRead(buf, s, f) => LengthRead(buf, t, f)
<1>1. InFlight(t) = InFlight(s) /\ \A j \in 1 .. InFlight(s) : t[j] = s[j]
  BY EndStream
<1>2. ASSUME Whole(s, f) PROVE Whole(t, f)
  <2>1. Carries(t, InFlight(s), f)
    BY <1>1, <1>2, CarriesSame DEF Whole
  <2>2. QED
    BY <1>1, <2>1, Zenon DEF Whole
<1>3. ASSUME LengthRead(buf, s, f) PROVE LengthRead(buf, t, f)
  <2>1. PICK u : /\ Carries(u, InFlight(s) + 2, f) /\ SizeOf(u) = SizeIn(buf)
                 /\ \A j \in 1 .. InFlight(s) : u[2 + j] = s[j]
    BY <1>3 DEF LengthRead
  <2>2. \A j \in 1 .. InFlight(t) : u[2 + j] = t[j]
    BY <1>1, <2>1
  <2>3. Carries(u, InFlight(t) + 2, f)
    BY <1>1, <2>1, Zenon
  <2>4. QED
    BY <2>1, <2>2, <2>3, Zenon DEF LengthRead
<1>4. QED
  BY <1>2, <1>3

(* The first recv of a message.                                            *)
LEMMA LengthIsRead ==
  ASSUME NEW s \in Streams, s # <<>>, NEW f \in Seq(Messages), Whole(s, f),
         NEW got \in Received(s, LengthBytes), ~ IsShort(got, LengthBytes),
         NEW t, t = Rest(s, got),
         NEW b, \A j \in 1 .. Len(got) : j <= BUF_SIZE => b[j - 1] = got[j]
  PROVE  (t = <<END>> /\ f = <<>>) \/ LengthRead(b, t, f)
<1> DEFINE n == InFlight(s)
           k == Len(got)
<1>1. LengthBytes \in Nat /\ LengthBytes = 2
  BY DEF LengthBytes
<1>2. /\ k \in Nat /\ got = SubSeq(s, 1, k) /\ k <= LengthBytes /\ k <= n
      /\ k = 0 <=> (LengthBytes = 0 \/ Head(s) = END)
  BY <1>1, ReceivedLength
<1>3. /\ s \in Seq(Bytes \cup {END}) /\ Len(s) \in Nat /\ n \in Nat
      /\ n = IF Ended(s) THEN Len(s) - 1 ELSE Len(s)
      /\ \A j \in 1 .. n : s[j] \in Bytes
      /\ Head(s) = s[1] /\ Len(s) >= 1
  <2>1. s \in Seq(Bytes \cup {END})
    BY InFlightIs
  <2>2. Head(s) = s[1] /\ Len(s) >= 1
    BY <2>1
  <2>3. QED
    BY <2>1, <2>2, InFlightIs, Zenon
<1>4. /\ \A j \in 1 .. k : got[j] = s[j] /\ got[j] \in Bytes
      /\ InFlight(t) = n - k
      /\ \A j \in 1 .. InFlight(t) : t[j] = s[k + j]
  BY <1>1, ReceivedStream
<1>5. CASE k = 0
  <2>1. s[1] = END
    BY <1>1, <1>2, <1>3, <1>5
  <2>2. n = 0
    <3>1. SUFFICES ASSUME n # 0 PROVE FALSE
      OBVIOUS
    <3>2. 1 \in 1 .. n
      <4>1. n \in Nat
        BY <1>3, Zenon
      <4> HIDE DEF n
      <4>2. QED
        BY <3>1, <4>1
    <3>3. s[1] \in Bytes
      BY <1>3, <3>2, Zenon
    <3>4. QED
      BY <2>1, <3>3, NotAByte, Zenon
  <2>3. Len(s) = 1
    BY <1>3, <2>2
  <2>4. s = <<END>>
    BY <1>3, <2>1, <2>3
  <2>5. t = s
    <3>1. t = SubSeq(s, 0 + 1, Len(s))
      BY <1>5, Zenon DEF Rest
    <3>2. 0 + 1 = 1
      OBVIOUS
    <3>3. SubSeq(s, 1, Len(s)) = s
      BY <1>3, SubSeqFull, Zenon
    <3>4. QED
      BY <3>1, <3>2, <3>3, Zenon
  <2>6. f = <<>>
    BY <2>2, CarriesLength, Zenon DEF Whole
  <2>7. QED
    BY <2>4, <2>5, <2>6, Zenon
<1>6. CASE k # 0
  <2>1. got # <<>>
    BY <1>6
  <2>2. k = 2
    BY <1>1, <1>2, <1>6, <2>1 DEF IsShort
  <2> HIDE DEF n, k
  <2>3. InFlight(t) + 2 = n
    BY <1>2, <1>3, <1>4, <2>2
  <2>4. Carries(s, InFlight(t) + 2, f)
    BY <2>3, Zenon DEF Whole, n
  <2>5. \A j \in 1 .. InFlight(t) : s[2 + j] = t[j]
    BY <1>4, <2>2
  <2>6. SizeOf(s) = SizeIn(b)
    <3>1. /\ 1 \in 1 .. Len(got) /\ 2 \in 1 .. Len(got) /\ 1 <= BUF_SIZE /\ 2 <= BUF_SIZE
      BY <1>2, <1>4, <2>2, BufferSize DEF k
    <3>3. b[1 - 1] = got[1] /\ b[2 - 1] = got[2]
      BY <3>1
    <3>4. 1 - 1 = 0 /\ 2 - 1 = 1
      OBVIOUS
    <3>5. got[1] = s[1] /\ got[2] = s[2]
      BY <1>4, <3>1 DEF k
    <3>6. b[0] = s[1] /\ b[1] = s[2]
      BY <3>3, <3>4, <3>5, Zenon
    <3>7. QED
      BY <3>6, Zenon DEF SizeOf, SizeIn
  <2>7. QED
    BY <2>4, <2>5, <2>6, Zenon DEF LengthRead
<1>7. QED
  BY <1>5, <1>6

(* What lies in the buffer and in the stream when the length was read.     *)
LEMMA BodyIsNext ==
  ASSUME NEW s \in Streams, NEW f \in Seq(Messages), FitBuffer(f), NEW buf,
         LengthRead(buf, s, f)
  PROVE  /\ f # <<>> /\ Head(f) \in Messages /\ Tail(f) \in Seq(Messages)
         /\ SizeIn(buf) = Len(ContentOf(Head(f))) /\ SizeIn(buf) \in Nat /\ SizeIn(buf) >= 1
         /\ SizeIn(buf) <= InFlight(s) /\ SizeIn(buf) < BUF_SIZE
         /\ \A j \in 1 .. SizeIn(buf) : s[j] = ContentOf(Head(f))[j]
         /\ \A t : (\A j \in 1 .. InFlight(s) - SizeIn(buf) : t[j] = s[SizeIn(buf) + j])
                     => Carries(t, InFlight(s) - SizeIn(buf), Tail(f))
<1> DEFINE n == InFlight(s)
           k == SizeIn(buf)
<1>1. PICK u : /\ Carries(u, n + 2, f) /\ SizeOf(u) = k
               /\ \A j \in 1 .. n : u[2 + j] = s[j]
  BY DEF LengthRead
<1>2. n \in Nat
  BY InFlightIs
<1>3. f # <<>>
  <2> DEFINE x == n + 2
  <2>1. x # 0 /\ Carries(u, x, f)
    BY <1>1, <1>2
  <2> HIDE DEF x
  <2>2. x = 0 <=> f = <<>>
    BY <2>1, CarriesLength
  <2>3. QED
    BY <2>1, <2>2, Zenon
<1>4. PICK m : m = Head(f)
  OBVIOUS
<1>5. m = f[1] /\ 1 \in 1 .. Len(f) /\ Tail(f) \in Seq(Messages)
  BY <1>3, <1>4
<1> DEFINE l == FrameLen(m)
<1>6. m \in Messages /\ l <= n + 2 /\ \A j \in 1 .. l : u[j] = FrameByte(m, j)
  BY <1>1, <1>3, <1>4, CarriesHead
<1> DEFINE body == ContentOf(m)
<1>7. /\ l \in Nat /\ l >= 3 /\ Len(body) \in Nat /\ Len(body) = l - 2
      /\ Fits(Len(body)) => SizeOf(FrameOf(m)) = Len(body)
      /\ LiesAt(FrameOf(m), 2, body)
  BY <1>6, FrameLenIs
<1>8. l <= BUF_SIZE - 1
  BY <1>5, Zenon DEF FitBuffer
<1>9. Fits(Len(body))
  <2> HIDE DEF l, body
  <2>1. QED
    BY <1>7, <1>8, BufferSize DEF Fits
<1> HIDE DEF n, k, l, body
<1>10. SizeOf(u) = SizeOf(FrameOf(m))
  <2>1. 1 \in 1 .. l /\ 2 \in 1 .. l
    BY <1>7
  <2>2. u[1] = FrameOf(m)[1] /\ u[2] = FrameOf(m)[2]
    BY <1>6, <2>1 DEF FrameByte
  <2>3. QED
    BY <2>2, Zenon DEF SizeOf
<1>11. k = Len(body)
  BY <1>1, <1>7, <1>9, <1>10, Zenon
<1>12. k \in Nat /\ k >= 1 /\ k <= n /\ k < BUF_SIZE /\ l = 2 + k
  BY <1>2, <1>6, <1>7, <1>8, <1>11, BufferSize
<1>13. ASSUME NEW j \in 1 .. k PROVE s[j] = body[j]
  <2>1. 2 + j \in 1 .. l /\ j \in 1 .. n
    BY <1>2, <1>12
  <2>2. u[2 + j] = FrameByte(m, 2 + j)
    BY <1>6, <2>1, Zenon
  <2>3. u[2 + j] = s[j]
    BY <1>1, <2>1, Zenon
  <2>4. FrameOf(m)[2 + j] = body[j]
    BY <1>7, <1>11 DEF LiesAt
  <2>5. QED
    BY <2>2, <2>3, <2>4, Zenon DEF FrameByte
<1>14. ASSUME NEW t, \A j \in 1 .. n - k : t[j] = s[k + j]
       PROVE  Carries(t, n - k, Tail(f))
  <2>1. (n + 2) - l = n - k
    BY <1>2, <1>12
  <2>2. ASSUME NEW j \in 1 .. n - k PROVE t[j] = u[l + j]
    <3>1. k + j \in 1 .. n /\ 2 + (k + j) = l + j
      BY <1>2, <1>12
    <3>2. u[2 + (k + j)] = s[k + j]
      BY <1>1, <3>1, Zenon
    <3>3. t[j] = s[k + j]
      BY <1>14, Zenon
    <3>4. QED
      BY <3>1, <3>2, <3>3, Zenon
  <2>3. \A j \in 1 .. (n + 2) - l : t[j] = u[l + j]
    BY <2>1, <2>2, Zenon
  <2>4. Carries(t, (n + 2) - l, Tail(f))
    BY <1>1, <1>3, <1>4, <2>3, CarriesFirst DEF l
  <2>5. QED
    BY <2>1, <2>4, Zenon
<1>15. QED
  BY <1>3, <1>4, <1>5, <1>6, <1>11, <1>12, <1>13, <1>14, Zenon DEF n, k, body

(* A message lies at the start of the buffer, with the 0 behind it.        *)
Holds(buf, m) ==
  /\ Len(ContentOf(m)) < BUF_SIZE /\ buf[Len(ContentOf(m))] = 0
  /\ \A j \in 1 .. Len(ContentOf(m)) : buf[j - 1] = ContentOf(m)[j]

LEMMA RequestHeld ==
  ASSUME NEW m \in Requests, NEW buf, Holds(buf, m)
  PROVE  ReadRequest(buf) = m
<1>1. /\ Len(BodyOf(m)) < BUF_SIZE
      /\ \A j \in 1 .. Len(BodyOf(m)) : buf[j - 1] = BodyOf(m)[j]
  BY OfRequest, Zenon DEF Holds
<1>2. Len(BodyOf(m)) \in Nat
  BY OfRequest, FrameLenIs, Zenon
<1>3. Len(BodyOf(m)) <= BUF_SIZE
  BY <1>1, <1>2, BufferSize
<1>4. QED
  BY <1>1, <1>3, RequestsReadBack

LEMMA ReplyHeld ==
  ASSUME NEW m \in Replies, NEW buf, Holds(buf, m)
  PROVE  ReadReply(buf) = Told(m)
<1>1. InBuffer(buf, m) /\ buf[Len(ReplyBody(m))] = 0
  BY OfReply, Zenon DEF Holds, InBuffer
<1>2. QED
  BY <1>1, RepliesReadBack, Zenon

(* The second recv of a message.                                           *)
LEMMA NextIsHandled ==
  ASSUME NEW s \in Streams, s # <<>>, NEW f \in Seq(Messages), FitBuffer(f),
         NEW buf \in Buffers, LengthRead(buf, s, f),
         NEW got \in Received(s, SizeIn(buf)), got # <<>>, ~ IsShort(got, SizeIn(buf)),
         NEW t, t = Rest(s, got)
  PROVE  /\ f # <<>> /\ Whole(t, Tail(f))
         /\ Holds(Terminate(Put(buf, got), Len(got)), Head(f))
<1> DEFINE n == InFlight(s)
           k == SizeIn(buf)
           m == Head(f)
           body == ContentOf(m)
           b == Terminate(Put(buf, got), Len(got))
<1>1. /\ f # <<>> /\ m \in Messages
      /\ k = Len(body) /\ k \in Nat /\ k >= 1 /\ k <= n /\ k < BUF_SIZE
      /\ \A j \in 1 .. k : s[j] = body[j]
  BY BodyIsNext, Zenon
<1>2. \A x : (\A j \in 1 .. n - k : x[j] = s[k + j]) => Carries(x, n - k, Tail(f))
  BY BodyIsNext, Zenon
<1>3. Len(got) \in Nat /\ Len(got) <= k
  BY <1>1, ReceivedLength
<1>4. /\ \A j \in 1 .. Len(got) : got[j] = s[j] /\ got[j] \in Bytes
      /\ InFlight(t) = n - Len(got)
      /\ \A j \in 1 .. InFlight(t) : t[j] = s[Len(got) + j]
  BY <1>1, ReceivedStream
<1>5. Len(got) = k
  <2>1. ~ (Len(got) < k)
    BY Zenon DEF IsShort
  <2> HIDE DEF k
  <2>2. QED
    BY <1>1, <1>3, <2>1
<1>6. Whole(t, Tail(f))
  <2>1. InFlight(t) = n - k /\ \A j \in 1 .. n - k : t[j] = s[k + j]
    BY <1>4, <1>5, Zenon
  <2>2. QED
    BY <1>2, <2>1, Zenon DEF Whole
<1>7. /\ \A j \in 1 .. Len(got) : j <= BUF_SIZE => b[j - 1] = got[j]
      /\ Len(got) < BUF_SIZE => b[Len(got)] = 0
  <2>1. Len(got) \in Nat /\ \A j \in 1 .. Len(got) : got[j] \in Bytes
    BY <1>3, <1>4, Zenon
  <2>2. b = Terminate(Put(buf, got), Len(got))
    OBVIOUS
  <2> HIDE DEF b
  <2>3. QED
    BY <2>1, <2>2, PutTerminated
<1> HIDE DEF n, k, m, body, b
<1>8. ASSUME NEW j \in 1 .. Len(body) PROVE b[j - 1] = body[j]
  <2>1. j \in 1 .. Len(got) /\ j \in 1 .. k /\ j <= BUF_SIZE
    BY <1>1, <1>5, BufferSize
  <2>2. b[j - 1] = got[j]
    BY <1>7, <2>1, Zenon
  <2>3. got[j] = s[j] /\ s[j] = body[j]
    BY <1>1, <1>4, <2>1, Zenon
  <2>4. QED
    BY <2>2, <2>3, Zenon
<1>9. Len(body) < BUF_SIZE /\ b[Len(body)] = 0
  BY <1>1, <1>5, <1>7, Zenon
<1>10. Holds(b, m)
  BY <1>8, <1>9, Zenon DEF Holds, body
<1>11. QED
  BY <1>1, <1>6, <1>10, Zenon DEF m, b

(* While a message is owed, recv does not return 0.                        *)
LEMMA NotTheEnd ==
  ASSUME NEW s \in Streams, s # <<>>, NEW f \in Seq(Messages), FitBuffer(f), NEW buf,
         LengthRead(buf, s, f)
  PROVE  SizeIn(buf) # 0 /\ Head(s) # END
<1>1. /\ SizeIn(buf) \in Nat /\ SizeIn(buf) >= 1 /\ SizeIn(buf) <= InFlight(s)
  BY BodyIsNext, Zenon
<1>2. InFlight(s) \in Nat /\ s \in Seq(Bytes \cup {END})
  BY InFlightIs
<1>3. 1 \in 1 .. InFlight(s) /\ SizeIn(buf) # 0
  BY <1>1, <1>2
<1>4. s[1] \in Bytes
  BY <1>3, InFlightIs, Zenon
<1>5. Head(s) = s[1]
  BY <1>2
<1>6. QED
  BY <1>3, <1>4, <1>5, NotAByte, Zenon
=============================================================================
