----------------------------- MODULE CodecProofs -----------------------------
(***************************************************************************)
(* Proofs about the format of the messages: a message that was written is  *)
(* read back field by field, whatever its fields hold, as long as it fits  *)
(* the buffer.                                                             *)
(***************************************************************************)
EXTENDS Codec, BasicLemmas, SequenceTheorems

(***************************************************************************)
(* Integers.                                                               *)
(***************************************************************************)
LEMMA ByteIs == ASSUME NEW n \in Nat PROVE Byte(n) \in Bytes
BY DEF Byte, Bytes

(* What two bytes can count.                                               *)
Fits(n) == n < 65536

LEMMA Uint16Is ==
  ASSUME NEW n \in Nat
  PROVE  /\ Uint16(n) \in Seq(Bytes) /\ Len(Uint16(n)) = 2
         /\ Uint16(n)[1] = n % 256 /\ Uint16(n)[2] = (n \div 256) % 256
<1>1. n \div 256 \in Nat
  OBVIOUS
<1>2. Byte(n) \in Bytes /\ Byte(n \div 256) \in Bytes
  BY <1>1, ByteIs
<1>3. QED
  BY <1>2 DEF Uint16, Byte

LEMMA Uint16Value ==
  ASSUME NEW n \in Nat, Fits(n)
  PROVE  Uint16(n)[1] + 256 * Uint16(n)[2] = n
<1>1. (n % 256) + 256 * (n \div 256) = n
  OBVIOUS
<1>2. PICK q : q = n \div 256
  OBVIOUS
<1>3. (n \div 256) % 256 = n \div 256
  <2>1. q \in Nat /\ n >= 256 * q
    BY <1>2
  <2>2. q < 256
    BY <2>1 DEF Fits
  <2>3. q % 256 = q
    BY <2>1, <2>2
  <2>4. QED
    BY <1>2, <2>3
<1>4. Uint16(n)[1] = n % 256 /\ Uint16(n)[2] = n \div 256
  BY <1>3 DEF Uint16, Byte
<1>5. QED
  BY <1>1, <1>4, Zenon

LEMMA Uint32Is ==
  ASSUME NEW n \in UInt32
  PROVE  /\ Uint32(n) \in Seq(Bytes) /\ Len(Uint32(n)) = 4
         /\ n = Uint32(n)[1] + 256 * Uint32(n)[2] + 65536 * (Uint32(n)[3] + 256 * Uint32(n)[4])
<1> DEFINE high == n \div 65536
           w    == Uint32(n)
<1>1. n \in Nat /\ high \in Nat /\ Fits(high)
  BY DEF UInt32, Fits
<1>2. w = Uint16(n) \o Uint16(high)
  BY DEF Uint32
<1>3. n = (n % 256) + 256 * ((n \div 256) % 256) + 65536 * high
  BY <1>1
<1> HIDE DEF high, w
<1>4. /\ Uint16(n) \in Seq(Bytes) /\ Len(Uint16(n)) = 2
      /\ Uint16(n)[1] = n % 256 /\ Uint16(n)[2] = (n \div 256) % 256
  BY <1>1, Uint16Is, Zenon
<1>5. /\ Uint16(high) \in Seq(Bytes) /\ Len(Uint16(high)) = 2
      /\ Uint16(high)[1] + 256 * Uint16(high)[2] = high
  BY <1>1, Uint16Is, Uint16Value, Zenon
<1> DEFINE s == Uint16(n)
           t == Uint16(high)
<1>6. s \in Seq(Bytes) /\ t \in Seq(Bytes) /\ Len(s) = 2 /\ Len(t) = 2 /\ w = s \o t
  BY <1>2, <1>4, <1>5, Zenon
<1> HIDE DEF s, t
<1>7. /\ Len(s) + Len(t) = 4 /\ 1 \in 1 .. Len(s) /\ 2 \in 1 .. Len(s)
      /\ 3 \in 1 .. Len(s) + Len(t) /\ ~ (3 <= Len(s)) /\ 3 - Len(s) = 1
      /\ 4 \in 1 .. Len(s) + Len(t) /\ ~ (4 <= Len(s)) /\ 4 - Len(s) = 2
  BY <1>6
<1>8. w \in Seq(Bytes) /\ Len(w) = 4
  <2>1. s \o t \in Seq(Bytes) /\ Len(s \o t) = Len(s) + Len(t)
    BY <1>6, Joining, Zenon
  <2>2. QED
    BY <1>6, <1>7, <2>1, Zenon
<1>9. w[1] = n % 256 /\ w[2] = (n \div 256) % 256 /\ w[3] + 256 * w[4] = high
  <2>1. ASSUME NEW k \in 1 .. Len(s) PROVE (s \o t)[k] = s[k]
    BY <1>6, JoinLeft, Zenon
  <2>2. (s \o t)[3] = t[3 - Len(s)] /\ (s \o t)[4] = t[4 - Len(s)]
    BY <1>6, <1>7, JoinRight, Zenon
  <2>3. w[1] = s[1] /\ w[2] = s[2] /\ w[3] = t[1] /\ w[4] = t[2]
    BY <1>6, <1>7, <2>1, <2>2
  <2>4. QED
    BY <1>4, <1>5, <2>3, Zenon DEF s, t
<1>10. n = w[1] + 256 * w[2] + 65536 * (w[3] + 256 * w[4])
  <2> DEFINE x == w[1]
             y == w[2]
             z == w[3] + 256 * w[4]
  <2>1. x = n % 256 /\ y = (n \div 256) % 256 /\ z = high
    BY <1>9
  <2> HIDE DEF x, y, z
  <2>2. n = x + 256 * y + 65536 * z
    BY <1>3, <2>1
  <2>3. QED
    BY <2>2 DEF x, y, z
<1>11. QED
  BY <1>8, <1>10 DEF w

LEMMA Uint32Bytes == ASSUME NEW n \in UInt32 PROVE Uint32(n) \in Seq(Bytes)
BY Uint32Is

(***************************************************************************)
(* Frames.                                                                 *)
(***************************************************************************)

(* What the length of a frame says.                                        *)
SizeOf(f) == f[1] + 256 * f[2]

(* A size that counts all that was written gives a frame with all of it.   *)
LEMMA FrameIs ==
  ASSUME NEW body \in Seq(Bytes), NEW n, n = Len(body), NEW f, f = Frame(n, body)
  PROVE  /\ f \in Seq(Bytes) /\ n \in Nat /\ Len(f) = 2 + n
         /\ Fits(n) => SizeOf(f) = n
         /\ LiesAt(f, 2, body)
<1>1. n \in Nat /\ SubSeq(body, 1, n) = body
  BY SubSeqFull, LenProperties, Zenon
<1>2. Uint16(n) \in Seq(Bytes) /\ Len(Uint16(n)) = 2
  BY <1>1, Uint16Is, Zenon
<1>3. f = Uint16(n) \o body
  BY <1>1, Zenon DEF Frame
<1> DEFINE s == Uint16(n)
<1>4. s \in Seq(Bytes) /\ Len(s) = 2 /\ f = s \o body
  BY <1>2, <1>3, Zenon
<1> HIDE DEF s
<1>5. s \o body \in Seq(Bytes) /\ Len(s \o body) = Len(s) + Len(body)
  BY <1>4, Joining, Zenon
<1>6. f \in Seq(Bytes) /\ Len(f) = 2 + n
  BY <1>4, <1>5, Zenon
<1>7. ASSUME NEW j \in 1 .. n PROVE f[2 + j] = body[j]
  <2> DEFINE k == 2 + j
  <2>1. k \in 1 .. Len(s) + Len(body) /\ ~ (k <= Len(s)) /\ k - Len(s) = j
    BY <1>1, <1>4
  <2> HIDE DEF k
  <2>2. (s \o body)[k] = body[k - Len(s)]
    BY <1>4, <2>1, JoinRight, Zenon
  <2>3. f[k] = body[j]
    BY <1>4, <2>1, <2>2
  <2>4. QED
    BY <2>3 DEF k
<1>8. f[1] = s[1] /\ f[2] = s[2]
  <2>1. 1 \in 1 .. Len(s) /\ 2 \in 1 .. Len(s)
    BY <1>4
  <2>2. ASSUME NEW k \in 1 .. Len(s) PROVE (s \o body)[k] = s[k]
    BY <1>4, JoinLeft, Zenon
  <2>3. (s \o body)[1] = s[1]
    BY <2>1, <2>2, Zenon
  <2>4. (s \o body)[2] = s[2]
    BY <2>1, <2>2, Zenon
  <2>5. QED
    BY <1>4, <2>3, <2>4, Zenon
<1>9. Fits(n) => s[1] + 256 * s[2] = n
  BY <1>1, Uint16Value, Zenon DEF s
<1>10. Fits(n) => SizeOf(f) = n
  BY <1>8, <1>9, Zenon DEF SizeOf
<1>11. LiesAt(f, 2, body)
  BY <1>7 DEF LiesAt
<1>12. QED
  BY <1>1, <1>6, <1>10, <1>11, Zenon

(* A string and the 0 after it.                                            *)
LEMMA StrcpyIs ==
  ASSUME NEW s \in Seq(Char)
  PROVE  /\ Strcpy(s) \in Seq(Bytes) /\ Len(s) \in Nat /\ Len(Strcpy(s)) = Len(s) + 1
         /\ Strcpy(s)[Len(s) + 1] = 0
         /\ \A j \in 1 .. Len(s) : Strcpy(s)[j] = s[j]
<1>1. s \in Seq(Bytes)
  BY SeqMonotonic DEF Char, Bytes
<1>2. 0 \in Bytes
  BY DEF Bytes
<1>3. QED
  BY <1>1, <1>2 DEF Strcpy

(***************************************************************************)
(* Requests.                                                               *)
(***************************************************************************)
WithText == {"CONNECT", "SEND_MESSAGE", "SET_BIOGRAPHY"}

(* What a client writes after the length.                                  *)
BodyOf(m) ==
  Request(m.type) \o (CASE m.type \in WithText -> Strcpy(m.text)
                        [] m.type = "JOIN_ROOM" -> Uint32(m.room_id) \o <<m.spectate>>
                        [] m.type = "PLAY"      -> <<Byte(m.pos)>>
                        [] OTHER                -> <<>>)

LEMMA RequestIs ==
  ASSUME NEW t \in DOMAIN ClientServerProtocol
  PROVE  /\ Request(t) \in Seq(Bytes) /\ Len(Request(t)) = 1
         /\ Request(t)[1] = ClientServerProtocol[t]
<1>1. t \in {"CONNECT", "CREATE_ROOM", "JOIN_ROOM", "PLAY", "LEAVE_ROOM", "SEND_MESSAGE",
             "SET_BIOGRAPHY"}
  BY DEF ClientServerProtocol
<1>2. ClientServerProtocol[t] \in Bytes
  BY <1>1 DEF ClientServerProtocol, Bytes
<1>3. QED
  BY <1>2 DEF Request

(* The enumerators have different values.                                  *)
LEMMA TypeReadBack ==
  ASSUME NEW t \in DOMAIN ClientServerProtocol
  PROVE  TypeOf(ClientServerProtocol, ClientServerProtocol[t]) = t
<1>1. DOMAIN ClientServerProtocol =
        {"CONNECT", "CREATE_ROOM", "JOIN_ROOM", "PLAY", "LEAVE_ROOM", "SEND_MESSAGE",
         "SET_BIOGRAPHY"}
  BY DEF ClientServerProtocol
<1>2. ASSUME NEW u \in DOMAIN ClientServerProtocol,
             ClientServerProtocol[u] = ClientServerProtocol[t]
      PROVE  u = t
  BY <1>1, <1>2 DEF ClientServerProtocol
<1>3. QED
  BY <1>2 DEF TypeOf

(* The size a writer computes is the number of bytes it writes.            *)
LEMMA RequestBytesIs ==
  ASSUME NEW m \in Requests
  PROVE  /\ BodyOf(m) \in Seq(Bytes) /\ Len(BodyOf(m)) >= 1
         /\ RequestBytes(m) = Frame(Len(BodyOf(m)), BodyOf(m))
         /\ m.type \in DOMAIN ClientServerProtocol
         /\ BodyOf(m)[1] = ClientServerProtocol[m.type]
<1>1. CASE m \in [type : WithText, text : Seq(Char)]
  <2>1. m.type \in WithText /\ m.text \in Seq(Char) /\ m.type \in DOMAIN ClientServerProtocol
    BY <1>1 DEF WithText, ClientServerProtocol
  <2>2. BodyOf(m) = Request(m.type) \o Strcpy(m.text)
    BY <2>1 DEF BodyOf, WithText
  <2>3. /\ BodyOf(m) \in Seq(Bytes) /\ Len(BodyOf(m)) = Len(m.text) + 2
        /\ BodyOf(m)[1] = ClientServerProtocol[m.type]
    <3> DEFINE s == Request(m.type)
               t == Strcpy(m.text)
               n == Len(m.text)
    <3>1. /\ s \in Seq(Bytes) /\ Len(s) = 1 /\ s[1] = ClientServerProtocol[m.type]
          /\ t \in Seq(Bytes) /\ Len(t) = n + 1 /\ n \in Nat
      BY <2>1, RequestIs, StrcpyIs, Zenon
    <3> HIDE DEF s, t, n
    <3>2. Len(s) + Len(t) = n + 2 /\ 1 \in 1 .. Len(s)
      BY <3>1
    <3>3. s \o t \in Seq(Bytes) /\ Len(s \o t) = Len(s) + Len(t) /\ (s \o t)[1] = s[1]
      BY <3>1, <3>2, Joining, JoinLeft, Zenon
    <3>4. QED
      BY <2>2, <3>1, <3>2, <3>3, Zenon DEF s, t, n
  <2>4. RequestBytes(m) = Frame(Len(BodyOf(m)), BodyOf(m))
    BY <2>1, <2>2, <2>3 DEF RequestBytes, WriteConnect, WriteSendMessage, WriteSetBiography,
                            WithText, Strlen
  <2>5. QED
    BY <2>1, <2>3, <2>4, LenProperties
<1>2. CASE m \in [type : {"CREATE_ROOM", "LEAVE_ROOM"}]
  <2>1. m.type \in {"CREATE_ROOM", "LEAVE_ROOM"} /\ m.type \in DOMAIN ClientServerProtocol
    BY <1>2 DEF ClientServerProtocol
  <2>2. BodyOf(m) = Request(m.type)
    BY <2>1, RequestIs, ConcatEmptySeq DEF BodyOf, WithText
  <2>3. QED
    BY <2>1, <2>2, RequestIs DEF RequestBytes, WriteCreateRoom, WriteLeaveRoom
<1>3. CASE m \in [type : {"JOIN_ROOM"}, room_id : UInt32, spectate : Bytes]
  <2>1. /\ m.type = "JOIN_ROOM" /\ m.room_id \in UInt32 /\ m.spectate \in Bytes
        /\ m.type \in DOMAIN ClientServerProtocol
    BY <1>3 DEF ClientServerProtocol
  <2>2. BodyOf(m) = Request("JOIN_ROOM") \o (Uint32(m.room_id) \o <<m.spectate>>)
    BY <2>1 DEF BodyOf, WithText
  <2>3. BodyOf(m) = Request("JOIN_ROOM") \o Uint32(m.room_id) \o <<m.spectate>>
    <3>1. PICK r \in Seq(Bytes) : r = Request("JOIN_ROOM")
      BY <2>1, RequestIs
    <3>2. PICK s \in Seq(Bytes) : s = Uint32(m.room_id)
      BY <2>1, Uint32Bytes
    <3>3. PICK t \in Seq(Bytes) : t = <<m.spectate>>
      <4>1. PICK x \in Bytes : x = m.spectate
        BY <2>1
      <4>2. <<x>> \in Seq(Bytes)
        BY OneElement, Zenon
      <4>3. QED
        BY <4>1, <4>2, Zenon
    <3>4. Regroups(r, s, t)
      BY JoinAssociative
    <3>5. QED
      BY <2>2, <3>1, <3>2, <3>3, <3>4 DEF Regroups
  <2>4. /\ BodyOf(m) \in Seq(Bytes) /\ Len(BodyOf(m)) = 6
        /\ BodyOf(m)[1] = ClientServerProtocol[m.type]
    <3>1. /\ Request("JOIN_ROOM") \in Seq(Bytes) /\ Len(Request("JOIN_ROOM")) = 1
          /\ Request("JOIN_ROOM")[1] = ClientServerProtocol[m.type]
          /\ Uint32(m.room_id) \in Seq(Bytes) /\ Len(Uint32(m.room_id)) = 4
      BY <2>1, RequestIs, Uint32Is
    <3> DEFINE r == Request("JOIN_ROOM")
               s == Uint32(m.room_id)
               t == <<m.spectate>>
    <3>2. t \in Seq(Bytes) /\ Len(t) = 1
      BY <2>1
    <3> HIDE DEF r, s, t
    <3>3. /\ r \in Seq(Bytes) /\ Len(r) = 1 /\ r[1] = ClientServerProtocol[m.type]
          /\ s \in Seq(Bytes) /\ Len(s) = 4
      BY <3>1, Zenon DEF r, s
    <3>4. s \o t \in Seq(Bytes) /\ Len(s \o t) = Len(s) + Len(t)
      BY <3>2, <3>3, Joining, Zenon
    <3>5. Len(r) + Len(s \o t) = 6 /\ 1 \in 1 .. Len(r)
      BY <3>2, <3>3, <3>4
    <3>6. /\ r \o (s \o t) \in Seq(Bytes) /\ Len(r \o (s \o t)) = Len(r) + Len(s \o t)
          /\ (r \o (s \o t))[1] = r[1]
      BY <3>3, <3>4, <3>5, Joining, JoinLeft, Zenon
    <3>7. QED
      BY <2>2, <3>3, <3>5, <3>6, Zenon DEF r, s, t
  <2>5. QED
    BY <2>1, <2>3, <2>4 DEF RequestBytes, WriteJoinRoom
<1>4. CASE m \in [type : {"PLAY"}, pos : Bytes]
  <2>1. m.type = "PLAY" /\ m.pos \in Bytes /\ m.type \in DOMAIN ClientServerProtocol
    BY <1>4 DEF ClientServerProtocol
  <2>2. BodyOf(m) = Request("PLAY") \o <<Byte(m.pos)>>
    BY <2>1 DEF BodyOf, WithText
  <2>3. Byte(m.pos) \in Bytes
    BY <2>1 DEF Bytes, Byte
  <2>4. /\ BodyOf(m) \in Seq(Bytes) /\ Len(BodyOf(m)) = 2
        /\ BodyOf(m)[1] = ClientServerProtocol[m.type]
    <3>1. /\ Request("PLAY") \in Seq(Bytes) /\ Len(Request("PLAY")) = 1
          /\ Request("PLAY")[1] = ClientServerProtocol[m.type]
      BY <2>1, RequestIs
    <3>2. QED
      BY <2>2, <2>3, <3>1
  <2>5. QED
    BY <2>1, <2>2, <2>4 DEF RequestBytes, WritePlay
<1>5. QED
  BY <1>1, <1>2, <1>3, <1>4 DEF Requests, WithText

(***************************************************************************)
(* Reading.                                                                *)
(***************************************************************************)
LEMMA BufferSize == BUF_SIZE \in Nat /\ BUF_SIZE >= 3 /\ BUF_SIZE <= 65536
BY CodecAssumption

LEMMA CharIs == \A c \in Char : c # 0
BY DEF Char

(* A string that lies in the buffer with its 0.                            *)
LEMMA StringIs ==
  ASSUME NEW buf, NEW s \in Seq(Char), NEW k \in Nat, k + Len(s) < BUF_SIZE,
         \A j \in 1 .. Len(s) : buf[k + j - 1] = s[j], buf[k + Len(s)] = 0
  PROVE  StringAt(buf, k) = s
<1> DEFINE ends == {e \in k .. BUF_SIZE - 1 : buf[e] = 0}
           n    == Len(s)
<1>1. n \in Nat /\ s = [j \in 1 .. n |-> s[j]]
  OBVIOUS
<1>2. ASSUME NEW e \in k .. k + n - 1 PROVE buf[e] # 0
  <2> DEFINE j == e - k + 1
  <2>1. j \in 1 .. n /\ e = k + j - 1
    BY <1>1
  <2>2. s[j] \in Char
    BY <1>1, <2>1, ElementOfSeq, Zenon
  <2>3. buf[e] = s[j]
    BY <2>1
  <2> HIDE DEF j
  <2>4. s[j] # 0
    BY <2>2, CharIs, Zenon
  <2>5. QED
    BY <2>3, <2>4, Zenon
<1>3. Min(ends) = k + n
  <2>1. k + n \in ends
    BY <1>1, BufferSize
  <2>2. ends \in SUBSET Nat /\ ends # {}
    BY <2>1, BufferSize
  <2>3. \A e \in ends : e >= k + n
    BY <1>1, <1>2, BufferSize
  <2> HIDE DEF ends
  <2>4. Min(ends) \in ends /\ \A e \in ends : Min(ends) <= e
    BY <2>2, MinOfNaturals, Zenon
  <2>5. QED
    BY <1>1, <2>1, <2>2, <2>3, <2>4
<1>4. ends # {}
  BY <1>1, BufferSize
<1>5. StringAt(buf, k) = BytesAt(buf, k, Min(ends) - k)
  BY <1>4, Zenon DEF StringAt
<1>6. Min(ends) - k = n
  <2> HIDE DEF ends
  <2>1. QED
    BY <1>1, <1>3
<1>7. BytesAt(buf, k, n) = s
  BY <1>1 DEF BytesAt
<1>8. QED
  BY <1>5, <1>6, <1>7, Zenon

(* The bytes of a request that the reader looks at.                        *)
LEMMA TextBody ==
  ASSUME NEW m \in [type : WithText, text : Seq(Char)], NEW n, n = Len(m.text)
  PROVE  /\ n \in Nat /\ Len(BodyOf(m)) = n + 2 /\ BodyOf(m)[n + 2] = 0
         /\ \A j \in 1 .. n : BodyOf(m)[j + 1] = m.text[j]
<1> DEFINE s == Request(m.type)
           t == Strcpy(m.text)
<1>1. m.type \in WithText /\ m.type \in DOMAIN ClientServerProtocol /\ m.text \in Seq(Char)
  BY DEF WithText, ClientServerProtocol
<1>2. BodyOf(m) = s \o t
  BY <1>1 DEF BodyOf, WithText
<1>3. /\ s \in Seq(Bytes) /\ Len(s) = 1 /\ t \in Seq(Bytes) /\ n \in Nat /\ Len(t) = n + 1
      /\ t[n + 1] = 0
  BY <1>1, RequestIs, StrcpyIs, Zenon
<1>4. \A j \in 1 .. n : t[j] = m.text[j]
  BY <1>1, StrcpyIs, Zenon
<1> HIDE DEF s, t
<1>5. ASSUME NEW j \in 1 .. n + 1 PROVE BodyOf(m)[j + 1] = t[j]
  <2> DEFINE k == j + 1
  <2>1. k \in 1 .. Len(s) + Len(t) /\ ~ (k <= Len(s)) /\ k - Len(s) = j
    BY <1>3
  <2> HIDE DEF k
  <2>2. (s \o t)[k] = t[k - Len(s)]
    BY <1>3, <2>1, JoinRight, Zenon
  <2>3. QED
    BY <1>2, <2>1, <2>2, Zenon DEF k
<1>6. Len(BodyOf(m)) = n + 2
  <2>1. Len(s \o t) = Len(s) + Len(t)
    BY <1>3, Joining, Zenon
  <2>2. Len(s) + Len(t) = n + 2
    BY <1>3
  <2>3. QED
    BY <1>2, <2>1, <2>2, Zenon
<1>7. BodyOf(m)[n + 2] = 0
  <2>1. n + 1 \in 1 .. n + 1 /\ (n + 1) + 1 = n + 2
    BY <1>3
  <2>2. BodyOf(m)[(n + 1) + 1] = t[n + 1]
    BY <1>5, <2>1, Zenon
  <2>3. QED
    BY <1>3, <2>1, <2>2, Zenon
<1>8. ASSUME NEW j \in 1 .. n PROVE BodyOf(m)[j + 1] = m.text[j]
  <2>1. j \in 1 .. n + 1
    BY <1>3
  <2>2. QED
    BY <1>4, <1>5, <2>1, Zenon
<1>9. QED
  BY <1>3, <1>6, <1>7, <1>8, Zenon

LEMMA JoinBody ==
  ASSUME NEW m \in [type : {"JOIN_ROOM"}, room_id : UInt32, spectate : Bytes]
  PROVE  /\ Len(BodyOf(m)) = 6 /\ BodyOf(m)[6] = m.spectate
         /\ \A j \in 1 .. 4 : BodyOf(m)[j + 1] = Uint32(m.room_id)[j]
<1> DEFINE r == Request(m.type)
           s == Uint32(m.room_id)
           t == <<m.spectate>>
           b == s \o t
<1>1. m.type \in DOMAIN ClientServerProtocol /\ m.room_id \in UInt32 /\ m.spectate \in Bytes
  BY DEF ClientServerProtocol
<1>2. BodyOf(m) = r \o b
  BY DEF BodyOf, WithText
<1>3. t \in Seq(Bytes) /\ Len(t) = 1 /\ t[1] = m.spectate
  BY <1>1
<1>4. /\ r \in Seq(Bytes) /\ Len(r) = 1
      /\ s \in Seq(Bytes) /\ Len(s) = 4
  <2>1. r \in Seq(Bytes) /\ Len(r) = 1
    BY <1>1, RequestIs, Zenon
  <2>2. s \in Seq(Bytes) /\ Len(s) = 4
    BY <1>1, Uint32Is
  <2>3. QED
    BY <2>1, <2>2, Zenon
<1> HIDE DEF r, s, t
<1>5. r \in Seq(Bytes) /\ s \in Seq(Bytes) /\ t \in Seq(Bytes)
  BY <1>3, <1>4, Zenon
<1>6. b \in Seq(Bytes) /\ Len(b) = Len(s) + Len(t)
  BY <1>5, Joining, Zenon
<1>7. ASSUME NEW j \in 1 .. 5 PROVE b[j] = IF j <= 4 THEN s[j] ELSE m.spectate
  <2>1. CASE j <= 4
    <3>1. j \in 1 .. Len(s)
      BY <1>4, <2>1
    <3>2. b[j] = s[j]
      BY <1>5, <3>1, JoinLeft
    <3>3. QED
      BY <2>1, <3>2, Zenon
  <2>2. CASE ~ (j <= 4)
    <3>1. j \in 1 .. Len(s) + Len(t) /\ ~ (j <= Len(s)) /\ j - Len(s) = 1
      BY <1>3, <1>4, <2>2
    <3>2. b[j] = t[j - Len(s)]
      BY <1>5, <3>1, JoinRight
    <3>3. QED
      BY <1>3, <2>2, <3>1, <3>2, Zenon
  <2>3. QED
    BY <2>1, <2>2, Zenon
<1> HIDE DEF b
<1>8. ASSUME NEW j \in 1 .. 5 PROVE BodyOf(m)[j + 1] = b[j]
  <2> DEFINE k == j + 1
  <2>1. k \in 1 .. Len(r) + Len(b) /\ ~ (k <= Len(r)) /\ k - Len(r) = j
    BY <1>3, <1>4, <1>6
  <2> HIDE DEF k
  <2>2. (r \o b)[k] = b[k - Len(r)]
    BY <1>5, <1>6, <2>1, JoinRight
  <2>3. QED
    BY <1>2, <2>1, <2>2, Zenon DEF k
<1>9. Len(BodyOf(m)) = 6
  <2>1. Len(r \o b) = Len(r) + Len(b)
    BY <1>5, <1>6, Joining, Zenon
  <2>2. Len(r) + Len(b) = 6
    BY <1>3, <1>4, <1>6
  <2>3. QED
    BY <1>2, <2>1, <2>2, Zenon
<1>10. BodyOf(m)[6] = m.spectate
  <2>1. 5 \in 1 .. 5 /\ 5 + 1 = 6 /\ ~ (5 <= 4)
    OBVIOUS
  <2>2. BodyOf(m)[5 + 1] = m.spectate
    BY <1>7, <1>8, <2>1, Zenon
  <2>3. QED
    BY <2>1, <2>2, Zenon
<1>11. ASSUME NEW j \in 1 .. 4 PROVE BodyOf(m)[j + 1] = s[j]
  <2>1. j \in 1 .. 5 /\ j <= 4
    OBVIOUS
  <2>2. b[j] = s[j]
    BY <1>7, <2>1, Zenon
  <2>3. BodyOf(m)[j + 1] = b[j]
    BY <1>8, <2>1, Zenon
  <2>4. QED
    BY <2>2, <2>3, Zenon
<1>12. QED
  BY <1>9, <1>10, <1>11, Zenon DEF s

LEMMA PlayBody ==
  ASSUME NEW m \in [type : {"PLAY"}, pos : Bytes]
  PROVE  Len(BodyOf(m)) = 2 /\ BodyOf(m)[2] = m.pos
<1>1. m.type \in DOMAIN ClientServerProtocol /\ m.pos \in Bytes
  BY DEF ClientServerProtocol
<1>2. BodyOf(m) = Request(m.type) \o <<Byte(m.pos)>>
  BY DEF BodyOf, WithText
<1>3. Byte(m.pos) \in Bytes /\ Byte(m.pos) = m.pos
  BY <1>1 DEF Bytes, Byte
<1>4. Request(m.type) \in Seq(Bytes) /\ Len(Request(m.type)) = 1
  BY <1>1, RequestIs, Zenon
<1>5. QED
  BY <1>2, <1>3, <1>4

(* What the switch of the reader finds.                                    *)
LEMMA ReadCases ==
  ASSUME NEW m, NEW buf, TypeOf(ClientServerProtocol, buf[0]) = m.type
  PROVE  /\ m.type \in WithText =>
              ReadRequest(buf) = [type |-> m.type, text |-> StringAt(buf, 1)]
         /\ m.type = "JOIN_ROOM" =>
              ReadRequest(buf) = [type |-> m.type, room_id |-> Uint32At(buf, 1),
                                  spectate |-> buf[5]]
         /\ m.type = "PLAY" => ReadRequest(buf) = [type |-> m.type, pos |-> buf[1]]
         /\ m.type \in {"CREATE_ROOM", "LEAVE_ROOM"} => ReadRequest(buf) = [type |-> m.type]
<1>1. 4 + 1 = 5
  OBVIOUS
<1>2. QED
  BY <1>1 DEF ReadRequest, WithText

(* Every message a client may write is read back by the server as it was,  *)
(* field by field, when its body lies at the start of the buffer.          *)
THEOREM RequestsReadBack ==
  ASSUME NEW m \in Requests, NEW buf, Len(BodyOf(m)) <= BUF_SIZE,
         \A j \in 1 .. Len(BodyOf(m)) : buf[j - 1] = BodyOf(m)[j]
  PROVE  ReadRequest(buf) = m
<1>1. /\ Len(BodyOf(m)) \in Nat /\ Len(BodyOf(m)) >= 1
      /\ m.type \in DOMAIN ClientServerProtocol
      /\ BodyOf(m)[1] = ClientServerProtocol[m.type]
  BY RequestBytesIs, LenProperties
<1>2. TypeOf(ClientServerProtocol, buf[0]) = m.type
  <2>1. 1 \in 1 .. Len(BodyOf(m)) /\ 1 - 1 = 0
    BY <1>1
  <2>2. buf[0] = ClientServerProtocol[m.type]
    BY <1>1, <2>1
  <2>3. QED
    BY <1>1, <2>2, TypeReadBack, Zenon
<1>3. CASE m \in [type : WithText, text : Seq(Char)]
  <2> DEFINE n == Len(m.text)
  <2>1. /\ n \in Nat /\ Len(BodyOf(m)) = n + 2 /\ BodyOf(m)[n + 2] = 0
        /\ \A j \in 1 .. n : BodyOf(m)[j + 1] = m.text[j]
    BY <1>3, TextBody, Zenon
  <2>2. m.type \in WithText /\ m.text \in Seq(Char) /\ m = [type |-> m.type, text |-> m.text]
    BY <1>3
  <2> HIDE DEF n
  <2>3. 1 + n < BUF_SIZE
    BY <2>1, BufferSize
  <2>4. ASSUME NEW j \in 1 .. n PROVE buf[1 + j - 1] = m.text[j]
    <3>1. j + 1 \in 1 .. Len(BodyOf(m)) /\ (j + 1) - 1 = 1 + j - 1
      BY <2>1
    <3>2. QED
      BY <2>1, <3>1
  <2>5. buf[1 + n] = 0
    <3>1. n + 2 \in 1 .. Len(BodyOf(m)) /\ (n + 2) - 1 = 1 + n
      BY <2>1
    <3>2. QED
      BY <2>1, <3>1
  <2>6. StringAt(buf, 1) = m.text
    <3>1. 1 \in Nat
      OBVIOUS
    <3>2. QED
      BY <2>2, <2>3, <2>4, <2>5, <3>1, StringIs, Zenon DEF n
  <2>7. QED
    BY <1>2, <2>2, <2>6, ReadCases, Zenon
<1>4. CASE m \in [type : {"CREATE_ROOM", "LEAVE_ROOM"}]
  <2>1. m.type \in {"CREATE_ROOM", "LEAVE_ROOM"} /\ m = [type |-> m.type]
    BY <1>4
  <2>2. QED
    BY <1>2, <2>1, ReadCases, Zenon
<1>5. CASE m \in [type : {"JOIN_ROOM"}, room_id : UInt32, spectate : Bytes]
  <2>1. /\ Len(BodyOf(m)) = 6 /\ BodyOf(m)[6] = m.spectate
        /\ \A j \in 1 .. 4 : BodyOf(m)[j + 1] = Uint32(m.room_id)[j]
    BY <1>5, JoinBody, Zenon
  <2>2. /\ m.type = "JOIN_ROOM" /\ m.room_id \in UInt32
        /\ m = [type |-> m.type, room_id |-> m.room_id, spectate |-> m.spectate]
    BY <1>5
  <2>3. ASSUME NEW j \in 1 .. 4 PROVE buf[j] = Uint32(m.room_id)[j]
    <3>1. j + 1 \in 1 .. Len(BodyOf(m)) /\ (j + 1) - 1 = j
      BY <2>1
    <3>2. QED
      BY <2>1, <3>1
  <2>4. buf[5] = m.spectate
    <3>1. 6 \in 1 .. Len(BodyOf(m)) /\ 6 - 1 = 5
      BY <2>1
    <3>2. buf[6 - 1] = BodyOf(m)[6]
      BY <3>1
    <3>3. QED
      BY <2>1, <3>1, <3>2, Zenon
  <2>5. Uint32At(buf, 1) = m.room_id
    <3> DEFINE w == Uint32(m.room_id)
    <3>1. m.room_id = w[1] + 256 * w[2] + 65536 * (w[3] + 256 * w[4])
      BY <2>2, Uint32Is
    <3>2. buf[1] = w[1] /\ buf[2] = w[2] /\ buf[3] = w[3] /\ buf[4] = w[4]
      BY <2>3
    <3> HIDE DEF w
    <3>3. Uint32At(buf, 1) = buf[1] + 256 * buf[2] + 65536 * (buf[3] + 256 * buf[4])
      BY DEF Uint32At
    <3>4. QED
      BY <3>1, <3>2, <3>3
  <2>6. QED
    BY <1>2, <2>2, <2>4, <2>5, ReadCases
<1>6. CASE m \in [type : {"PLAY"}, pos : Bytes]
  <2>1. Len(BodyOf(m)) = 2 /\ BodyOf(m)[2] = m.pos
    BY <1>6, PlayBody, Zenon
  <2>2. m.type = "PLAY" /\ m = [type |-> m.type, pos |-> m.pos]
    BY <1>6
  <2>3. buf[1] = m.pos
    <3>1. 2 \in 1 .. Len(BodyOf(m)) /\ 2 - 1 = 1
      BY <2>1
    <3>2. buf[2 - 1] = BodyOf(m)[2]
      BY <3>1
    <3>3. QED
      BY <2>1, <3>1, <3>2, Zenon
  <2>4. QED
    BY <1>2, <2>2, <2>3, ReadCases
<1>7. QED
  BY <1>3, <1>4, <1>5, <1>6 DEF Requests, WithText

(***************************************************************************)
(* Sequences that are joined, and strings that are counted.                *)
(***************************************************************************)
(* Sequences that are joined one after the other.                          *)
IsJoin(g, S, ss, n) == /\ g \in [0 .. n -> Seq(S)] /\ g[0] = <<>>
                       /\ \A k \in 1 .. n : g[k] = g[k - 1] \o ss[k]

IsList(ss, S, n) == /\ n \in Nat /\ n = Len(ss) /\ ss \in [1 .. n -> Seq(S)]
                    /\ n = 0 => ss = <<>>

LEMMA JoinExists ==
  ASSUME NEW S, NEW n \in Nat, NEW ss \in [1 .. n -> Seq(S)]
  PROVE  \E g : IsJoin(g, S, ss, n)
<1> DEFINE X == Seq(S)
           F == [e \in X \X (1 .. n) |-> e[1] \o ss[e[2]]]
           none == <<>>
<1>1. none \in X
  OBVIOUS
<1>2. IsStep(F, X, n)
  <2>1. \A h \in X : \A k \in 1 .. n : h \o ss[k] \in X
    OBVIOUS
  <2>2. QED
    BY <2>1 DEF IsStep
<1> HIDE DEF F, none, X
<1>3. PICK g : IsRun(g, none, F, X, n)
  BY <1>1, <1>2, Recursion
<1>4. g \in [0 .. n -> X] /\ g[0] = none /\ \A k \in 1 .. n : g[k] = F[<<g[k - 1], k>>]
  BY <1>3 DEF IsRun
<1>5. ASSUME NEW k \in 1 .. n PROVE g[k] = g[k - 1] \o ss[k]
  <2>1. g[k - 1] \in X
    BY <1>4
  <2>2. F[<<g[k - 1], k>>] = g[k - 1] \o ss[k]
    BY <2>1 DEF F
  <2>3. QED
    BY <1>4, <2>2
<1>6. IsJoin(g, S, ss, n)
  BY <1>4, <1>5 DEF IsJoin, X, none
<1>7. QED
  BY <1>6

LEMMA JoinIs ==
  ASSUME NEW S, NEW ss, NEW n, IsList(ss, S, n), NEW g, IsJoin(g, S, ss, n)
  PROVE  FlattenSeq(ss) = g[n]
<1> USE DEF IsList
<1>1. CASE n = 0
  BY <1>1 DEF FlattenSeq, IsJoin
<1>2. CASE n # 0
  <2>1. /\ g \in [0 .. n -> Seq(S)] /\ g[0] = <<>>
        /\ \A k \in 1 .. n : g[k] = g[k - 1] \o ss[k]
    BY DEF IsJoin
  <2>2. g[1] = ss[1]
    <3>1. 1 \in 1 .. n /\ 1 - 1 = 0
      BY <1>2
    <3>2. g[1] = <<>> \o ss[1] /\ ss[1] \in Seq(S)
      BY <2>1, <3>1
    <3>3. QED
      BY <3>2
  <2> DEFINE h == [k \in 1 .. n |-> g[k]]
  <2>3. ASSUME NEW k \in 1 .. n PROVE h[k] = IF k = 1 THEN ss[k] ELSE h[k - 1] \o ss[k]
    <3>1. CASE k = 1
      BY <2>2, <3>1
    <3>2. CASE k # 1
      <4>1. k - 1 \in 1 .. n
        BY <3>2
      <4>2. QED
        BY <2>1, <3>2, <4>1
    <3>3. QED
      BY <3>1, <3>2
  <2>4. h = [k \in 1 .. n |-> IF k = 1 THEN ss[k] ELSE h[k - 1] \o ss[k]]
    BY <2>3
  <2> HIDE DEF h
  <2>5. PICK f : f = CHOOSE e : e = [k \in 1 .. n |-> IF k = 1 THEN ss[k] ELSE e[k - 1] \o ss[k]]
    OBVIOUS
  <2>6. f = [k \in 1 .. n |-> IF k = 1 THEN ss[k] ELSE f[k - 1] \o ss[k]]
    BY <2>4, <2>5
  <2>7. FlattenSeq(ss) = f[n]
    BY <1>2, <2>5 DEF FlattenSeq
  <2> DEFINE P == {k \in 0 .. n : k >= 1 => f[k] = g[k]}
  <2>8. 0 \in P
    OBVIOUS
  <2>9. ASSUME NEW k \in 0 .. n - 1, k \in P PROVE k + 1 \in P
    <3>1. k + 1 \in 1 .. n /\ k + 1 \in 0 .. n /\ (k + 1) - 1 = k
      OBVIOUS
    <3>2. CASE k = 0
      <4>1. f[1] = ss[1]
        BY <2>6, <3>1, <3>2
      <4>2. QED
        BY <2>2, <3>1, <3>2, <4>1
    <3>3. CASE k # 0
      <4>1. f[k] = g[k] /\ k + 1 # 1
        BY <2>9, <3>3
      <4>2. f[k + 1] = f[k] \o ss[k + 1]
        BY <2>6, <3>1, <4>1
      <4>3. g[k + 1] = g[k] \o ss[k + 1]
        BY <2>1, <3>1
      <4>4. QED
        BY <3>1, <4>1, <4>2, <4>3
    <3>4. QED
      BY <3>2, <3>3
  <2> HIDE DEF P
  <2>10. \A k \in 0 .. n : k \in P
    BY <2>8, <2>9, Induction
  <2>11. n \in P
    BY <2>10
  <2>12. QED
    BY <1>2, <2>7, <2>11 DEF P
<1>3. QED
  BY <1>1, <1>2

(* What a sequence is when it grows at the end, or loses its head.         *)
LEMMA ElementsOfAppend ==
  ASSUME NEW X, NEW t \in Seq(X), NEW a \in X
  PROVE  /\ Len(t) + 1 = Len(Append(t, a)) /\ Append(t, a) \in [1 .. Len(t) + 1 -> X]
         /\ Append(t, a)[Len(t) + 1] = a
         /\ \A k \in 1 .. Len(t) : Append(t, a)[k] = t[k]
<1> DEFINE n == Len(t)
           u == Append(t, a)
<1>1. n \in Nat /\ u \in Seq(X) /\ Len(u) = n + 1
  OBVIOUS
<1>2. \A k \in 1 .. n : u[k] = t[k]
  OBVIOUS
<1>3. u[n + 1] = a
  OBVIOUS
<1> HIDE DEF n, u
<1>4. u \in [1 .. n + 1 -> X]
  BY <1>1
<1>5. QED
  BY <1>1, <1>2, <1>3, <1>4 DEF n, u

LEMMA ElementsOfTail ==
  ASSUME NEW X, NEW t \in Seq(X), t # <<>>
  PROVE  /\ Len(Tail(t)) \in Nat /\ Len(Tail(t)) + 1 = Len(t)
         /\ t \in [1 .. Len(Tail(t)) + 1 -> X] /\ Tail(t) \in [1 .. Len(Tail(t)) -> X]
         /\ (Len(Tail(t)) = 0 => Tail(t) = <<>>)
         /\ Head(t) \in X /\ t[1] = Head(t)
         /\ \A k \in 1 .. Len(Tail(t)) : Tail(t)[k] = t[k + 1]
<1> DEFINE n == Len(Tail(t))
           u == Tail(t)
<1>1. n \in Nat /\ u \in Seq(X) /\ Len(t) = n + 1 /\ Len(u) = n
  OBVIOUS
<1>2. \A k \in 1 .. n : u[k] = t[k + 1]
  OBVIOUS
<1>3. Head(t) \in X /\ t[1] = Head(t)
  OBVIOUS
<1> HIDE DEF n, u
<1>4. u \in [1 .. n -> X] /\ (n = 0 => u = <<>>)
  BY <1>1
<1>5. t \in [1 .. n + 1 -> X]
  BY <1>1
<1>6. QED
  BY <1>1, <1>2, <1>3, <1>4, <1>5 DEF n, u

(* The last one is joined last, and the first one first.                   *)
LEMMA JoinAppend ==
  ASSUME NEW S, NEW ss \in Seq(Seq(S)), NEW s \in Seq(S)
  PROVE  /\ FlattenSeq(ss) \in Seq(S)
         /\ FlattenSeq(Append(ss, s)) = FlattenSeq(ss) \o s
<1> DEFINE n == Len(ss)
           more == Append(ss, s)
<1>1. n \in Nat /\ ss \in [1 .. n -> Seq(S)] /\ (n = 0 => ss = <<>>)
  OBVIOUS
<1>2. /\ n + 1 = Len(more) /\ more \in [1 .. n + 1 -> Seq(S)]
      /\ more[n + 1] = s /\ \A k \in 1 .. n : more[k] = ss[k]
  BY ElementsOfAppend
<1> HIDE DEF n, more
<1>3. PICK g : IsJoin(g, S, ss, n)
  BY <1>1, JoinExists
<1>4. FlattenSeq(ss) = g[n]
  <2>1. IsList(ss, S, n)
    BY <1>1 DEF n, IsList
  <2>2. QED
    BY <1>3, <2>1, JoinIs
<1>5. /\ g \in [0 .. n -> Seq(S)] /\ g[0] = <<>>
      /\ \A k \in 1 .. n : g[k] = g[k - 1] \o ss[k]
  BY <1>3 DEF IsJoin
<1>6. g[n] \in Seq(S)
  BY <1>1, <1>5
<1> DEFINE h == [k \in 0 .. n + 1 |-> IF k = n + 1 THEN g[n] \o s ELSE g[k]]
<1>7. g[n] \o s \in Seq(S)
  BY <1>6
<1>8. h \in [0 .. n + 1 -> Seq(S)] /\ h[0] = <<>> /\ h[n + 1] = g[n] \o s
  <2>1. \A k \in 0 .. n + 1 : k # n + 1 => k \in 0 .. n
    BY <1>1
  <2>2. n + 1 \in 0 .. n + 1 /\ 0 \in 0 .. n + 1 /\ 0 # n + 1
    BY <1>1
  <2>3. \A k \in 0 .. n + 1 : h[k] \in Seq(S)
    BY <1>5, <1>7, <2>1
  <2>4. QED
    BY <1>5, <2>2, <2>3
<1>9. ASSUME NEW k \in 1 .. n + 1 PROVE h[k] = h[k - 1] \o more[k]
  <2>1. k - 1 \in 0 .. n /\ k - 1 \in 0 .. n + 1 /\ k - 1 # n + 1
    BY <1>1
  <2>2. h[k - 1] = g[k - 1]
    BY <2>1
  <2>3. CASE k = n + 1
    <3>1. k - 1 = n
      BY <1>1, <2>3
    <3>2. QED
      BY <1>2, <1>8, <2>2, <2>3, <3>1
  <2>4. CASE k # n + 1
    <3>1. k \in 1 .. n
      BY <1>1, <2>4
    <3>2. h[k] = g[k]
      BY <2>4
    <3>3. QED
      BY <1>2, <1>5, <2>2, <3>1, <3>2
  <2>5. QED
    BY <2>3, <2>4
<1> HIDE DEF h
<1>10. IsJoin(h, S, more, n + 1)
  BY <1>8, <1>9 DEF IsJoin
<1>11. n + 1 \in Nat /\ n + 1 # 0
  BY <1>1
<1>12. FlattenSeq(more) = h[n + 1]
  <2>1. IsList(more, S, n + 1)
    BY <1>2, <1>11 DEF IsList
  <2>2. QED
    BY <1>10, <2>1, JoinIs
<1>13. QED
  BY <1>4, <1>6, <1>8, <1>12 DEF more

LEMMA JoinHead ==
  ASSUME NEW S, NEW ss \in Seq(Seq(S)), ss # <<>>
  PROVE  FlattenSeq(ss) = Head(ss) \o FlattenSeq(Tail(ss))
<1> DEFINE s == Head(ss)
           rest == Tail(ss)
           n == Len(rest)
<1>1. /\ n \in Nat /\ n + 1 = Len(ss) /\ ss \in [1 .. n + 1 -> Seq(S)]
      /\ rest \in [1 .. n -> Seq(S)] /\ (n = 0 => rest = <<>>) /\ s \in Seq(S)
      /\ ss[1] = s /\ \A k \in 1 .. n : rest[k] = ss[k + 1]
  BY ElementsOfTail
<1> HIDE DEF n, s, rest
<1>2. PICK g : IsJoin(g, S, rest, n)
  BY <1>1, JoinExists
<1>3. FlattenSeq(rest) = g[n]
  <2>1. IsList(rest, S, n)
    BY <1>1 DEF n, IsList
  <2>2. QED
    BY <1>2, <2>1, JoinIs
<1>4. /\ g \in [0 .. n -> Seq(S)] /\ g[0] = <<>>
      /\ \A k \in 1 .. n : g[k] = g[k - 1] \o rest[k]
  BY <1>2 DEF IsJoin
<1> DEFINE none == <<>>
           h == [k \in 0 .. n + 1 |-> IF k = 0 THEN none ELSE s \o g[k - 1]]
<1>5. ASSUME NEW k \in 0 .. n PROVE s \o g[k] \in Seq(S)
  BY <1>1, <1>4
<1>6. h \in [0 .. n + 1 -> Seq(S)] /\ h[0] = none /\ h[n + 1] = s \o g[n]
  <2>1. none \in Seq(S)
    OBVIOUS
  <2> HIDE DEF none
  <2>2. \A k \in 0 .. n + 1 : k # 0 => k - 1 \in 0 .. n
    BY <1>1
  <2>3. n + 1 \in 0 .. n + 1 /\ 0 \in 0 .. n + 1 /\ n + 1 # 0 /\ (n + 1) - 1 = n
    BY <1>1
  <2>4. \A k \in 0 .. n + 1 : h[k] \in Seq(S)
    BY <1>5, <2>1, <2>2
  <2>5. QED
    BY <2>3, <2>4
<1>7. ASSUME NEW k \in 1 .. n + 1 PROVE h[k] = h[k - 1] \o ss[k]
  <2>1. k - 1 \in 0 .. n /\ k \in 0 .. n + 1 /\ k # 0 /\ k - 1 \in 0 .. n + 1
    BY <1>1
  <2>2. h[k] = s \o g[k - 1]
    BY <2>1
  <2>3. CASE k = 1
    <3>1. k - 1 = 0 /\ h[0] = <<>> /\ g[0] = <<>>
      BY <1>4, <1>6, <2>3
    <3>2. s \o <<>> = s /\ <<>> \o s = s
      BY <1>1
    <3>3. QED
      BY <1>1, <2>2, <2>3, <3>1, <3>2
  <2>4. CASE k # 1
    <3>1. k - 1 \in 1 .. n /\ k - 1 # 0 /\ (k - 1) - 1 \in 0 .. n /\ (k - 1) + 1 = k
      BY <1>1, <2>4
    <3>2. h[k - 1] = s \o g[(k - 1) - 1]
      BY <2>1, <3>1
    <3>3. g[k - 1] = g[(k - 1) - 1] \o ss[k]
      BY <1>1, <1>4, <3>1
    <3>4. PICK u : u = g[(k - 1) - 1]
      OBVIOUS
    <3>5. u \in Seq(S) /\ ss[k] \in Seq(S)
      BY <1>1, <1>4, <3>1, <3>4
    <3>6. (s \o u) \o ss[k] = s \o (u \o ss[k])
      <4>1. PICK v \in Seq(S) : v = ss[k]
        BY <3>5
      <4>2. s \in Seq(S) /\ u \in Seq(S)
        BY <1>1, <3>5
      <4>3. Regroups(s, u, v)
        BY <4>2, JoinAssociative
      <4>4. QED
        BY <4>1, <4>3 DEF Regroups
    <3>7. QED
      BY <2>2, <3>2, <3>3, <3>4, <3>6
  <2>5. QED
    BY <2>3, <2>4
<1> HIDE DEF h
<1>8. IsJoin(h, S, ss, n + 1)
  BY <1>6, <1>7 DEF IsJoin, none
<1>9. n + 1 \in Nat /\ n + 1 # 0
  BY <1>1
<1>10. FlattenSeq(ss) = h[n + 1]
  <2>1. IsList(ss, S, n + 1)
    BY <1>1, <1>9 DEF IsList
  <2>2. QED
    BY <1>8, <2>1, JoinIs
<1>11. QED
  BY <1>3, <1>6, <1>10 DEF s, rest

(* Sequences that are joined lie one after the other: o tells where.       *)
LEMMA Flattened ==
  ASSUME NEW S, NEW ss, NEW n \in Nat, n = Len(ss), ss \in [1 .. n -> Seq(S)],
         NEW o \in [0 .. n -> Nat], o[0] = 0, n = 0 => ss = <<>>,
         \A k \in 1 .. n : o[k] = o[k - 1] + Len(ss[k])
  PROVE  /\ FlattenSeq(ss) \in Seq(S) /\ Len(FlattenSeq(ss)) = o[n]
         /\ \A k \in 1 .. n : LiesAt(FlattenSeq(ss), o[k - 1], ss[k])
<1>1. \A k \in 1 .. n : ss[k] \in Seq(S) /\ Len(ss[k]) \in Nat
  OBVIOUS
<1>2. PICK g : IsJoin(g, S, ss, n)
  BY JoinExists
<1>3. FlattenSeq(ss) = g[n]
  <2>1. IsList(ss, S, n)
    BY DEF IsList
  <2>2. QED
    BY <1>2, <2>1, JoinIs
<1>4. /\ g \in [0 .. n -> Seq(S)] /\ g[0] = <<>>
      /\ \A k \in 1 .. n : g[k] = g[k - 1] \o ss[k]
  BY <1>2 DEF IsJoin
<1>5. \A i, k \in 0 .. n : i <= k => o[i] <= o[k]
  <2>1. ASSUME NEW k \in 1 .. n PROVE o[k - 1] <= o[k]
    <3>1. Len(ss[k]) \in Nat /\ o[k] = o[k - 1] + Len(ss[k])
      BY <1>1
    <3>2. k - 1 \in 0 .. n
      OBVIOUS
    <3>3. o[k - 1] \in Nat
      BY <3>2, Zenon
    <3>4. QED
      BY <3>1, <3>3
  <2>2. QED
    BY <2>1, SumsGrow
<1> DEFINE Good(k) == /\ g[k] \in Seq(S) /\ Len(g[k]) = o[k]
                      /\ \A i \in 1 .. k : LiesAt(g[k], o[i - 1], ss[i])
           P == {k \in 0 .. n : Good(k)}
<1>6. 0 \in P
  <2>1. Good(0)
    BY <1>4
  <2>2. QED
    BY <2>1
<1>7. ASSUME NEW k \in 0 .. n - 1, k \in P PROVE k + 1 \in P
  <2>1. k + 1 \in 1 .. n /\ k + 1 \in 0 .. n /\ k \in 0 .. n /\ (k + 1) - 1 = k
    OBVIOUS
  <2>2. PICK s : s = g[k]
    OBVIOUS
  <2>3. PICK t : t = ss[k + 1]
    OBVIOUS
  <2>4. t \in Seq(S) /\ Len(t) \in Nat /\ o[k + 1] = o[k] + Len(t)
    BY <1>1, <2>1, <2>3
  <2>5. g[k + 1] = s \o t
    BY <1>4, <2>1, <2>2, <2>3
  <2>6. s \in Seq(S) /\ Len(s) = o[k] /\ \A i \in 1 .. k : LiesAt(s, o[i - 1], ss[i])
    BY <1>7, <2>2
  <2>7. s \o t \in Seq(S) /\ Len(s \o t) = o[k + 1]
    <3>1. s \o t \in Seq(S) /\ Len(s \o t) = Len(s) + Len(t)
      BY <2>4, <2>6, Joining
    <3>2. QED
      BY <2>4, <2>6, <3>1, Zenon
  <2>8. LiesAt(s \o t, o[k], t)
    BY <2>4, <2>6, JoinLies
  <2>9. ASSUME NEW i \in 1 .. k PROVE LiesAt(s \o t, o[i - 1], ss[i])
    <3>1. i \in 1 .. n /\ i \in 0 .. n /\ i - 1 \in 0 .. n /\ i <= k
      OBVIOUS
    <3>2. o[i - 1] \in Nat /\ Len(ss[i]) \in Nat /\ o[i] = o[i - 1] + Len(ss[i]) /\ o[i] <= o[k]
      BY <1>1, <1>5, <2>1, <3>1
    <3>3. LiesAt(s, o[i - 1], ss[i])
      BY <2>6
    <3>4. o[i - 1] + Len(ss[i]) <= Len(s)
      BY <2>6, <3>2
    <3>5. QED
      BY <2>4, <2>6, <3>2, <3>3, <3>4, LiesStill
  <2>10. ASSUME NEW i \in 1 .. k + 1 PROVE LiesAt(g[k + 1], o[i - 1], ss[i])
    <3>1. CASE i = k + 1
      BY <2>1, <2>3, <2>5, <2>8, <3>1
    <3>2. CASE i \in 1 .. k
      BY <2>5, <2>9, <3>2
    <3>3. QED
      BY <3>1, <3>2
  <2>11. Good(k + 1)
    BY <2>5, <2>7, <2>10
  <2>12. QED
    BY <2>1, <2>11
<1> HIDE DEF P
<1>8. \A k \in 0 .. n : k \in P
  BY <1>6, <1>7, Induction
<1>9. n \in P
  BY <1>8
<1>10. QED
  BY <1>3, <1>9 DEF P

(* The sum of the lengths of strings, each with its 0, as FoldLeft takes it. *)
SumFrom(strings, a, n) ==
  CHOOSE h : h = [s \in SUBSET (1 .. n) |->
    IF s = {} THEN a ELSE h[s \ {Max(s)}] + Len(strings[Max(s)]) + 1]

Sums(strings, a, n, o) ==
  /\ o \in [0 .. n -> Nat] /\ o[0] = a
  /\ \A k \in 1 .. n : o[k] = o[k - 1] + Len(strings[k]) + 1

LEMMA Summed ==
  ASSUME NEW n \in Nat, NEW strings, \A k \in 1 .. n : Len(strings[k]) \in Nat,
         NEW a \in Nat, NEW o, Sums(strings, a, n, o),
         NEW sum, sum = SumFrom(strings, a, n)
  PROVE  sum[1 .. n] = o[n]
<1> USE DEF Sums, SumFrom
<1> DEFINE D == SUBSET (1 .. n)
           X == [D -> Nat]
           w(k) == Len(strings[k]) + 1
           More(h, k) == [s \in D |-> h[s] + (IF k \in s THEN w(k) ELSE 0)]
           F == [e \in X \X (1 .. n) |-> More(e[1], e[2])]
           base == [s \in D |-> a]
<1>1. base \in X
  OBVIOUS
<1>2. \A k \in 1 .. n : w(k) \in Nat
  OBVIOUS
<1> HIDE DEF w
<1>3. F \in [X \X (1 .. n) -> X]
  <2>1. ASSUME NEW h \in X, NEW k \in 1 .. n PROVE More(h, k) \in X
    <3>1. ASSUME NEW s \in D PROVE h[s] + (IF k \in s THEN w(k) ELSE 0) \in Nat
      <4>1. h[s] \in Nat /\ w(k) \in Nat
        BY <1>2
      <4>2. QED
        BY <4>1
    <3>2. QED
      BY <3>1
  <2> HIDE DEF More, X
  <2>2. QED
    BY <2>1
<1> HIDE DEF base, F, X
<1>4. \E g : IsRun(g, base, F, X, n)
  BY <1>1, <1>3, Recursion DEF IsStep
<1>5. PICK g \in [0 .. n -> X] : g[0] = base /\ \A k \in 1 .. n : g[k] = F[<<g[k - 1], k>>]
  BY <1>4 DEF IsRun
<1> USE DEF X
<1>6. \A k \in 0 .. n : g[k] \in [D -> Nat]
  OBVIOUS
<1>7. ASSUME NEW k \in 1 .. n, NEW s \in D
      PROVE  g[k][s] = g[k - 1][s] + (IF k \in s THEN w(k) ELSE 0)
  <2>1. k - 1 \in 0 .. n
    OBVIOUS
  <2>2. g[k - 1] \in X
    BY <1>6, <2>1
  <2>3. F[<<g[k - 1], k>>] = More(g[k - 1], k)
    BY <2>2 DEF F
  <2>4. g[k] = F[<<g[k - 1], k>>]
    BY <1>5
  <2>5. QED
    BY <2>3, <2>4
(* One element less.                                                       *)
<1>8. ASSUME NEW s \in D, NEW x \in s PROVE g[n][s] = g[n][s \ {x}] + w(x)
  <2> DEFINE r == s \ {x}
             P == {k \in 0 .. n : g[k][s] = g[k][r] + (IF x <= k THEN w(x) ELSE 0)}
  <2>1. r \in D /\ x \in 1 .. n /\ ~ (x <= 0) /\ x \notin r
    OBVIOUS
  <2> HIDE DEF r
  <2>2. 0 \in P
    <3>1. g[0][s] = a /\ g[0][r] = a
      BY <1>5, <2>1 DEF base
    <3>2. g[0][s] = g[0][r] + (IF x <= 0 THEN w(x) ELSE 0)
      BY <2>1, <3>1
    <3>3. QED
      BY <3>2
  <2>3. ASSUME NEW k \in 0 .. n - 1, k \in P PROVE k + 1 \in P
    <3>1. k + 1 \in 1 .. n /\ (k + 1) - 1 = k /\ k \in 0 .. n /\ k + 1 \in 0 .. n
      OBVIOUS
    <3>2. /\ g[k + 1][s] = g[k][s] + (IF k + 1 \in s THEN w(k + 1) ELSE 0)
          /\ g[k + 1][r] = g[k][r] + (IF k + 1 \in r THEN w(k + 1) ELSE 0)
      <4>1. \A q \in D : g[k + 1][q] = g[(k + 1) - 1][q] + (IF k + 1 \in q THEN w(k + 1) ELSE 0)
        BY <1>7, <3>1, Zenon
      <4>2. \A q \in D : g[k + 1][q] = g[k][q] + (IF k + 1 \in q THEN w(k + 1) ELSE 0)
        BY <3>1, <4>1
      <4>3. QED
        BY <2>1, <4>2
    <3>3. g[k][s] \in Nat /\ g[k][r] \in Nat
      BY <1>6, <2>1, <3>1
    <3>4. g[k][s] = g[k][r] + (IF x <= k THEN w(x) ELSE 0)
      BY <2>3
    <3>5. CASE k + 1 = x
      <4>1. ~ (x <= k) /\ x <= k + 1 /\ k + 1 \in s /\ k + 1 \notin r
        BY <2>1, <3>1, <3>5
      <4>2. g[k][s] = g[k][r] + 0
        BY <3>4, <4>1, Zenon
      <4>3. w(x) \in Nat
        BY <1>2, <2>1
      <4>4. g[k + 1][s] = g[k][s] + w(x)
        BY <3>2, <3>5, <4>1, Zenon
      <4>5. g[k + 1][r] = g[k][r] + 0
        BY <3>2, <4>1, Zenon
      <4>6. g[k + 1][s] = g[k + 1][r] + w(x)
        BY <3>3, <4>2, <4>3, <4>4, <4>5
      <4>7. g[k + 1][s] = g[k + 1][r] + (IF x <= k + 1 THEN w(x) ELSE 0)
        BY <4>1, <4>6, Zenon
      <4>8. QED
        BY <3>1, <4>7, Zenon
    <3>6. CASE k + 1 # x
      <4>1. k + 1 \in s <=> k + 1 \in r
        BY <3>6 DEF r
      <4>2. x <= k <=> x <= k + 1
        BY <2>1, <3>1, <3>6
      <4>3. w(x) \in Nat /\ w(k + 1) \in Nat
        BY <1>2, <2>1, <3>1
      <4>4. PICK u \in Nat : u = IF k + 1 \in r THEN w(k + 1) ELSE 0
        BY <4>3
      <4>5. PICK v \in Nat : v = IF x <= k THEN w(x) ELSE 0
        BY <4>3
      <4>6. g[k + 1][s] = g[k][s] + u /\ g[k + 1][r] = g[k][r] + u /\ g[k][s] = g[k][r] + v
        BY <3>2, <3>4, <4>1, <4>4, <4>5, Zenon
      <4>7. g[k + 1][s] = g[k + 1][r] + v
        BY <3>3, <4>6
      <4>8. g[k + 1][s] = g[k + 1][r] + (IF x <= k + 1 THEN w(x) ELSE 0)
        BY <4>2, <4>5, <4>7, Zenon
      <4>9. QED
        BY <3>1, <4>8, Zenon
    <3>7. QED
      BY <3>5, <3>6
  <2> HIDE DEF P
  <2>4. \A k \in 0 .. n : k \in P
    BY <2>2, <2>3, Induction
  <2>5. n \in P /\ x <= n
    BY <2>1, <2>4
  <2>6. g[n][s] = g[n][r] + (IF x <= n THEN w(x) ELSE 0)
    BY <2>5 DEF P
  <2>7. QED
    BY <2>5, <2>6 DEF r
<1>9. \A k \in 0 .. n : g[k][{}] = a
  <2> DEFINE P == {k \in 0 .. n : g[k][{}] = a}
  <2>1. 0 \in P /\ {} \in D
    BY <1>5 DEF base
  <2>2. ASSUME NEW k \in 0 .. n - 1, k \in P PROVE k + 1 \in P
    <3>1. k + 1 \in 1 .. n /\ (k + 1) - 1 = k /\ k + 1 \in 0 .. n
      OBVIOUS
    <3>2. g[k + 1][{}] = g[(k + 1) - 1][{}] + (IF k + 1 \in {} THEN w(k + 1) ELSE 0)
      BY <1>7, <2>1, <3>1, Zenon
    <3>3. g[k + 1][{}] = g[k][{}] + 0
      BY <3>1, <3>2
    <3>4. QED
      BY <2>2, <3>1, <3>3
  <2> HIDE DEF P
  <2>3. \A k \in 0 .. n : k \in P
    BY <2>1, <2>2, Induction
  <2>4. QED
    BY <2>3 DEF P
(* A function with the equation of the fold exists, so that the fold has it. *)
<1> DEFINE h == g[n]
<1>10. ASSUME NEW s \in D, s # {} PROVE Max(s) \in s /\ \A y \in s : Max(s) >= y
  <2>1. s \in SUBSET (0 .. n)
    OBVIOUS
  <2>2. QED
    BY <1>10, <2>1, MaxOfNaturals, Zenon
<1>11. h \in [D -> Nat] /\ n \in 0 .. n
  <2>1. n \in 0 .. n
    OBVIOUS
  <2>2. QED
    BY <1>6, <2>1, Zenon
<1>12. ASSUME NEW s \in D
       PROVE  h[s] = IF s = {} THEN a ELSE h[s \ {Max(s)}] + Len(strings[Max(s)]) + 1
  <2>1. CASE s = {}
    BY <1>9, <1>11, <2>1
  <2>2. CASE s # {}
    <3>1. Max(s) \in s /\ Max(s) \in 1 .. n
      BY <1>10, <2>2
    <3>2. h[s] = h[s \ {Max(s)}] + w(Max(s))
      BY <1>8, <3>1
    <3>3. s \ {Max(s)} \in D
      OBVIOUS
    <3>4. h[s \ {Max(s)}] \in Nat /\ Len(strings[Max(s)]) \in Nat
      BY <1>11, <3>1, <3>3
    <3>5. h[s] = h[s \ {Max(s)}] + Len(strings[Max(s)]) + 1
      BY <3>2, <3>4 DEF w
    <3>6. QED
      BY <2>2, <3>5, Zenon
  <2>3. QED
    BY <2>1, <2>2
<1>13. h = [s \in D |-> IF s = {} THEN a ELSE h[s \ {Max(s)}] + Len(strings[Max(s)]) + 1]
  BY <1>11, <1>12
<1> HIDE DEF h
<1>14. sum = [s \in D |-> IF s = {} THEN a ELSE sum[s \ {Max(s)}] + Len(strings[Max(s)]) + 1]
  BY <1>13
(* From one initial segment to the next.                                   *)
<1> DEFINE P == {k \in 0 .. n : sum[1 .. k] = o[k]}
<1>15. 0 \in P
  <2>1. 1 .. 0 = {} /\ 1 .. 0 \in D
    OBVIOUS
  <2>2. sum[1 .. 0] = a
    BY <1>14, <2>1
  <2>3. QED
    BY <2>2
<1>16. ASSUME NEW k \in 0 .. n - 1, k \in P PROVE k + 1 \in P
  <2> DEFINE s == 1 .. k + 1
  <2>1. /\ s \in D /\ s # {} /\ k + 1 \in s /\ k + 1 \in 1 .. n /\ (k + 1) - 1 = k
        /\ k + 1 \in 0 .. n
    <3>1. k + 1 \in s /\ k + 1 \in 1 .. n /\ (k + 1) - 1 = k /\ k + 1 \in 0 .. n
      OBVIOUS
    <3>2. s \subseteq 1 .. n
      OBVIOUS
    <3>3. s \in D /\ s # {}
      BY <3>1, <3>2, Zenon DEF D
    <3>4. QED
      BY <3>1, <3>3, Zenon
  <2>2. Max(s) \in s /\ \A y \in s : Max(s) >= y
    BY <1>10, <2>1
  <2>3. Max(s) = k + 1
    BY <2>1, <2>2
  <2>4. s \ {k + 1} = 1 .. k
    <3>1. \A i : i \in s <=> i \in 1 .. k \/ i = k + 1
      OBVIOUS
    <3>2. k + 1 \notin 1 .. k
      OBVIOUS
    <3>3. QED
      BY <3>1, <3>2, Zenon
  <2>5. sum[s] = sum[s \ {Max(s)}] + Len(strings[Max(s)]) + 1
    BY <1>14, <2>1
  <2>6. sum[s] = sum[1 .. k] + Len(strings[k + 1]) + 1
    BY <2>3, <2>4, <2>5
  <2>7. o[k + 1] = o[k] + Len(strings[k + 1]) + 1
    BY <2>1
  <2>8. QED
    BY <1>16, <2>1, <2>6, <2>7
<1> HIDE DEF P
<1>17. \A k \in 0 .. n : k \in P
  BY <1>15, <1>16, Induction
<1>18. n \in P
  BY <1>17
<1>19. QED
  BY <1>18 DEF P

(***************************************************************************)
(* Replies.                                                                *)
(***************************************************************************)
WithReason == {"CONNECTION_REFUSED", "JOIN_ROOM_REFUSED", "INVALID_PLAY"}
PlainText  == Seq(Char)
Person     == [name : PlainText, bio : PlainText]
RoomLists  == [type : {"JOIN_ROOM_SUCCESSFUL"}, spectators : Few(PlainText), users : Few(Person)]
Boards     == [0 .. BOARD_SIZE - 1 -> Bytes]
Plays      == [type : {"PLAYED"}, side : {0, 1}, captured : [{0, 1} -> Bytes], board : Boards]

(* What the server writes after the length: the type and two parts.        *)
Strings(m) == RoomStrings(m.users, m.spectators)
Zeroed(s)  == [k \in DOMAIN s |-> Strcpy(s[k])]

Part1(m) ==
  CASE m.type \in WithReason              -> Strcpy(m.text)
    [] m.type = "CONNECTION_SUCCESSFUL"   -> <<>>
    [] m.type = "ROOM_CREATION_SUCCESSFUL" -> Uint32(m.room_id)
    [] m.type = "JOIN_ROOM_SUCCESSFUL"    -> <<Byte(Len(m.users)), Byte(Len(m.spectators))>>
    [] m.type = "PLAYED" -> <<Byte(m.captured[m.side]), Byte(m.captured[1 - m.side])>>
    [] m.type = "GAME_START"              -> <<Byte(m.pos)>>
    [] m.type = "GAME_STOPPED"            -> <<m.draw>>
    [] m.type = "MESSAGE"                 -> Strcpy(m.username)

Part2(m) ==
  CASE m.type = "JOIN_ROOM_SUCCESSFUL" -> FlattenSeq(Zeroed(Strings(m)))
    [] m.type = "PLAYED" ->
         [k \in 1 .. BOARD_SIZE |-> m.board[(k - 1 + (BOARD_SIZE \div 2) * m.side) % BOARD_SIZE]]
    [] m.type = "GAME_STOPPED" -> IF m.draw = 0 THEN Strcpy(m.winner) ELSE <<>>
    [] m.type = "MESSAGE" -> Strcpy(m.text)
    [] OTHER -> <<>>

ReplyBody(m) == Reply(m.type) \o Part1(m) \o Part2(m)

LEMMA ReplyIs ==
  ASSUME NEW t \in DOMAIN ServerClientProtocol
  PROVE  /\ Reply(t) \in Seq(Bytes) /\ Len(Reply(t)) = 1
         /\ Reply(t)[1] = ServerClientProtocol[t]
<1>1. t \in {"CONNECTION_SUCCESSFUL", "CONNECTION_REFUSED", "ROOM_CREATION_SUCCESSFUL",
             "ROOM_CREATION_REFUSED", "JOIN_ROOM_SUCCESSFUL", "JOIN_ROOM_REFUSED",
             "PLAYED", "GAME_START", "PLAYER_JOINED_ROOM", "SPECTATOR_JOINED_ROOM",
             "GAME_STOPPED", "MESSAGE", "INVALID_PLAY"}
  BY DEF ServerClientProtocol
<1>2. ServerClientProtocol[t] \in Bytes
  BY <1>1 DEF ServerClientProtocol, Bytes
<1>3. QED
  BY <1>2 DEF Reply

LEMMA ReplyTypeReadBack ==
  ASSUME NEW t \in DOMAIN ServerClientProtocol
  PROVE  TypeOf(ServerClientProtocol, ServerClientProtocol[t]) = t
<1>1. DOMAIN ServerClientProtocol =
            {"CONNECTION_SUCCESSFUL", "CONNECTION_REFUSED", "ROOM_CREATION_SUCCESSFUL",
             "ROOM_CREATION_REFUSED", "JOIN_ROOM_SUCCESSFUL", "JOIN_ROOM_REFUSED",
             "PLAYED", "GAME_START", "PLAYER_JOINED_ROOM", "SPECTATOR_JOINED_ROOM",
             "GAME_STOPPED", "MESSAGE", "INVALID_PLAY"}
  BY DEF ServerClientProtocol
<1>2. ASSUME NEW u \in DOMAIN ServerClientProtocol,
             ServerClientProtocol[u] = ServerClientProtocol[t]
      PROVE  u = t
  BY <1>1, <1>2 DEF ServerClientProtocol
<1>3. QED
  BY <1>2 DEF TypeOf

(* The kinds of replies.                                                   *)
LEMMA ReplyKinds ==
  ASSUME NEW m \in Replies
  PROVE  /\ m.type \in DOMAIN ServerClientProtocol
         /\ \/ m \in [type : WithReason, text : PlainText]
            \/ m \in [type : {"CONNECTION_SUCCESSFUL"}]
            \/ m \in [type : {"ROOM_CREATION_SUCCESSFUL"}, room_id : UInt32]
            \/ m \in RoomLists
            \/ m \in Plays
            \/ m \in [type : {"GAME_START"}, pos : Bytes]
            \/ m \in [type : {"GAME_STOPPED"}, draw : Bytes, winner : PlainText]
            \/ m \in [type : {"MESSAGE"}, username : PlainText, text : PlainText]
<1>1. \/ m \in [type : WithReason, text : PlainText]
            \/ m \in [type : {"CONNECTION_SUCCESSFUL"}]
            \/ m \in [type : {"ROOM_CREATION_SUCCESSFUL"}, room_id : UInt32]
            \/ m \in RoomLists
            \/ m \in Plays
            \/ m \in [type : {"GAME_START"}, pos : Bytes]
            \/ m \in [type : {"GAME_STOPPED"}, draw : Bytes, winner : PlainText]
            \/ m \in [type : {"MESSAGE"}, username : PlainText, text : PlainText]
  BY Zenon DEF Replies, WithReason, PlainText, RoomLists, Plays, Boards, Person
<1>2. m.type \in DOMAIN ServerClientProtocol
  BY <1>1 DEF WithReason, RoomLists, Plays, ServerClientProtocol
<1>3. QED
  BY <1>1, <1>2


LEMMA NoElements == ASSUME NEW f, f = [k \in 1 .. 0 |-> f[k]] PROVE f = <<>>
<1>1. f \in [1 .. 0 -> {}]
  OBVIOUS
<1>2. f \in Seq({}) /\ Len(f) = 0
  BY <1>1, RangeIsSequence
<1>3. QED
  BY <1>2, EmptySeq

(* The list of a room: players with what they say of themselves, others.   *)
Listed(users, spectators, nu, ns, ss) ==
  /\ \A k \in 1 .. nu : ss[2 * k - 1] = users[k].name /\ ss[2 * k] = users[k].bio
  /\ \A k \in 1 .. ns : ss[2 * nu + k] = spectators[k]

LEMMA RoomStringsAre ==
  ASSUME NEW users \in Seq(Person), NEW spectators \in Seq(PlainText),
         NEW nu, nu = Len(users), NEW ns, ns = Len(spectators),
         NEW ss, ss = RoomStrings(users, spectators)
  PROVE  /\ nu \in Nat /\ ns \in Nat /\ ss \in Seq(PlainText) /\ Len(ss) = 2 * nu + ns
         /\ Listed(users, spectators, nu, ns, ss)
<1> DEFINE pairs == [k \in DOMAIN users |-> <<users[k].name, users[k].bio>>]
           o     == [k \in 0 .. nu |-> 2 * k]
<1>1. nu \in Nat /\ ns \in Nat /\ DOMAIN users = 1 .. nu /\ \A k \in 1 .. nu : users[k] \in Person
  OBVIOUS
<1>2. ss = FlattenSeq(pairs) \o spectators
  BY Zenon DEF RoomStrings
<1>3. ASSUME NEW k \in 1 .. nu
      PROVE  /\ pairs[k] \in Seq(PlainText) /\ Len(pairs[k]) = 2
             /\ pairs[k][1] = users[k].name /\ pairs[k][2] = users[k].bio
  <2>1. users[k].name \in PlainText /\ users[k].bio \in PlainText
    BY <1>1 DEF Person
  <2> HIDE DEF pairs
  <2>2. pairs[k] = <<users[k].name, users[k].bio>>
    BY <1>1 DEF pairs
  <2>3. QED
    BY <2>1, <2>2
<1>4. pairs \in [1 .. nu -> Seq(PlainText)] /\ Len(pairs) = nu /\ (nu = 0 => pairs = <<>>)
  <2>1. pairs = [k \in 1 .. nu |-> pairs[k]]
    BY <1>1
  <2> HIDE DEF pairs
  <2>2. pairs \in [1 .. nu -> Seq(PlainText)]
    BY <1>3, <2>1
  <2>3. Len(pairs) = nu
    BY <1>1, <2>2, RangeIsSequence
  <2>4. nu = 0 => pairs = <<>>
    BY <2>1, NoElements
  <2>5. QED
    BY <2>2, <2>3, <2>4
<1>5. /\ o \in [0 .. nu -> Nat] /\ o[0] = 0 /\ o[nu] = 2 * nu
      /\ \A k \in 1 .. nu : o[k - 1] = 2 * k - 2 /\ o[k] = o[k - 1] + 2
  BY <1>1
<1> HIDE DEF pairs, o
<1> DEFINE flat == FlattenSeq(pairs)
<1>6. /\ flat \in Seq(PlainText) /\ Len(flat) = 2 * nu
      /\ \A k \in 1 .. nu : LiesAt(flat, o[k - 1], pairs[k])
  <2>1. \A k \in 1 .. nu : o[k] = o[k - 1] + Len(pairs[k])
    BY <1>3, <1>5
  <2>2. /\ flat \in Seq(PlainText) /\ Len(flat) = o[nu]
        /\ \A k \in 1 .. nu : LiesAt(flat, o[k - 1], pairs[k])
    BY <1>1, <1>4, <1>5, <2>1, Flattened, Zenon
  <2>3. QED
    BY <1>5, <2>2
<1> HIDE DEF flat
<1>7. ASSUME NEW k \in 1 .. nu
      PROVE  flat[2 * k - 1] = users[k].name /\ flat[2 * k] = users[k].bio
  <2>1. 1 \in 1 .. Len(pairs[k]) /\ 2 \in 1 .. Len(pairs[k])
    BY <1>3
  <2>2. flat[o[k - 1] + 1] = pairs[k][1] /\ flat[o[k - 1] + 2] = pairs[k][2]
    BY <1>6, <2>1 DEF LiesAt
  <2>3. o[k - 1] + 1 = 2 * k - 1 /\ o[k - 1] + 2 = 2 * k
    BY <1>5
  <2>4. QED
    BY <1>3, <2>2, <2>3
<1>8. ss \in Seq(PlainText) /\ Len(ss) = 2 * nu + ns
  <2>1. flat \o spectators \in Seq(PlainText)
        /\ Len(flat \o spectators) = Len(flat) + Len(spectators)
    BY <1>6, Joining, Zenon
  <2>2. QED
    BY <1>2, <1>6, <2>1, Zenon DEF flat
<1>9. ASSUME NEW k \in 1 .. 2 * nu PROVE ss[k] = flat[k]
  <2>1. k \in 1 .. Len(flat)
    BY <1>6
  <2>2. (flat \o spectators)[k] = flat[k]
    BY <1>6, <2>1, JoinLeft, Zenon
  <2>3. QED
    BY <1>2, <2>2, Zenon DEF flat
<1>10. ASSUME NEW k \in 1 .. ns PROVE ss[2 * nu + k] = spectators[k]
  <2>1. LiesAt(flat \o spectators, Len(flat), spectators)
    BY <1>6, JoinLies, Zenon
  <2>2. LiesAt(ss, 2 * nu, spectators)
    BY <1>2, <1>6, <2>1, Zenon DEF flat
  <2>3. QED
    BY <2>2, Zenon DEF LiesAt
<1>11. ASSUME NEW k \in 1 .. nu
       PROVE  ss[2 * k - 1] = users[k].name /\ ss[2 * k] = users[k].bio
  <2>1. 2 * k - 1 \in 1 .. 2 * nu /\ 2 * k \in 1 .. 2 * nu
    BY <1>1
  <2>2. QED
    BY <1>7, <1>9, <2>1
<1>12. QED
  BY <1>1, <1>8, <1>10, <1>11, Zenon DEF Listed

(* The strings of a list, each with its 0: o tells where each of them      *)
(* begins and the last one ends.                                           *)
Begin(ss, n, o) ==
  /\ o \in [0 .. n -> Nat] /\ o[0] = 0
  /\ \A k \in 1 .. n : o[k] = o[k - 1] + Len(ss[k]) + 1

LEMMA BeginExists ==
  ASSUME NEW ss \in Seq(PlainText), NEW n, n = Len(ss)
  PROVE  n \in Nat /\ \E o : Begin(ss, n, o)
<1> DEFINE w == [k \in 1 .. n |-> Len(ss[k]) + 1]
<1>1. n \in Nat /\ \A k \in 1 .. n : ss[k] \in PlainText
  OBVIOUS
<1>2. \A k \in 1 .. n : Len(ss[k]) \in Nat
  BY <1>1 DEF PlainText
<1>3. w \in [1 .. n -> Nat] /\ \A k \in 1 .. n : w[k] = Len(ss[k]) + 1
  BY <1>2
<1> HIDE DEF w
<1>4. \E o \in [0 .. n -> Nat] : o[0] = 0 /\ \A k \in 1 .. n : o[k] = o[k - 1] + w[k]
  <2>1. 0 \in Nat
    OBVIOUS
  <2>2. QED
    BY <1>1, <1>3, <2>1, SumsExist, Zenon
<1>5. PICK o \in [0 .. n -> Nat] : o[0] = 0 /\ \A k \in 1 .. n : o[k] = o[k - 1] + w[k]
  BY <1>4
<1>6. \A k \in 1 .. n : o[k] = o[k - 1] + Len(ss[k]) + 1
  <2>1. ASSUME NEW k \in 1 .. n PROVE o[k] = o[k - 1] + Len(ss[k]) + 1
    <3>1. k - 1 \in 0 .. n /\ Len(ss[k]) \in Nat
      BY <1>2
    <3>2. o[k - 1] \in Nat /\ o[k] = o[k - 1] + (Len(ss[k]) + 1)
      BY <1>3, <1>5, <3>1
    <3>3. QED
      BY <3>1, <3>2
  <2>2. QED
    BY <2>1
<1>7. Begin(ss, n, o)
  BY <1>5, <1>6 DEF Begin
<1>8. QED
  BY <1>1, <1>7

LEMMA ZeroedLie ==
  ASSUME NEW ss \in Seq(PlainText), NEW n, n = Len(ss), NEW o, Begin(ss, n, o),
         NEW flat, flat = FlattenSeq(Zeroed(ss))
  PROVE  /\ flat \in Seq(Bytes) /\ Len(flat) = o[n]
         /\ \A k \in 1 .. n : LiesAt(flat, o[k - 1], Strcpy(ss[k]))
<1> DEFINE z == Zeroed(ss)
<1>1. n \in Nat /\ DOMAIN ss = 1 .. n /\ \A k \in 1 .. n : ss[k] \in PlainText
  OBVIOUS
<1>2. ASSUME NEW k \in 1 .. n PROVE Strcpy(ss[k]) \in Seq(Bytes) /\ Len(Strcpy(ss[k])) = Len(ss[k]) + 1
  BY <1>1, StrcpyIs DEF PlainText
<1>3. z = [k \in 1 .. n |-> Strcpy(ss[k])]
  BY <1>1 DEF Zeroed
<1> HIDE DEF z
<1>4. z \in [1 .. n -> Seq(Bytes)] /\ \A k \in 1 .. n : z[k] = Strcpy(ss[k])
  BY <1>2, <1>3
<1>5. Len(z) = n
  BY <1>1, <1>4, RangeIsSequence
<1>6. n = 0 => z = <<>>
  <2>1. z = [k \in 1 .. n |-> z[k]]
    BY <1>4
  <2>2. QED
    BY <2>1, NoElements
<1>7. o \in [0 .. n -> Nat] /\ o[0] = 0 /\ \A k \in 1 .. n : o[k] = o[k - 1] + Len(z[k])
  <2>1. ASSUME NEW k \in 1 .. n PROVE o[k] = o[k - 1] + Len(z[k])
    <3>1. Len(ss[k]) \in Nat
      BY <1>1 DEF PlainText
    <3>2. k - 1 \in 0 .. n
      BY <1>1
    <3>3. o[k] = o[k - 1] + Len(ss[k]) + 1 /\ o[k - 1] \in Nat
      BY <3>2 DEF Begin
    <3>4. Len(z[k]) = Len(ss[k]) + 1
      BY <1>2, <1>4
    <3>5. QED
      BY <3>1, <3>3, <3>4
  <2>2. QED
    BY <2>1 DEF Begin
<1>8. /\ flat \in Seq(Bytes) /\ Len(flat) = o[n]
      /\ \A k \in 1 .. n : LiesAt(flat, o[k - 1], z[k])
  <2>1. flat = FlattenSeq(z)
    BY DEF z
  <2> DEFINE g == FlattenSeq(z)
  <2>2. /\ g \in Seq(Bytes) /\ Len(g) = o[n] /\ \A k \in 1 .. n : LiesAt(g, o[k - 1], z[k])
    BY <1>1, <1>4, <1>5, <1>6, <1>7, Flattened, Zenon
  <2>3. QED
    BY <2>1, <2>2, Zenon
<1>9. QED
  BY <1>4, <1>8

(* The size of the message counts them.                                    *)
LEMMA RoomSizeIs ==
  ASSUME NEW m \in RoomLists, NEW ss, ss = Strings(m), NEW n, n = Len(ss),
         ss \in Seq(PlainText), NEW o, Begin(ss, n, o)
  PROVE  RoomSize(m.users, m.spectators) = 3 + o[n]
<1>1. n \in Nat /\ DOMAIN ss = 1 .. n /\ \A k \in 1 .. n : Len(ss[k]) \in Nat
  BY DEF PlainText
<1>2. RoomSize(m.users, m.spectators) = SumFrom(ss, 3, n)[1 .. n]
  <2>1. RoomSize(m.users, m.spectators) =
        (CHOOSE h : h = [s \in SUBSET (DOMAIN ss) |->
           IF s = {} THEN 3 ELSE h[s \ {Max(s)}] + Len(ss[Max(s)]) + 1])[DOMAIN ss]
    BY DEF RoomSize, FoldLeft, MapThenFoldSet, Strlen, Strings
  <2>2. RoomSize(m.users, m.spectators) =
        (CHOOSE h : h = [s \in SUBSET (1 .. n) |->
           IF s = {} THEN 3 ELSE h[s \ {Max(s)}] + Len(ss[Max(s)]) + 1])[1 .. n]
    BY <1>1, <2>1
  <2>3. QED
    BY <2>2 DEF SumFrom
<1> DEFINE e == [k \in 0 .. n |-> 3 + o[k]]
<1>3. o \in [0 .. n -> Nat] /\ o[0] = 0 /\ \A k \in 1 .. n : o[k] = o[k - 1] + Len(ss[k]) + 1
  BY DEF Begin
<1>4. e \in [0 .. n -> Nat] /\ e[0] = 3 /\ e[n] = 3 + o[n]
  BY <1>1, <1>3
<1>5. ASSUME NEW k \in 1 .. n PROVE e[k] = e[k - 1] + Len(ss[k]) + 1
  <2>1. k - 1 \in 0 .. n /\ k \in 0 .. n /\ Len(ss[k]) \in Nat
    BY <1>1
  <2>2. o[k - 1] \in Nat /\ o[k] = o[k - 1] + Len(ss[k]) + 1
    BY <1>3, <2>1
  <2>3. e[k] = 3 + o[k] /\ e[k - 1] = 3 + o[k - 1]
    BY <2>1
  <2>4. QED
    BY <2>1, <2>2, <2>3
<1> HIDE DEF e
<1>6. Sums(ss, 3, n, e)
  BY <1>4, <1>5 DEF Sums
<1>7. 3 \in Nat
  OBVIOUS
<1>8. SumFrom(ss, 3, n)[1 .. n] = e[n]
  BY <1>1, <1>6, <1>7, Summed
<1>9. QED
  BY <1>2, <1>4, <1>8, Zenon

LEMMA AddNothing == ASSUME NEW S, NEW s \in Seq(S) PROVE s \o <<>> = s
BY ConcatEmptySeq

(* What each of the writers writes.                                        *)
Written(m) ==
  /\ Part1(m) \in Seq(Bytes) /\ Part2(m) \in Seq(Bytes)
  /\ ReplyBytes(m) = Frame(1 + Len(Part1(m)) + Len(Part2(m)), ReplyBody(m))

LEMMA OneByte == ASSUME NEW n \in Bytes PROVE Byte(n) \in Bytes /\ Byte(n) = n
BY DEF Byte, Bytes

LEMMA NoBytes == <<>> \in Seq(Bytes) /\ Len(<<>>) = 0
OBVIOUS

(* A message with a single part.                                           *)
LEMMA OnePart ==
  ASSUME NEW m, m.type \in DOMAIN ServerClientProtocol, NEW p \in Seq(Bytes),
         Part1(m) = p, Part2(m) = <<>>,
         NEW n, n = Len(p) + 1, ReplyBytes(m) = Frame(n, Reply(m.type) \o p)
  PROVE  Written(m)
<1> DEFINE r == Reply(m.type)
<1>1. r \in Seq(Bytes)
  BY ReplyIs, Zenon
<1>2. r \o p \in Seq(Bytes)
  BY <1>1, Joining, Zenon
<1>3. ReplyBody(m) = r \o p
  BY <1>2, AddNothing, Zenon DEF ReplyBody
<1>4. 1 + Len(Part1(m)) + Len(Part2(m)) = n
  BY NoBytes
<1>5. QED
  BY <1>3, <1>4, NoBytes, Zenon DEF Written

LEMMA TextWritten == ASSUME NEW m \in [type : WithReason, text : PlainText] PROVE Written(m)
<1>1. m.type \in WithReason /\ m.text \in PlainText /\ m.type \in DOMAIN ServerClientProtocol
  BY DEF WithReason, ServerClientProtocol
<1>2. Part1(m) = Strcpy(m.text) /\ Part2(m) = <<>>
  BY <1>1 DEF Part1, Part2, WithReason
<1>3. Strcpy(m.text) \in Seq(Bytes) /\ Len(m.text) \in Nat /\ Len(Strcpy(m.text)) = Len(m.text) + 1
  BY <1>1, StrcpyIs DEF PlainText
<1>4. ReplyBytes(m) = Frame(Len(m.text) + 2, Reply(m.type) \o Strcpy(m.text))
  BY <1>1 DEF ReplyBytes, WriteText, WithReason, Strlen
<1>5. Len(m.text) + 2 = Len(Strcpy(m.text)) + 1
  BY <1>3
<1>6. QED
  BY <1>1, <1>2, <1>3, <1>4, <1>5, OnePart

LEMMA SuccessWritten == ASSUME NEW m \in [type : {"CONNECTION_SUCCESSFUL"}] PROVE Written(m)
<1>1. m.type = "CONNECTION_SUCCESSFUL" /\ m.type \in DOMAIN ServerClientProtocol
  BY DEF ServerClientProtocol
<1>2. Part1(m) = <<>> /\ Part2(m) = <<>>
  BY <1>1 DEF Part1, Part2, WithReason
<1>3. ReplyBytes(m) = Frame(1, Reply(m.type))
  BY <1>1 DEF ReplyBytes, WriteConnectionSuccessful
<1>4. Reply(m.type) \o <<>> = Reply(m.type)
  BY <1>1, ReplyIs, AddNothing, Zenon
<1>5. ReplyBytes(m) = Frame(1, Reply(m.type) \o <<>>)
  BY <1>3, <1>4
<1>6. 1 = Len(<<>>) + 1
  OBVIOUS
<1>7. QED
  BY <1>1, <1>2, <1>5, <1>6, NoBytes, OnePart

LEMMA CreatedWritten ==
  ASSUME NEW m \in [type : {"ROOM_CREATION_SUCCESSFUL"}, room_id : UInt32] PROVE Written(m)
<1>1. /\ m.type = "ROOM_CREATION_SUCCESSFUL" /\ m.room_id \in UInt32
      /\ m.type \in DOMAIN ServerClientProtocol
  BY DEF ServerClientProtocol
<1>2. Part1(m) = Uint32(m.room_id) /\ Part2(m) = <<>>
  BY <1>1 DEF Part1, Part2, WithReason
<1>3. ReplyBytes(m) = Frame(4 + 1, Reply(m.type) \o Uint32(m.room_id))
  BY <1>1 DEF ReplyBytes, WriteRoomCreationSuccessful
<1>4. Uint32(m.room_id) \in Seq(Bytes) /\ Len(Uint32(m.room_id)) = 4
  BY <1>1, Uint32Is
<1>5. 4 + 1 = Len(Uint32(m.room_id)) + 1
  BY <1>4
<1>6. QED
  BY <1>1, <1>2, <1>3, <1>4, <1>5, OnePart

LEMMA StartWritten == ASSUME NEW m \in [type : {"GAME_START"}, pos : Bytes] PROVE Written(m)
<1>1. m.type = "GAME_START" /\ m.pos \in Bytes /\ m.type \in DOMAIN ServerClientProtocol
  BY DEF ServerClientProtocol
<1>2. Part1(m) = <<Byte(m.pos)>> /\ Part2(m) = <<>>
  BY <1>1 DEF Part1, Part2, WithReason
<1>3. ReplyBytes(m) = Frame(1 + 1, Reply(m.type) \o <<Byte(m.pos)>>)
  BY <1>1 DEF ReplyBytes, WriteGameStart
<1>4. Byte(m.pos) \in Bytes
  BY <1>1, OneByte
<1>5. <<Byte(m.pos)>> \in Seq(Bytes) /\ 1 + 1 = Len(<<Byte(m.pos)>>) + 1
  BY <1>4
<1>6. QED
  BY <1>1, <1>2, <1>3, <1>5, OnePart

LEMMA StoppedWritten ==
  ASSUME NEW m \in [type : {"GAME_STOPPED"}, draw : Bytes, winner : PlainText] PROVE Written(m)
<1>1. /\ m.type = "GAME_STOPPED" /\ m.draw \in Bytes /\ m.winner \in PlainText
      /\ m.type \in DOMAIN ServerClientProtocol
  BY DEF ServerClientProtocol
<1> DEFINE p == <<m.draw>>
           t == Strcpy(m.winner)
<1>2. Part1(m) = p /\ Part2(m) = IF m.draw = 0 THEN t ELSE <<>>
  BY <1>1 DEF Part1, Part2, WithReason
<1>3. p \in Seq(Bytes) /\ Len(p) = 1
  BY <1>1
<1>4. t \in Seq(Bytes) /\ Len(m.winner) \in Nat /\ Len(t) = Len(m.winner) + 1
  BY <1>1, StrcpyIs DEF PlainText
<1>5. CASE m.draw = 0
  <2>1. ReplyBytes(m) = Frame(1 + 1 + 1 + Len(m.winner), Reply(m.type) \o p \o t)
    BY <1>1, <1>5 DEF ReplyBytes, WriteGameStopped, Strlen
  <2> HIDE DEF p, t
  <2>2. 1 + 1 + 1 + Len(m.winner) = 1 + Len(p) + Len(t)
    BY <1>3, <1>4
  <2>3. QED
    BY <1>2, <1>3, <1>4, <1>5, <2>1, <2>2, Zenon DEF Written, ReplyBody
<1>6. CASE m.draw # 0
  <2>1. ReplyBytes(m) = Frame(1 + 1, Reply(m.type) \o p)
    BY <1>1, <1>6 DEF ReplyBytes, WriteGameStopped
  <2>2. 1 + 1 = Len(p) + 1
    BY <1>3
  <2> HIDE DEF p, t
  <2>3. QED
    BY <1>1, <1>2, <1>3, <1>6, <2>1, <2>2, OnePart
<1>7. QED
  BY <1>5, <1>6

LEMMA MessageWritten ==
  ASSUME NEW m \in [type : {"MESSAGE"}, username : PlainText, text : PlainText] PROVE Written(m)
<1>1. /\ m.type = "MESSAGE" /\ m.username \in PlainText /\ m.text \in PlainText
      /\ m.type \in DOMAIN ServerClientProtocol
  BY DEF ServerClientProtocol
<1> DEFINE p == Strcpy(m.username)
           t == Strcpy(m.text)
<1>2. Part1(m) = p /\ Part2(m) = t
  BY <1>1 DEF Part1, Part2, WithReason
<1>3. /\ p \in Seq(Bytes) /\ Len(m.username) \in Nat /\ Len(p) = Len(m.username) + 1
      /\ t \in Seq(Bytes) /\ Len(m.text) \in Nat /\ Len(t) = Len(m.text) + 1
  BY <1>1, StrcpyIs DEF PlainText
<1>4. ReplyBytes(m) = Frame(Len(m.text) + Len(m.username) + 3, Reply(m.type) \o p \o t)
  BY <1>1 DEF ReplyBytes, WriteMessage, Strlen
<1> HIDE DEF p, t
<1>5. Len(m.text) + Len(m.username) + 3 = 1 + Len(p) + Len(t)
  BY <1>3
<1>6. QED
  BY <1>2, <1>3, <1>4, <1>5, Zenon DEF Written, ReplyBody

(* The board is turned with a remainder.                                   *)
LEMMA BoardIs ==
  /\ BOARD_SIZE \in Nat /\ BOARD_SIZE >= 2 /\ BOARD_SIZE \div 2 \in Nat
  /\ BOARD_SIZE = 2 * (BOARD_SIZE \div 2)
BY CodecAssumption

LEMMA PlayedWritten == ASSUME NEW m \in Plays PROVE Written(m)
<1>1. /\ m.type = "PLAYED" /\ m.side \in {0, 1} /\ m.captured \in [{0, 1} -> Bytes]
      /\ m.board \in Boards /\ m.type \in DOMAIN ServerClientProtocol
  BY DEF ServerClientProtocol, Plays
<1> DEFINE half == BOARD_SIZE \div 2
           p == <<Byte(m.captured[m.side]), Byte(m.captured[1 - m.side])>>
           t == [k \in 1 .. BOARD_SIZE |-> m.board[(k - 1 + half * m.side) % BOARD_SIZE]]
<1>2. Part1(m) = p /\ Part2(m) = t
  BY <1>1 DEF Part1, Part2, WithReason
<1>3. p \in Seq(Bytes) /\ Len(p) = 2
  <2>1. m.captured[m.side] \in Bytes /\ m.captured[1 - m.side] \in Bytes
    BY <1>1
  <2>2. Byte(m.captured[m.side]) \in Bytes /\ Byte(m.captured[1 - m.side]) \in Bytes
    BY <2>1, OneByte
  <2>3. QED
    BY <2>2
<1>4. t \in Seq(Bytes) /\ Len(t) = BOARD_SIZE
  <2>1. ASSUME NEW k \in 1 .. BOARD_SIZE
        PROVE  m.board[(k - 1 + half * m.side) % BOARD_SIZE] \in Bytes
    <3> DEFINE j == k - 1 + half * m.side
    <3>1. j \in Nat
      BY <1>1, BoardIs
    <3> HIDE DEF j
    <3>2. j % BOARD_SIZE \in 0 .. BOARD_SIZE - 1
      BY <3>1, BoardIs
    <3>3. m.board[j % BOARD_SIZE] \in Bytes
      BY <1>1, <3>2 DEF Boards
    <3>4. QED
      BY <3>3 DEF j
  <2>2. t \in [1 .. BOARD_SIZE -> Bytes]
    BY <2>1
  <2> HIDE DEF t
  <2>3. QED
    BY <2>2, RangeIsSequence, BoardIs
<1>5. ReplyBytes(m) = Frame(BOARD_SIZE + 3, Reply(m.type) \o p \o t)
  BY <1>1 DEF ReplyBytes, WritePlayed
<1> HIDE DEF p, t
<1>6. BOARD_SIZE + 3 = 1 + Len(p) + Len(t)
  BY <1>3, <1>4, BoardIs
<1>7. QED
  BY <1>2, <1>3, <1>4, <1>5, <1>6, Zenon DEF Written, ReplyBody

LEMMA RoomListIs ==
  ASSUME NEW m \in RoomLists, NEW nu, nu = Len(m.users), NEW ns, ns = Len(m.spectators)
  PROVE  /\ m.type = "JOIN_ROOM_SUCCESSFUL" /\ m.type \in DOMAIN ServerClientProtocol
         /\ m.users \in Seq(Person) /\ m.spectators \in Seq(PlainText)
         /\ nu \in Bytes /\ ns \in Bytes
         /\ m = [type |-> m.type, users |-> m.users, spectators |-> m.spectators]
BY DEF RoomLists, Few, ServerClientProtocol

LEMMA RoomWritten ==
  ASSUME NEW m \in RoomLists, NEW ss, ss = Strings(m), NEW n, n = Len(ss),
         NEW o, ss \in Seq(PlainText) => Begin(ss, n, o)
  PROVE  /\ Written(m) /\ Begin(ss, n, o) /\ Len(Part2(m)) = o[n]
         /\ Part1(m) = <<Byte(Len(m.users)), Byte(Len(m.spectators))>>
         /\ \A k \in 1 .. n : LiesAt(Part2(m), o[k - 1], Strcpy(ss[k]))
<1>1. /\ m.type = "JOIN_ROOM_SUCCESSFUL" /\ m.type \in DOMAIN ServerClientProtocol
      /\ m.users \in Seq(Person) /\ m.spectators \in Seq(PlainText)
      /\ Len(m.users) \in Bytes /\ Len(m.spectators) \in Bytes
  BY RoomListIs
<1>2. ss \in Seq(PlainText)
  BY <1>1, RoomStringsAre, Zenon DEF Strings
<1>3. Begin(ss, n, o)
  BY <1>2
<1> DEFINE p == <<Byte(Len(m.users)), Byte(Len(m.spectators))>>
           t == FlattenSeq(Zeroed(ss))
<1>4. Part1(m) = p /\ Part2(m) = t
  BY <1>1 DEF Part1, Part2, WithReason
<1>5. p \in Seq(Bytes) /\ Len(p) = 2
  <2>1. Byte(Len(m.users)) \in Bytes /\ Byte(Len(m.spectators)) \in Bytes
    BY <1>1, OneByte, Zenon
  <2>2. QED
    BY <2>1
<1>6. /\ t \in Seq(Bytes) /\ Len(t) = o[n]
      /\ \A k \in 1 .. n : LiesAt(t, o[k - 1], Strcpy(ss[k]))
  BY <1>2, <1>3, ZeroedLie, Zenon
<1>7. RoomSize(m.users, m.spectators) = 3 + o[n]
  BY <1>2, <1>3, RoomSizeIs, Zenon
<1>8. ReplyBytes(m) = Frame(RoomSize(m.users, m.spectators), Reply(m.type) \o p \o t)
  BY <1>1 DEF ReplyBytes, WriteJoinRoomSuccessful, Strings, Zeroed
<1> HIDE DEF p, t
<1>9. 3 + o[n] = 1 + Len(p) + Len(t)
  <2>1. n \in Nat /\ o \in [0 .. n -> Nat]
    BY <1>2, <1>3 DEF Begin
  <2>2. o[n] \in Nat
    BY <2>1
  <2>3. QED
    BY <1>5, <1>6, <2>2
<1>10. Written(m)
  BY <1>4, <1>5, <1>6, <1>7, <1>8, <1>9, Zenon DEF Written, ReplyBody
<1>11. QED
  BY <1>3, <1>4, <1>6, <1>10, Zenon DEF p

(* The parts of a body, and the size the writer computes for it.           *)
LEMMA ReplyWritten == ASSUME NEW m \in Replies PROVE Written(m)
<1>1. CASE m \in RoomLists
  <2>1. PICK ss : ss = Strings(m)
    OBVIOUS
  <2>2. m.users \in Seq(Person) /\ m.spectators \in Seq(PlainText)
    BY <1>1, RoomListIs
  <2>3. ss \in Seq(PlainText)
    BY <2>1, <2>2, RoomStringsAre, Zenon DEF Strings
  <2>4. PICK o : Begin(ss, Len(ss), o)
    BY <2>3, BeginExists, Zenon
  <2>5. QED
    BY <1>1, <2>1, <2>4, RoomWritten, Zenon
<1>2. QED
  BY <1>1, ReplyKinds, TextWritten, SuccessWritten, CreatedWritten, StartWritten,
     StoppedWritten, MessageWritten, PlayedWritten, Zenon

LEMMA ReplyBytesIs ==
  ASSUME NEW m \in Replies
  PROVE  /\ ReplyBody(m) \in Seq(Bytes) /\ Len(ReplyBody(m)) >= 1
         /\ ReplyBytes(m) = Frame(Len(ReplyBody(m)), ReplyBody(m))
         /\ Len(ReplyBody(m)) = 1 + Len(Part1(m)) + Len(Part2(m))
         /\ Part1(m) \in Seq(Bytes) /\ Part2(m) \in Seq(Bytes)
         /\ ReplyBody(m)[1] = ServerClientProtocol[m.type]
         /\ LiesAt(ReplyBody(m), 1, Part1(m))
         /\ LiesAt(ReplyBody(m), 1 + Len(Part1(m)), Part2(m))
<1> DEFINE r == Reply(m.type)
           p == Part1(m)
           t == Part2(m)
           b == r \o p \o t
<1>1. /\ r \in Seq(Bytes) /\ Len(r) = 1 /\ r[1] = ServerClientProtocol[m.type]
  BY ReplyKinds, ReplyIs, Zenon
<1>2. /\ p \in Seq(Bytes) /\ t \in Seq(Bytes)
      /\ ReplyBytes(m) = Frame(1 + Len(p) + Len(t), ReplyBody(m))
  BY ReplyWritten DEF Written
<1>3. ReplyBody(m) = b
  BY DEF ReplyBody
<1> HIDE DEF r, p, t
<1>4. /\ b \in Seq(Bytes) /\ Len(b) = Len(r) + Len(p) + Len(t)
      /\ LiesAt(b, 0, r) /\ LiesAt(b, Len(r), p) /\ LiesAt(b, Len(r) + Len(p), t)
  <2>1. r \in Seq(Bytes) /\ p \in Seq(Bytes) /\ t \in Seq(Bytes)
    BY <1>1, <1>2
  <2>2. QED
    BY <2>1, JoinThree DEF b
<1> HIDE DEF b
<1>5. b[1] = r[1]
  <2>1. 1 \in 1 .. Len(r) /\ 0 + 1 = 1
    BY <1>1
  <2>2. b[0 + 1] = r[1]
    BY <1>4, <2>1, Zenon DEF LiesAt
  <2>3. QED
    BY <2>1, <2>2, Zenon
<1>6. Len(b) = 1 + Len(p) + Len(t) /\ Len(b) >= 1
  <2>1. Len(p) \in Nat /\ Len(t) \in Nat
    BY <1>2
  <2>2. QED
    BY <1>1, <1>4, <2>1
<1>7. LiesAt(b, 1, p) /\ LiesAt(b, 1 + Len(p), t)
  BY <1>1, <1>4, Zenon
<1>8. QED
  BY <1>1, <1>2, <1>3, <1>4, <1>5, <1>6, <1>7, Zenon DEF p, t

(***************************************************************************)
(* A reply is read back.                                                   *)
(***************************************************************************)
(* A reply whose body lies at the start of the buffer.                     *)
InBuffer(buf, m) ==
  /\ Len(ReplyBody(m)) < BUF_SIZE
  /\ \A j \in 1 .. Len(ReplyBody(m)) : buf[j - 1] = ReplyBody(m)[j]

LEMMA PartsInBuffer ==
  ASSUME NEW m \in Replies, NEW buf, InBuffer(buf, m)
  PROVE  /\ TypeOf(ServerClientProtocol, buf[0]) = m.type
         /\ Len(Part1(m)) \in Nat /\ Len(Part2(m)) \in Nat
         /\ 1 + Len(Part1(m)) + Len(Part2(m)) < BUF_SIZE
         /\ \A j \in 1 .. Len(Part1(m)) : buf[j] = Part1(m)[j]
         /\ \A j \in 1 .. Len(Part2(m)) : buf[Len(Part1(m)) + j] = Part2(m)[j]
<1> DEFINE b == ReplyBody(m)
           p == Part1(m)
           t == Part2(m)
<1>1. /\ b \in Seq(Bytes) /\ Len(b) = 1 + Len(p) + Len(t) /\ p \in Seq(Bytes) /\ t \in Seq(Bytes)
      /\ b[1] = ServerClientProtocol[m.type]
      /\ LiesAt(b, 1, p) /\ LiesAt(b, 1 + Len(p), t)
  BY ReplyBytesIs, Zenon
<1>2. Len(b) < BUF_SIZE /\ \A j \in 1 .. Len(b) : buf[j - 1] = b[j]
  BY DEF InBuffer
<1> HIDE DEF b, p, t
<1>3. Len(p) \in Nat /\ Len(t) \in Nat
  BY <1>1
<1>4. TypeOf(ServerClientProtocol, buf[0]) = m.type
  <2>1. 1 \in 1 .. Len(b) /\ 1 - 1 = 0
    BY <1>1, <1>3
  <2>2. buf[1 - 1] = b[1]
    BY <1>2, <2>1, Zenon
  <2>3. buf[0] = ServerClientProtocol[m.type]
    BY <1>1, <2>1, <2>2, Zenon
  <2>4. QED
    BY <2>3, ReplyKinds, ReplyTypeReadBack, Zenon
<1>5. ASSUME NEW j \in 1 .. Len(p) PROVE buf[j] = p[j]
  <2>1. 1 + j \in 1 .. Len(b) /\ (1 + j) - 1 = j
    BY <1>1, <1>3
  <2>2. buf[(1 + j) - 1] = b[1 + j]
    BY <1>2, <2>1, Zenon
  <2>3. b[1 + j] = p[j]
    BY <1>1, Zenon DEF LiesAt
  <2>4. QED
    BY <2>1, <2>2, <2>3, Zenon
<1>6. ASSUME NEW j \in 1 .. Len(t) PROVE buf[Len(p) + j] = t[j]
  <2> DEFINE k == (1 + Len(p)) + j
  <2>1. k \in 1 .. Len(b) /\ k - 1 = Len(p) + j
    BY <1>1, <1>3
  <2>2. b[k] = t[j]
    BY <1>1, Zenon DEF LiesAt
  <2> HIDE DEF k
  <2>3. buf[k - 1] = b[k]
    BY <1>2, <2>1, Zenon
  <2>4. QED
    BY <2>1, <2>2, <2>3, Zenon
<1>7. QED
  BY <1>1, <1>2, <1>3, <1>4, <1>5, <1>6, Zenon DEF p, t

(* A string that lies in the buffer with its 0.                            *)
LiesBehind(buf, k, t) == k + Len(t) < BUF_SIZE /\ \A j \in 1 .. Len(t) : buf[k + j] = t[j]

LEMMA StringRead ==
  ASSUME NEW buf, NEW s \in PlainText, NEW k \in Nat, LiesBehind(buf, k, Strcpy(s))
  PROVE  StringAt(buf, k + 1) = s
<1> DEFINE t == Strcpy(s)
           l == k + 1
<1>0. k + Len(t) < BUF_SIZE /\ \A j \in 1 .. Len(t) : buf[k + j] = t[j]
  BY DEF LiesBehind
<1>1. /\ s \in Seq(Char) /\ Len(s) \in Nat /\ Len(t) = Len(s) + 1
      /\ t[Len(s) + 1] = 0 /\ \A j \in 1 .. Len(s) : t[j] = s[j]
  BY StrcpyIs, Zenon DEF PlainText
<1> HIDE DEF t
<1> DEFINE n == Len(s)
<1>2. l \in Nat /\ l + n < BUF_SIZE
  BY <1>0, <1>1, BufferSize
<1>3. ASSUME NEW j \in 1 .. n PROVE buf[l + j - 1] = s[j]
  <2>1. j \in 1 .. Len(t) /\ l + j - 1 = k + j
    BY <1>1
  <2>2. QED
    BY <1>0, <1>1, <2>1
<1>4. buf[l + n] = 0
  <2>1. n + 1 \in 1 .. Len(t) /\ k + (n + 1) = l + n
    BY <1>1
  <2>2. buf[k + (n + 1)] = t[n + 1]
    BY <1>0, <2>1
  <2>3. QED
    BY <1>1, <2>1, <2>2, Zenon
<1> HIDE DEF l
<1>5. StringAt(buf, l) = s
  BY <1>1, <1>2, <1>3, <1>4, StringIs, Zenon
<1>6. QED
  BY <1>5 DEF l

(* The parts, as places in the buffer.                                     *)
LEMMA PartsLie ==
  ASSUME NEW m \in Replies, NEW buf, InBuffer(buf, m), NEW p, p = Part1(m), NEW t, t = Part2(m)
  PROVE  /\ Len(p) \in Nat /\ Len(t) \in Nat
         /\ LiesBehind(buf, 0, p) /\ LiesBehind(buf, Len(p), t)
<1>1. /\ Len(p) \in Nat /\ Len(t) \in Nat /\ 1 + Len(p) + Len(t) < BUF_SIZE
      /\ \A j \in 1 .. Len(p) : buf[j] = p[j]
      /\ \A j \in 1 .. Len(t) : buf[Len(p) + j] = t[j]
  BY PartsInBuffer
<1>2. QED
  BY <1>1, BufferSize DEF LiesBehind

LEMMA TextRead ==
  ASSUME NEW m \in [type : WithReason, text : PlainText], NEW buf, m \in Replies, InBuffer(buf, m)
  PROVE  ReadReply(buf) = Told(m)
<1>1. m.type \in WithReason /\ m.text \in PlainText /\ m = [type |-> m.type, text |-> m.text]
  BY DEF WithReason
<1> DEFINE p == Strcpy(m.text)
<1>2. Part1(m) = p
  BY <1>1 DEF Part1, WithReason
<1>3. Len(m.text) \in Nat /\ Len(p) = Len(m.text) + 1
  BY <1>1, StrcpyIs, Zenon DEF PlainText
<1>4. StringAt(buf, 1) = m.text
  <2>1. LiesBehind(buf, 0, Strcpy(m.text))
    BY <1>2, PartsLie
  <2>2. StringAt(buf, 0 + 1) = m.text
    BY <1>1, <2>1, StringRead
  <2>3. QED
    BY <2>2
<1>5. TypeOf(ServerClientProtocol, buf[0]) = m.type
  BY PartsInBuffer, Zenon
<1>6. ReadReply(buf) = [type |-> m.type, text |-> StringAt(buf, 1)]
  BY <1>1, <1>5 DEF ReadReply, WithReason
<1>7. Told(m) = m
  BY <1>1 DEF Told, WithReason
<1>8. QED
  BY <1>1, <1>4, <1>6, <1>7, Zenon

LEMMA SuccessRead ==
  ASSUME NEW m \in [type : {"CONNECTION_SUCCESSFUL"}], NEW buf, m \in Replies, InBuffer(buf, m)
  PROVE  ReadReply(buf) = Told(m)
<1>1. m.type = "CONNECTION_SUCCESSFUL" /\ m = [type |-> m.type]
  OBVIOUS
<1>2. TypeOf(ServerClientProtocol, buf[0]) = m.type
  BY PartsInBuffer, Zenon
<1>3. ReadReply(buf) = [type |-> m.type]
  BY <1>1, <1>2 DEF ReadReply
<1>4. Told(m) = m
  BY <1>1 DEF Told
<1>5. QED
  BY <1>1, <1>3, <1>4, Zenon

LEMMA CreatedRead ==
  ASSUME NEW m \in [type : {"ROOM_CREATION_SUCCESSFUL"}, room_id : UInt32], NEW buf,
         m \in Replies, InBuffer(buf, m)
  PROVE  ReadReply(buf) = Told(m)
<1>1. /\ m.type = "ROOM_CREATION_SUCCESSFUL" /\ m.room_id \in UInt32
      /\ m = [type |-> m.type, room_id |-> m.room_id]
  OBVIOUS
<1> DEFINE w == Uint32(m.room_id)
<1>2. Part1(m) = w
  BY <1>1 DEF Part1, WithReason
<1>3. /\ Len(w) = 4 /\ m.room_id = w[1] + 256 * w[2] + 65536 * (w[3] + 256 * w[4])
  BY <1>1, Uint32Is
<1> HIDE DEF w
<1>4. \A j \in 1 .. Len(w) : buf[j] = w[j]
  <2>1. \A j \in 1 .. Len(Part1(m)) : buf[j] = Part1(m)[j]
    BY PartsInBuffer, Zenon
  <2>2. QED
    BY <1>2, <2>1, Zenon
<1>5. buf[1] = w[1] /\ buf[2] = w[2] /\ buf[3] = w[3] /\ buf[4] = w[4]
  BY <1>3, <1>4
<1>6. Uint32At(buf, 1) = m.room_id
  <2>1. Uint32At(buf, 1) = buf[1] + 256 * buf[2] + 65536 * (buf[3] + 256 * buf[4])
    BY DEF Uint32At
  <2>2. QED
    BY <1>3, <1>5, <2>1
<1>7. TypeOf(ServerClientProtocol, buf[0]) = m.type
  BY PartsInBuffer, Zenon
<1>8. ReadReply(buf) = [type |-> m.type, room_id |-> Uint32At(buf, 1)]
  BY <1>1, <1>7 DEF ReadReply
<1>9. Told(m) = m
  BY <1>1 DEF Told
<1>10. QED
  BY <1>1, <1>6, <1>8, <1>9, Zenon

LEMMA StartRead ==
  ASSUME NEW m \in [type : {"GAME_START"}, pos : Bytes], NEW buf, m \in Replies, InBuffer(buf, m)
  PROVE  ReadReply(buf) = Told(m)
<1>1. m.type = "GAME_START" /\ m.pos \in Bytes /\ m = [type |-> m.type, pos |-> m.pos]
  OBVIOUS
<1>2. Part1(m) = <<Byte(m.pos)>> /\ Byte(m.pos) = m.pos
  BY <1>1, OneByte DEF Part1, WithReason
<1>3. buf[1] = m.pos
  <2>1. \A j \in 1 .. Len(Part1(m)) : buf[j] = Part1(m)[j]
    BY PartsInBuffer, Zenon
  <2>2. QED
    BY <1>2, <2>1
<1>4. TypeOf(ServerClientProtocol, buf[0]) = m.type
  BY PartsInBuffer, Zenon
<1>5. ReadReply(buf) = [type |-> m.type, pos |-> buf[1]]
  BY <1>1, <1>4 DEF ReadReply
<1>6. Told(m) = m
  BY <1>1 DEF Told
<1>7. QED
  BY <1>1, <1>3, <1>5, <1>6, Zenon

(* A draw has no winner: the 0 behind the message ends the string.         *)
LEMMA StoppedRead ==
  ASSUME NEW m \in [type : {"GAME_STOPPED"}, draw : Bytes, winner : PlainText], NEW buf,
         m \in Replies, InBuffer(buf, m), buf[Len(ReplyBody(m))] = 0
  PROVE  ReadReply(buf) = Told(m)
<1>1. /\ m.type = "GAME_STOPPED" /\ m.draw \in Bytes /\ m.winner \in PlainText
      /\ m = [type |-> m.type, draw |-> m.draw, winner |-> m.winner]
  OBVIOUS
<1> DEFINE p == <<m.draw>>
           t == IF m.draw = 0 THEN Strcpy(m.winner) ELSE <<>>
           w == IF m.draw = 0 THEN m.winner ELSE <<>>
<1>2. Part1(m) = p /\ Part2(m) = t
  BY <1>1 DEF Part1, Part2, WithReason
<1>3. Len(p) = 1 /\ p[1] = m.draw
  OBVIOUS
<1>4. Len(m.winner) \in Nat /\ Len(Strcpy(m.winner)) = Len(m.winner) + 1
  BY <1>1, StrcpyIs, Zenon DEF PlainText
<1>5. LiesBehind(buf, 0, p) /\ LiesBehind(buf, Len(p), t)
  <2> HIDE DEF p, t
  <2>1. QED
    BY <1>2, PartsLie
<1>6. buf[1] = m.draw
  <2> HIDE DEF p
  <2>1. 1 \in 1 .. Len(p) /\ 0 + 1 = 1
    BY <1>3
  <2>2. buf[0 + 1] = p[1]
    BY <1>5, <2>1 DEF LiesBehind
  <2>3. QED
    BY <1>3, <2>1, <2>2
<1>7. StringAt(buf, 2) = w
  <2>1. CASE m.draw = 0
    <3>1. t = Strcpy(m.winner)
      BY <2>1
    <3> HIDE DEF p, t
    <3>2. LiesBehind(buf, 1, Strcpy(m.winner))
      BY <1>3, <1>5, <3>1
    <3>3. StringAt(buf, 1 + 1) = m.winner
      BY <1>1, <3>2, StringRead
    <3>4. QED
      BY <2>1, <3>3
  <2>2. CASE m.draw # 0
    <3>1. t = <<>> /\ w = <<>>
      BY <2>2
    <3>2. Len(t) = 0
      BY <3>1
    <3>3. Len(ReplyBody(m)) = 2
      <4>1. Len(ReplyBody(m)) = 1 + Len(p) + Len(t)
        BY <1>2, ReplyBytesIs, Zenon
      <4>2. QED
        BY <1>3, <3>2, <4>1
    <3>4. buf[2] = 0 /\ 2 < BUF_SIZE
      BY <3>3 DEF InBuffer
    <3>5. StringAt(buf, 2) = <<>>
      <4> DEFINE none == <<>>
      <4>1. none \in Seq(Char) /\ Len(none) = 0
        OBVIOUS
      <4> HIDE DEF none
      <4>2. 2 \in Nat /\ 2 + Len(none) < BUF_SIZE /\ buf[2 + Len(none)] = 0
        BY <3>4, <4>1
      <4>3. \A j \in 1 .. Len(none) : buf[2 + j - 1] = none[j]
        BY <4>1
      <4>4. StringAt(buf, 2) = none
        BY <4>1, <4>2, <4>3, StringIs, Zenon
      <4>5. QED
        BY <4>4 DEF none
    <3>6. QED
      BY <3>1, <3>5, Zenon
  <2>3. QED
    BY <2>1, <2>2
<1>8. TypeOf(ServerClientProtocol, buf[0]) = m.type
  BY PartsInBuffer, Zenon
<1>9. ReadReply(buf) = [type |-> m.type, draw |-> buf[1], winner |-> StringAt(buf, 2)]
  BY <1>1, <1>8 DEF ReadReply
<1>10. Told(m) = [type |-> m.type, draw |-> m.draw, winner |-> w]
  BY <1>1 DEF Told
<1>11. QED
  BY <1>6, <1>7, <1>9, <1>10, Zenon

LEMMA MessageRead ==
  ASSUME NEW m \in [type : {"MESSAGE"}, username : PlainText, text : PlainText], NEW buf,
         m \in Replies, InBuffer(buf, m)
  PROVE  ReadReply(buf) = Told(m)
<1>1. /\ m.type = "MESSAGE" /\ m.username \in PlainText /\ m.text \in PlainText
      /\ m = [type |-> m.type, username |-> m.username, text |-> m.text]
  OBVIOUS
<1> DEFINE p == Strcpy(m.username)
           t == Strcpy(m.text)
           n == Len(m.username)
<1>2. Part1(m) = p /\ Part2(m) = t
  BY <1>1 DEF Part1, Part2, WithReason
<1>3. n \in Nat /\ Len(p) = n + 1 /\ Len(m.text) \in Nat /\ Len(t) = Len(m.text) + 1
  BY <1>1, StrcpyIs, Zenon DEF PlainText
<1>4. p = Strcpy(m.username) /\ t = Strcpy(m.text)
  OBVIOUS
<1> HIDE DEF p, t
<1>5. LiesBehind(buf, 0, p) /\ LiesBehind(buf, Len(p), t)
  BY <1>2, PartsLie
<1>6. StringAt(buf, 1) = m.username
  <2>1. StringAt(buf, 0 + 1) = m.username
    BY <1>1, <1>4, <1>5, StringRead
  <2>2. QED
    BY <2>1
<1>7. StringAt(buf, 2 + n) = m.text
  <2> DEFINE k == n + 1
  <2>1. k \in Nat /\ k + 1 = 2 + n
    BY <1>3
  <2>2. LiesBehind(buf, k, Strcpy(m.text))
    BY <1>3, <1>4, <1>5, Zenon
  <2> HIDE DEF k
  <2>3. StringAt(buf, k + 1) = m.text
    BY <1>1, <2>1, <2>2, StringRead
  <2>4. QED
    BY <2>1, <2>3
<1>8. TypeOf(ServerClientProtocol, buf[0]) = m.type
  BY PartsInBuffer, Zenon
<1>9. ReadReply(buf) = [type |-> m.type, username |-> StringAt(buf, 1),
                        text |-> StringAt(buf, 2 + Len(StringAt(buf, 1)))]
  BY <1>1, <1>8 DEF ReadReply, Strlen
<1>10. Told(m) = m
  BY <1>1 DEF Told
<1>11. QED
  BY <1>1, <1>6, <1>7, <1>9, <1>10, Zenon

LEMMA SmallRemainder ==
  ASSUME NEW n \in Nat \ {0}, NEW k \in 0 .. n - 1 PROVE k % n = k /\ (k + n) % n = k
OBVIOUS

(* The board that was turned is the own row and then the other.            *)
RowOf(m, side) ==
  [k \in 1 .. BOARD_SIZE \div 2 |-> m.board[(BOARD_SIZE \div 2) * side + k - 1]]

LEMMA TurnedRows ==
  ASSUME NEW m \in Plays
  PROVE  Part2(m) = RowOf(m, m.side) \o RowOf(m, 1 - m.side)
<1> DEFINE half == BOARD_SIZE \div 2
           t == [k \in 1 .. BOARD_SIZE |-> m.board[(k - 1 + half * m.side) % BOARD_SIZE]]
           u == RowOf(m, m.side)
           v == RowOf(m, 1 - m.side)
<1>1. m.type = "PLAYED" /\ m.side \in {0, 1} /\ m.board \in Boards
  BY DEF Plays
<1>2. Part2(m) = t
  BY <1>1 DEF Part2
<1>3. half \in Nat /\ half >= 1 /\ BOARD_SIZE = 2 * half /\ BOARD_SIZE \in Nat \ {0}
  BY BoardIs
<1> HIDE DEF half
<1>4. ASSUME NEW s \in {0, 1}, NEW k \in 1 .. half PROVE half * s + k - 1 \in 0 .. BOARD_SIZE - 1
  BY <1>3
<1>5. ASSUME NEW s \in {0, 1}
      PROVE  /\ RowOf(m, s) \in Seq(Bytes) /\ Len(RowOf(m, s)) = half
             /\ \A k \in 1 .. half : RowOf(m, s)[k] = m.board[half * s + k - 1]
  <2> DEFINE r == RowOf(m, s)
  <2>1. r = [k \in 1 .. half |-> m.board[half * s + k - 1]]
    BY DEF RowOf, half
  <2>2. \A k \in 1 .. half : m.board[half * s + k - 1] \in Bytes
    BY <1>1, <1>4 DEF Boards
  <2> HIDE DEF r
  <2>3. r \in [1 .. half -> Bytes]
    BY <2>1, <2>2
  <2>4. r \in Seq(Bytes) /\ Len(r) = half
    BY <1>3, <2>3, RangeIsSequence
  <2>5. QED
    BY <2>1, <2>4 DEF r
<1>6. 1 - m.side \in {0, 1}
  BY <1>1
<1>7. /\ u \in Seq(Bytes) /\ Len(u) = half /\ v \in Seq(Bytes) /\ Len(v) = half
      /\ \A k \in 1 .. half : u[k] = m.board[half * m.side + k - 1]
      /\ \A k \in 1 .. half : v[k] = m.board[half * (1 - m.side) + k - 1]
  BY <1>1, <1>5, <1>6
<1> HIDE DEF u, v
<1>8. u \o v \in Seq(Bytes) /\ Len(u \o v) = BOARD_SIZE
  <2>1. u \o v \in Seq(Bytes) /\ Len(u \o v) = Len(u) + Len(v)
    BY <1>7, Joining
  <2>2. QED
    BY <1>3, <1>7, <2>1
<1>9. ASSUME NEW k \in 1 .. BOARD_SIZE
      PROVE  m.board[(k - 1 + half * m.side) % BOARD_SIZE] = (u \o v)[k]
  <2>1. CASE k <= half
    <3>1. k \in 1 .. half /\ k \in 1 .. Len(u)
      BY <1>3, <1>7, <2>1
    <3>2. (u \o v)[k] = u[k]
      BY <1>7, <3>1, JoinLeft
    <3> DEFINE j == half * m.side + k - 1
    <3>3. k - 1 + half * m.side = j /\ j \in 0 .. BOARD_SIZE - 1
      BY <1>1, <1>3, <3>1
    <3>4. u[k] = m.board[j]
      BY <1>7, <3>1
    <3> HIDE DEF j
    <3>5. j % BOARD_SIZE = j
      BY <1>3, <3>3, SmallRemainder
    <3>6. QED
      BY <3>2, <3>3, <3>4, <3>5
  <2>2. CASE ~ (k <= half)
    <3>1. k - half \in 1 .. half /\ k \in 1 .. Len(u) + Len(v) /\ ~ (k <= Len(u))
      BY <1>3, <1>7, <2>2
    <3>2. (u \o v)[k] = v[k - half]
      BY <1>7, <3>1, JoinRight
    <3> DEFINE j == half * (1 - m.side) + (k - half) - 1
    <3>3. v[k - half] = m.board[j]
      BY <1>7, <3>1
    <3>4. j \in 0 .. BOARD_SIZE - 1 /\ (k - 1 + half * m.side = j \/ k - 1 + half * m.side = j + BOARD_SIZE)
      BY <1>1, <1>3, <3>1
    <3> HIDE DEF j
    <3>5. j % BOARD_SIZE = j /\ (j + BOARD_SIZE) % BOARD_SIZE = j
      BY <1>3, <3>4, SmallRemainder
    <3>6. (k - 1 + half * m.side) % BOARD_SIZE = j
      BY <3>4, <3>5, Zenon
    <3>7. QED
      BY <3>2, <3>3, <3>6, Zenon
  <2>3. QED
    BY <2>1, <2>2
<1>10. t = u \o v
  <2>1. PICK w : w = u \o v
    OBVIOUS
  <2>2. w \in Seq(Bytes) /\ Len(w) = BOARD_SIZE
    BY <1>8, <2>1
  <2>3. w = [k \in 1 .. BOARD_SIZE |-> w[k]]
    BY <2>2
  <2>4. \A k \in 1 .. BOARD_SIZE : m.board[(k - 1 + half * m.side) % BOARD_SIZE] = w[k]
    BY <1>9, <2>1
  <2>5. t = [k \in 1 .. BOARD_SIZE |-> w[k]]
    BY <2>4
  <2>6. QED
    BY <2>1, <2>3, <2>5, Zenon
<1>11. QED
  BY <1>2, <1>10 DEF u, v

LEMMA PlayedRead ==
  ASSUME NEW m \in Plays, NEW buf, m \in Replies, InBuffer(buf, m)
  PROVE  ReadReply(buf) = Told(m)
<1>1. /\ m.type = "PLAYED" /\ m.side \in {0, 1} /\ m.captured \in [{0, 1} -> Bytes]
      /\ m.board \in Boards
  BY DEF Plays
<1> DEFINE half == BOARD_SIZE \div 2
           p == <<Byte(m.captured[m.side]), Byte(m.captured[1 - m.side])>>
           t == [k \in 1 .. BOARD_SIZE |-> m.board[(k - 1 + half * m.side) % BOARD_SIZE]]
<1>2. Part1(m) = p /\ Part2(m) = t
  BY <1>1 DEF Part1, Part2, WithReason
<1>3. Byte(m.captured[m.side]) = m.captured[m.side] /\ Byte(m.captured[1 - m.side]) = m.captured[1 - m.side]
  <2>1. m.captured[m.side] \in Bytes /\ m.captured[1 - m.side] \in Bytes
    BY <1>1
  <2>2. QED
    BY <2>1, OneByte, Zenon
<1>4. Len(p) = 2 /\ p[1] = m.captured[m.side] /\ p[2] = m.captured[1 - m.side]
  BY <1>3
<1>5. t = [k \in 1 .. BOARD_SIZE |-> t[k]]
  OBVIOUS
<1> HIDE DEF p, t
<1>6. Len(t) = BOARD_SIZE
  <2>1. t \in Seq(Bytes)
    BY <1>2, ReplyBytesIs
  <2>2. QED
    BY <1>5, <2>1, BoardIs
<1>7. LiesBehind(buf, 0, p) /\ LiesBehind(buf, 2, t)
  BY <1>2, <1>4, PartsLie
<1>8. buf[1] = m.captured[m.side] /\ buf[2] = m.captured[1 - m.side]
  <2>1. \A j \in 1 .. 2 : buf[0 + j] = p[j]
    BY <1>4, <1>7 DEF LiesBehind
  <2>2. QED
    BY <1>4, <2>1
<1>9. BytesAt(buf, 3, BOARD_SIZE) = t
  <2>1. \A j \in 1 .. BOARD_SIZE : buf[2 + j] = t[j]
    BY <1>6, <1>7 DEF LiesBehind
  <2>2. \A j \in 1 .. BOARD_SIZE : 3 + j - 1 = 2 + j
    BY BoardIs
  <2>3. \A j \in 1 .. BOARD_SIZE : buf[3 + j - 1] = t[j]
    BY <2>1, <2>2
  <2>4. BytesAt(buf, 3, BOARD_SIZE) = [j \in 1 .. BOARD_SIZE |-> t[j]]
    BY <2>3 DEF BytesAt
  <2>5. QED
    BY <1>5, <2>4, Zenon
<1>10. TypeOf(ServerClientProtocol, buf[0]) = m.type
  BY PartsInBuffer, Zenon
<1>11. ReadReply(buf) = [type |-> "PLAYED", s_score |-> buf[1], o_score |-> buf[2],
                         board |-> BytesAt(buf, 3, BOARD_SIZE)]
  BY <1>1, <1>10 DEF ReadReply
<1>12. Told(m) = [type |-> "PLAYED", s_score |-> m.captured[m.side],
                  o_score |-> m.captured[1 - m.side],
                  board |-> RowOf(m, m.side) \o RowOf(m, 1 - m.side)]
  BY <1>1 DEF Told, RowOf
<1>13. RowOf(m, m.side) \o RowOf(m, 1 - m.side) = t
  BY <1>2, TurnedRows
<1>14. QED
  BY <1>8, <1>9, <1>11, <1>12, <1>13, Zenon

(* Where the strings of a list begin, as the reader finds it out.          *)
LEMMA StartsAre ==
  ASSUME NEW buf, NEW n \in Nat, NEW ss, NEW o, Begin(ss, n, o),
         \A k \in 1 .. n : StringAt(buf, 3 + o[k - 1]) = ss[k] /\ Len(ss[k]) \in Nat,
         NEW start, start = StringStarts(buf, 3, n)
  PROVE  \A k \in 0 .. n : start[k] = 3 + o[k]
<1> DEFINE Next(a) == a + Len(StringAt(buf, a)) + 1
           g == [k \in 0 .. n |-> 3 + o[k]]
<1>1. /\ o \in [0 .. n -> Nat] /\ o[0] = 0
      /\ \A k \in 1 .. n : o[k] = o[k - 1] + Len(ss[k]) + 1
  BY DEF Begin
<1>2. start = CHOOSE h : h = [j \in 0 .. n |-> IF j = 0 THEN 3 ELSE Next(h[j - 1])]
  BY DEF StringStarts, Strlen
<1>3. ASSUME NEW k \in 1 .. n PROVE 3 + o[k] = Next(3 + o[k - 1])
  <2>1. k - 1 \in 0 .. n /\ o[k - 1] \in Nat /\ Len(ss[k]) \in Nat
    BY <1>1
  <2>2. Next(3 + o[k - 1]) = (3 + o[k - 1]) + Len(ss[k]) + 1
    OBVIOUS
  <2>3. o[k] = o[k - 1] + Len(ss[k]) + 1
    BY <1>1
  <2>4. QED
    BY <2>1, <2>2, <2>3
<1> HIDE DEF Next
<1>4. g = [j \in 0 .. n |-> IF j = 0 THEN 3 ELSE Next(g[j - 1])]
  <2>1. ASSUME NEW j \in 0 .. n PROVE 3 + o[j] = IF j = 0 THEN 3 ELSE Next(g[j - 1])
    <3>1. CASE j = 0
      BY <1>1, <3>1
    <3>2. CASE j # 0
      <4>1. j \in 1 .. n /\ j - 1 \in 0 .. n
        BY <3>2
      <4>2. g[j - 1] = 3 + o[j - 1]
        BY <4>1
      <4>3. 3 + o[j] = Next(3 + o[j - 1])
        BY <1>3, <4>1
      <4>4. QED
        BY <3>2, <4>2, <4>3, Zenon
    <3>3. QED
      BY <3>1, <3>2
  <2>2. QED
    BY <2>1
<1> HIDE DEF g
<1>5. start = [j \in 0 .. n |-> IF j = 0 THEN 3 ELSE Next(start[j - 1])]
  BY <1>2, <1>4
<1> DEFINE P == {k \in 0 .. n : start[k] = 3 + o[k]}
<1>6. 0 \in P
  <2>1. start[0] = 3 + o[0]
    BY <1>1, <1>5
  <2>2. QED
    BY <2>1
<1>7. ASSUME NEW k \in 0 .. n - 1, k \in P PROVE k + 1 \in P
  <2>1. k + 1 \in 1 .. n /\ k + 1 \in 0 .. n /\ (k + 1) - 1 = k /\ k + 1 # 0
    OBVIOUS
  <2>2. start[k + 1] = Next(start[k])
    BY <1>5, <2>1
  <2>3. 3 + o[k + 1] = Next(3 + o[k])
    <3>1. 3 + o[k + 1] = Next(3 + o[(k + 1) - 1])
      BY <1>3, <2>1, Zenon
    <3>2. QED
      BY <2>1, <3>1
  <2>4. start[k] = 3 + o[k]
    BY <1>7
  <2>5. start[k + 1] = 3 + o[k + 1]
    BY <2>2, <2>3, <2>4, Zenon
  <2>6. QED
    BY <2>1, <2>5
<1> HIDE DEF P
<1>8. \A k \in 0 .. n : k \in P
  BY <1>6, <1>7, Induction
<1>9. QED
  BY <1>8 DEF P

LEMMA RoomRead ==
  ASSUME NEW m \in RoomLists, NEW buf, m \in Replies, InBuffer(buf, m)
  PROVE  ReadReply(buf) = Told(m)
<1> DEFINE nu == Len(m.users)
           ns == Len(m.spectators)
<1>1. /\ m.type = "JOIN_ROOM_SUCCESSFUL" /\ m.users \in Seq(Person)
      /\ m.spectators \in Seq(PlainText) /\ nu \in Bytes /\ ns \in Bytes
      /\ m = [type |-> m.type, users |-> m.users, spectators |-> m.spectators]
  BY RoomListIs
<1>2. PICK ss : ss = Strings(m)
  OBVIOUS
<1>3. PICK n : n = Len(ss)
  OBVIOUS
<1>4. /\ nu \in Nat /\ ns \in Nat /\ ss \in Seq(PlainText) /\ n = 2 * nu + ns
      /\ \A k \in 1 .. nu : ss[2 * k - 1] = m.users[k].name /\ ss[2 * k] = m.users[k].bio
      /\ \A k \in 1 .. ns : ss[2 * nu + k] = m.spectators[k]
  <2>1. nu = Len(m.users) /\ ns = Len(m.spectators)
    OBVIOUS
  <2>2. ss = RoomStrings(m.users, m.spectators)
    BY <1>2, Zenon DEF Strings
  <2>3. m.users \in Seq(Person) /\ m.spectators \in Seq(PlainText)
    BY <1>1
  <2> HIDE DEF nu, ns
  <2>4. PICK users : users = m.users
    OBVIOUS
  <2>5. PICK spectators : spectators = m.spectators
    OBVIOUS
  <2>6. /\ users \in Seq(Person) /\ spectators \in Seq(PlainText)
        /\ nu = Len(users) /\ ns = Len(spectators) /\ ss = RoomStrings(users, spectators)
    BY <2>1, <2>2, <2>3, <2>4, <2>5, Zenon
  <2>7. /\ nu \in Nat /\ ns \in Nat /\ ss \in Seq(PlainText) /\ Len(ss) = 2 * nu + ns
        /\ Listed(users, spectators, nu, ns, ss)
    <3>1. \A a \in Seq(Person), b \in Seq(PlainText) : \A x, y, z :
            x = Len(a) /\ y = Len(b) /\ z = RoomStrings(a, b)
            => /\ x \in Nat /\ y \in Nat /\ z \in Seq(PlainText) /\ Len(z) = 2 * x + y
               /\ Listed(a, b, x, y, z)
      BY RoomStringsAre, Zenon
    <3>2. QED
      BY <2>6, <3>1, SMT
  <2>8. QED
    BY <1>3, <2>4, <2>5, <2>7, Zenon DEF Listed
<1>5. n \in Nat /\ \E o : Begin(ss, n, o)
  BY <1>3, <1>4, BeginExists
<1>6. PICK o : Begin(ss, n, o)
  BY <1>5
<1>7. /\ Part1(m) = <<Byte(nu), Byte(ns)>> /\ Len(Part2(m)) = o[n]
      /\ \A k \in 1 .. n : LiesAt(Part2(m), o[k - 1], Strcpy(ss[k]))
  <2>1. nu = Len(m.users) /\ ns = Len(m.spectators)
    OBVIOUS
  <2> HIDE DEF nu, ns
  <2>2. /\ Part1(m) = <<Byte(Len(m.users)), Byte(Len(m.spectators))>>
        /\ Len(Part2(m)) = o[n]
        /\ \A k \in 1 .. n : LiesAt(Part2(m), o[k - 1], Strcpy(ss[k]))
    <3>1. ss \in Seq(PlainText) => Begin(ss, n, o)
      BY <1>6
    <3>2. QED
      BY <1>2, <1>3, <3>1, RoomWritten, SMT
  <2>3. QED
    BY <2>1, <2>2, Zenon
<1> DEFINE p == Part1(m)
           t == Part2(m)
<1>8. Len(p) = 2 /\ p[1] = nu /\ p[2] = ns
  <2>1. Byte(nu) = nu /\ Byte(ns) = ns
    BY <1>1, OneByte, Zenon
  <2> HIDE DEF nu, ns
  <2>2. QED
    BY <1>7, <2>1
<1> HIDE DEF p, t
<1>9. LiesBehind(buf, 0, p) /\ LiesBehind(buf, 2, t)
  BY <1>8, PartsLie DEF p, t
<1>10. buf[1] = nu /\ buf[2] = ns
  <2>1. \A j \in 1 .. 2 : buf[0 + j] = p[j]
    BY <1>8, <1>9 DEF LiesBehind
  <2>2. QED
    BY <1>8, <2>1
<1> HIDE DEF nu, ns
<1>11. ASSUME NEW k \in 1 .. n PROVE StringAt(buf, 3 + o[k - 1]) = ss[k] /\ Len(ss[k]) \in Nat
  <2>1. ss[k] \in PlainText
    BY <1>3, <1>4, ElementOfSeq
  <2> DEFINE u == Strcpy(ss[k])
             a == 2 + o[k - 1]
  <2>2. Len(ss[k]) \in Nat /\ Len(u) = Len(ss[k]) + 1
    BY <2>1, StrcpyIs DEF PlainText
  <2> HIDE DEF u
  <2>3. /\ o \in [0 .. n -> Nat] /\ \A i \in 1 .. n : o[i] = o[i - 1] + Len(ss[i]) + 1
    BY <1>6 DEF Begin
  <2>4. k - 1 \in 0 .. n /\ k \in 0 .. n /\ n \in 0 .. n /\ k <= n
    BY <1>5
  <2>5. o[k - 1] \in Nat /\ o[k] \in Nat /\ o[n] \in Nat /\ o[k] = o[k - 1] + Len(u)
    <3>1. o[k - 1] \in Nat /\ o[k] \in Nat /\ o[n] \in Nat
      BY <2>3, <2>4, Zenon
    <3>2. o[k] = o[k - 1] + Len(ss[k]) + 1
      BY <2>3, Zenon
    <3>3. QED
      BY <2>2, <3>1, <3>2
  <2>6. o[k] <= o[n]
    <3>1. ASSUME NEW i \in 1 .. n PROVE o[i - 1] <= o[i]
      <4>1. Len(ss[i]) \in Nat
        <5>1. ss[i] \in PlainText
          BY <1>3, <1>4, ElementOfSeq
        <5>2. QED
          BY <5>1 DEF PlainText
      <4>2. i - 1 \in 0 .. n
        BY <1>5
      <4>3. o[i - 1] \in Nat
        BY <2>3, <4>2, Zenon
      <4>4. o[i] = o[i - 1] + Len(ss[i]) + 1
        BY <2>3, Zenon
      <4>5. QED
        BY <4>1, <4>3, <4>4
    <3>2. \A i, j \in 0 .. n : i <= j => o[i] <= o[j]
      BY <1>5, <2>3, <3>1, SumsGrow
    <3>3. QED
      BY <2>4, <3>2
  <2>7. /\ 2 + o[n] < BUF_SIZE /\ \A j \in 1 .. o[n] : buf[2 + j] = t[j]
    BY <1>7, <1>9, Zenon DEF LiesBehind, t
  <2>8. ASSUME NEW j \in 1 .. Len(u) PROVE buf[a + j] = u[j]
    <3>1. o[k - 1] + j \in 1 .. o[n] /\ 2 + (o[k - 1] + j) = a + j
      <4>1. PICK d \in Nat : d = o[k - 1]
        BY <2>5
      <4>2. PICK e \in Nat : e = o[n]
        BY <2>5
      <4>3. Len(u) \in Nat /\ d + Len(u) <= e
        BY <2>2, <2>5, <2>6, <4>1, <4>2
      <4>4. d + j \in 1 .. e /\ 2 + (d + j) = (2 + d) + j
        BY <4>3
      <4>5. QED
        BY <4>1, <4>2, <4>4, Zenon
    <3>2. buf[2 + (o[k - 1] + j)] = t[o[k - 1] + j]
      BY <2>7, <3>1
    <3>3. t[o[k - 1] + j] = u[j]
      BY <1>7 DEF LiesAt, t, u
    <3>4. QED
      BY <3>1, <3>2, <3>3, Zenon
  <2>9. a \in Nat /\ a + Len(u) < BUF_SIZE /\ a + 1 = 3 + o[k - 1]
    <3>1. Len(u) \in Nat
      BY <2>2
    <3>2. BUF_SIZE \in Nat
      BY BufferSize
    <3>3. PICK d \in Nat : d = o[k - 1]
      BY <2>5
    <3>4. PICK e \in Nat : e = o[n]
      BY <2>5
    <3>5. d + Len(u) <= e /\ 2 + e < BUF_SIZE
      BY <2>5, <2>6, <2>7, <3>3, <3>4
    <3>6. 2 + d \in Nat /\ (2 + d) + Len(u) < BUF_SIZE /\ (2 + d) + 1 = 3 + d
      BY <3>1, <3>2, <3>5
    <3>7. QED
      BY <3>3, <3>6, Zenon
  <2> HIDE DEF a
  <2>10. LiesBehind(buf, a, Strcpy(ss[k]))
    BY <2>8, <2>9 DEF LiesBehind, u
  <2>11. StringAt(buf, a + 1) = ss[k]
    BY <2>1, <2>9, <2>10, StringRead
  <2>12. QED
    BY <2>2, <2>9, <2>11
<1>12. PICK start : start = StringStarts(buf, 3, n)
  OBVIOUS
<1>13. \A k \in 0 .. n : start[k] = 3 + o[k]
  BY <1>5, <1>6, <1>11, <1>12, StartsAre
<1>14. ASSUME NEW k \in 1 .. n PROVE StringAt(buf, start[k - 1]) = ss[k]
  <2>1. k - 1 \in 0 .. n
    BY <1>5
  <2>2. start[k - 1] = 3 + o[k - 1]
    BY <1>13, <2>1
  <2>3. QED
    BY <1>11, <2>2
<1>15. ASSUME NEW k \in 1 .. nu
       PROVE  /\ StringAt(buf, start[2 * k - 2]) = m.users[k].name
              /\ StringAt(buf, start[2 * k - 1]) = m.users[k].bio
  <2>1. /\ 2 * k - 1 \in 1 .. n /\ (2 * k - 1) - 1 = 2 * k - 2
        /\ 2 * k \in 1 .. n
    BY <1>4
  <2>2. /\ StringAt(buf, start[(2 * k - 1) - 1]) = ss[2 * k - 1]
        /\ StringAt(buf, start[2 * k - 1]) = ss[2 * k]
    BY <1>14, <2>1, Zenon
  <2>3. QED
    BY <1>4, <2>1, <2>2
<1>16. ASSUME NEW k \in 1 .. ns
       PROVE  StringAt(buf, start[2 * nu + k - 1]) = m.spectators[k]
  <2>1. 2 * nu + k \in 1 .. n /\ (2 * nu + k) - 1 = 2 * nu + k - 1
    BY <1>4
  <2>2. StringAt(buf, start[2 * nu + k - 1]) = ss[2 * nu + k]
    BY <1>14, <2>1, Zenon
  <2>3. QED
    BY <1>4, <2>2
<1>17. [k \in 1 .. nu |-> [name |-> StringAt(buf, start[2 * k - 2]),
                           bio |-> StringAt(buf, start[2 * k - 1])]] = m.users
  <2>1. ASSUME NEW k \in 1 .. nu
        PROVE  m.users[k] = [name |-> m.users[k].name, bio |-> m.users[k].bio]
    <3>1. m.users[k] \in Person
      BY <1>1, ElementOfSeq DEF nu
    <3>2. QED
      BY <3>1 DEF Person
  <2>2. m.users = [k \in 1 .. nu |-> m.users[k]]
    BY <1>1 DEF nu
  <2>3. \A k \in 1 .. nu : [name |-> StringAt(buf, start[2 * k - 2]),
                              bio |-> StringAt(buf, start[2 * k - 1])] = m.users[k]
    BY <1>15, <2>1, Zenon
  <2>4. QED
    BY <2>2, <2>3
<1>18. [k \in 1 .. ns |-> StringAt(buf, start[2 * nu + k - 1])] = m.spectators
  <2>1. m.spectators = [k \in 1 .. ns |-> m.spectators[k]]
    BY <1>1 DEF ns
  <2>2. QED
    BY <1>16, <2>1
<1>19. TypeOf(ServerClientProtocol, buf[0]) = m.type
  BY PartsInBuffer, Zenon
<1>20. ReadReply(buf) = ReadRoom(buf)
  BY <1>1, <1>19 DEF ReadReply
<1>21. ReadRoom(buf) =
         [type |-> "JOIN_ROOM_SUCCESSFUL",
          users |-> [k \in 1 .. nu |-> [name |-> StringAt(buf, start[2 * k - 2]),
                                        bio |-> StringAt(buf, start[2 * k - 1])]],
          spectators |-> [k \in 1 .. ns |-> StringAt(buf, start[2 * nu + k - 1])]]
  BY <1>4, <1>10, <1>12 DEF ReadRoom
<1>22. Told(m) = m
  BY <1>1 DEF Told
<1>23. QED
  BY <1>1, <1>17, <1>18, <1>20, <1>21, <1>22, Zenon

(* Every message the server can write is read back by the client as it was *)
(* meant, field by field, when its body lies at the start of the buffer    *)
(* with the 0 behind it: the lists of a room, the board turned to either   *)
(* player, and the winner that a draw does not have.                       *)
THEOREM RepliesReadBack ==
  ASSUME NEW m \in Replies, NEW buf, InBuffer(buf, m), buf[Len(ReplyBody(m))] = 0
  PROVE  ReadReply(buf) = Told(m)
BY ReplyKinds, TextRead, SuccessRead, CreatedRead, RoomRead, PlayedRead, StartRead,
   StoppedRead, MessageRead, Zenon
=============================================================================
