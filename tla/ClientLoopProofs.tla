--------------------------- MODULE ClientLoopProofs ---------------------------
(***************************************************************************)
(* Proofs about the loop of the client: the terminal and the server share  *)
(* one buffer, and nothing of either is lost or mixed up in it.            *)
(***************************************************************************)
EXTENDS ClientLoop, StreamProofs

(***************************************************************************)
(* The terminal, the socket and the buffer.                                *)
(***************************************************************************)
TerminalInv ==
  /\ tty \in Seq(Seq(Char)) /\ Len(tty) <= MaxWaiting
  /\ stdio \in Seq(Char) /\ eof \in BOOLEAN

SocketInv ==
  /\ setting \in Settings
  /\ stream \in Streams /\ arrived \in BOOLEAN /\ (arrived => stream # <<>>)
  /\ unheard \in Seq(Replies) /\ FitBuffer(unheard) /\ cut \in BOOLEAN
  /\ pc \in {"select", "body", "closed", "lost"}
  /\ buffer \in Buffers

LEMMA Assumed ==
  ASSUME SocketInv
  PROVE  /\ BUF_SIZE > Len(CLOSE) + 2 /\ Window \in 0 .. BUF_SIZE - 1 /\ MaxWaiting \in Nat
         /\ setting.says \subseteq Replies /\ setting.lines \subseteq Seq(Char)
BY ClientLoopAssumption DEF SocketInv

LEMMA NewBuffer == [k \in 0 .. BUF_SIZE - 1 |-> 0] \in Buffers
BY DEF Buffers, Bytes

LEMMA InitInv == Init => TerminalInv /\ SocketInv
<1> SUFFICES ASSUME Init PROVE TerminalInv /\ SocketInv
  OBVIOUS
<1>1. \A S : <<>> \in Seq(S) /\ Len(<<>>) = 0
  OBVIOUS
<1>2. tty \in Seq(Seq(Char)) /\ stdio \in Seq(Char) /\ unheard \in Seq(Replies)
  BY <1>1, Zenon DEF Init
<1>3. Len(tty) <= MaxWaiting
  BY <1>1, ClientLoopAssumption DEF Init
<1>4. buffer \in Buffers /\ stream \in Streams /\ FitBuffer(unheard)
  BY NewBuffer, EmptyStream, FitEmpty, Zenon DEF Init
<1>5. eof \in BOOLEAN /\ setting \in Settings /\ arrived = FALSE /\ cut = FALSE /\ pc = "select"
  BY DEF Init
<1>6. QED
  BY <1>2, <1>3, <1>4, <1>5 DEF TerminalInv, SocketInv

(***************************************************************************)
(* A line is read.                                                         *)
(***************************************************************************)

(* What fgets returns of what there is to read.                            *)
LEMMA PieceIs ==
  ASSUME TerminalInv, pc = "select", Selected = "keyboard"
  PROVE  /\ Source \in Seq(Char) /\ Piece \in Seq(Char)
         /\ Len(Piece) \in Nat /\ Len(Piece) <= Len(Source) /\ Len(Piece) <= BUF_SIZE - 2
         /\ Piece = SubSeq(Source, 1, Len(Piece))
         /\ \A k \in 1 .. Len(Piece) - 1 : Source[k] # NL
<1> DEFINE ends == {BUF_SIZE - 2, Len(Source)} \cup {k \in DOMAIN Source : Source[k] = NL}
           n    == Min(ends)
<1>1. Source \in Seq(Char)
  <2>1. tty # <<>> /\ tty \in Seq(Seq(Char)) /\ stdio \in Seq(Char)
    BY DEF Selected, Readable, TerminalInv
  <2>2. Head(tty) \in Seq(Char) /\ <<>> \in Seq(Char)
    BY <2>1
  <2>3. QED
    BY <2>1, <2>2 DEF Source
<1>2. BUF_SIZE - 2 \in Nat
  BY BufferSize
<1>3. Len(Source) \in Nat /\ DOMAIN Source = 1 .. Len(Source)
  BY <1>1
<1>4. ends \in SUBSET Nat /\ ends # {}
  BY <1>2, <1>3
<1>5. n \in ends /\ \A e \in ends : n <= e
  <2> HIDE DEF ends
  <2>1. QED
    BY <1>4, MinOfNaturals, Zenon
<1>6. n \in Nat /\ n <= Len(Source) /\ n <= BUF_SIZE - 2
  BY <1>4, <1>5
<1>7. Piece = SubSeq(Source, 1, n)
  BY DEF Piece
<1> HIDE DEF n
<1>8. ASSUME NEW k \in 1 .. n - 1 PROVE Source[k] # NL
  <2>1. k \in DOMAIN Source /\ k < n /\ k \in Nat
    BY <1>3, <1>6
  <2>2. Source[k] = NL => k \in ends
    BY <2>1
  <2> HIDE DEF ends
  <2>3. k \in ends => n <= k
    BY <1>5, Zenon
  <2>4. QED
    BY <1>6, <2>1, <2>2, <2>3
<1>9. Piece \in Seq(Char) /\ Len(Piece) = n
  BY <1>1, <1>6, <1>7
<1>10. QED
  BY <1>1, <1>6, <1>7, <1>8, <1>9

LEMMA FilledIs ==
  ASSUME TerminalInv, SocketInv, pc = "select", Selected = "keyboard"
  PROVE  /\ Filled \in Buffers
         /\ Source # <<>> => \A j \in 1 .. Len(Piece) + 1 : Filled[j - 1] = Strcpy(Piece)[j]
<1>1. Piece \in Seq(Char) /\ Len(Piece) \in Nat /\ Len(Piece) <= BUF_SIZE - 2
  BY PieceIs
<1>2. buffer \in Buffers
  BY DEF SocketInv
<1> DEFINE s == Strcpy(Piece)
<1>3. s \in Seq(Bytes) /\ Len(s) = Len(Piece) + 1
  BY <1>1, StrcpyIs
<1> HIDE DEF s
<1>4. /\ Len(s) \in Nat /\ Len(s) <= BUF_SIZE /\ BUF_SIZE \in Nat
      /\ \A j \in 1 .. Len(s) : s[j] \in Bytes
  BY <1>1, <1>3, BufferSize
<1>5. /\ Put(buffer, s) \in Buffers
      /\ \A j \in 1 .. Len(s) : j <= BUF_SIZE => Put(buffer, s)[j - 1] = s[j]
  BY <1>2, <1>4, PutIs
<1>6. Filled \in Buffers
  BY <1>2, <1>5 DEF Filled, s
<1>7. ASSUME Source # <<>>, NEW j \in 1 .. Len(Piece) + 1 PROVE Filled[j - 1] = s[j]
  <2>1. Filled = Put(buffer, s)
    BY <1>7 DEF Filled, s
  <2>2. j \in 1 .. Len(s) /\ j <= BUF_SIZE
    <3>1. j \in 1 .. Len(s)
      BY <1>3, <1>7
    <3>2. QED
      BY <1>4, <3>1
  <2>3. QED
    BY <1>5, <2>1, <2>2, Zenon
<1>8. QED
  BY <1>6, <1>7 DEF s

LEMMA StrippedIs == ASSUME NEW buf \in Buffers PROVE Stripped(buf) \in Buffers
<1> DEFINE e == IF {k \in 0 .. Strlen(StringAt(buf, 0)) - 1 : buf[k] = NL} = {}
                THEN BUF_SIZE - 1
                ELSE Min({k \in 0 .. Strlen(StringAt(buf, 0)) - 1 : buf[k] = NL})
<1>1. Stripped(buf) = [buf EXCEPT ![e] = 0]
  BY Zenon DEF Stripped
<1> HIDE DEF e
<1>2. 0 \in Bytes
  BY DEF Bytes
<1>3. QED
  BY <1>1, <1>2 DEF Buffers

LEMMA ReadLineInv ==
  ASSUME TerminalInv, SocketInv, ReadLine
  PROVE  TerminalInv' /\ SocketInv'
<1>1. pc = "select" /\ Selected = "keyboard" /\ tty # <<>>
  BY DEF ReadLine, Selected, Readable
<1>2. Filled \in Buffers
  BY <1>1, FilledIs
<1>3. buffer' \in Buffers
  BY <1>2, StrippedIs DEF ReadLine
<1>4. stdio' \in Seq(Char)
  <2>1. Source \in Seq(Char) /\ Len(Piece) \in Nat /\ Len(Piece) <= Len(Source)
    BY <1>1, PieceIs
  <2>2. stdio' = SubSeq(Source, Len(Piece) + 1, Len(Source))
    BY DEF ReadLine, Rest
  <2>3. QED
    BY <2>1, <2>2, SubSeqRest
<1>5. tty' \in Seq(Seq(Char)) /\ Len(tty') <= MaxWaiting
  <2>1. tty \in Seq(Seq(Char)) /\ Len(tty) <= MaxWaiting /\ MaxWaiting \in Nat
    BY ClientLoopAssumption DEF TerminalInv
  <2>2. Tail(tty) \in Seq(Seq(Char)) /\ Len(Tail(tty)) <= MaxWaiting
    BY <1>1, <2>1
  <2>3. QED
    BY <2>1, <2>2 DEF ReadLine
<1>6. eof' \in BOOLEAN /\ pc' \in {"select", "closed"}
  BY DEF ReadLine, TerminalInv
<1>7. QED
  BY <1>3, <1>4, <1>5, <1>6 DEF ReadLine, TerminalInv, SocketInv, socket, ghosts

(***************************************************************************)
(* A recv.                                                                 *)
(***************************************************************************)
LEMMA TakesIs ==
  ASSUME SocketInv, arrived, NEW asked \in Nat, NEW got, Takes(asked, got)
  PROVE  /\ stream \in Streams /\ stream # <<>>
         /\ got \in Received(stream, asked) /\ stream' = Rest(stream, got)
         /\ cut' = (cut \/ IsShort(got, asked)) /\ cut' \in BOOLEAN
         /\ stream' \in Streams /\ arrived' \in BOOLEAN /\ (arrived' => stream' # <<>>)
         /\ Len(got) \in Nat /\ \A j \in 1 .. Len(got) : got[j] \in Bytes
         /\ buffer' = Terminate(Put(buffer, got), Len(got)) /\ buffer' \in Buffers
<1>1. stream \in Streams /\ stream # <<>> /\ buffer \in Buffers /\ cut \in BOOLEAN
  BY DEF SocketInv
<1>2. /\ got \in Received(stream, asked) /\ stream' = Rest(stream, got)
      /\ cut' = (cut \/ IsShort(got, asked))
      /\ buffer' = Terminate(Put(buffer, got), Len(got))
  BY DEF Takes
<1>3. PICK more \in MoreArrived(stream') : arrived' = IF got = <<>> THEN arrived ELSE more
  BY DEF Takes
<1>4. Len(got) \in Nat
  BY <1>1, <1>2, ReceivedLength, Zenon
<1>5. stream' \in Streams /\ \A j \in 1 .. Len(got) : got[j] \in Bytes
  BY <1>1, <1>2, ReceivedStream, Zenon
<1>6. buffer' \in Buffers
  BY <1>1, <1>2, <1>4, <1>5, PutTerminated, Zenon
<1>7. more \in BOOLEAN /\ (more => stream' # <<>>)
  BY <1>3 DEF MoreArrived
<1>8. got = <<>> => stream' = stream
  <2>1. stream \in Seq(Bytes \cup {END})
    BY <1>1, InFlightIs
  <2>2. Len(<<>>) + 1 = 1
    OBVIOUS
  <2>3. SubSeq(stream, 1, Len(stream)) = stream
    BY <2>1, SubSeqFull, Zenon
  <2>4. QED
    BY <1>2, <2>2, <2>3, Zenon DEF Rest
<1>9. arrived' \in BOOLEAN /\ (arrived' => stream' # <<>>)
  BY <1>1, <1>3, <1>7, <1>8
<1>10. cut' \in BOOLEAN
  BY <1>1, <1>2 DEF IsShort
<1>11. QED
  BY <1>1, <1>2, <1>4, <1>5, <1>6, <1>9, <1>10, Zenon

LEMMA SaysFits ==
  ASSUME SocketInv, NEW m \in setting.says, Send(m)
  PROVE  /\ m \in Replies /\ m \in Messages /\ FrameLen(m) <= BUF_SIZE - 1
         /\ stream' = stream \o FrameOf(m)
<1>1. m \in Replies /\ Window \in 0 .. BUF_SIZE - 1
  BY Assumed
<1>2. m \in Messages /\ FrameOf(m) = ReplyBytes(m)
  BY <1>1, OfReply
<1>3. Len(stream) + FrameLen(m) <= Window /\ stream' = stream \o FrameOf(m)
  BY <1>2 DEF Send, FrameLen
<1>4. stream \in Streams
  BY DEF SocketInv
<1>5. Len(stream) \in Nat /\ FrameLen(m) \in Nat
  BY <1>2, <1>4, InFlightIs, FrameLenIs
<1>6. FrameLen(m) <= BUF_SIZE - 1
  BY <1>1, <1>3, <1>5, BufferSize
<1>7. QED
  BY <1>1, <1>2, <1>3, <1>6

LEMMA SocketNext ==
  ASSUME TerminalInv, SocketInv, [Next]_vars
  PROVE  TerminalInv' /\ SocketInv'
<1>1. CASE UNCHANGED vars
  BY <1>1 DEF vars, keyboard, socket, ghosts, TerminalInv, SocketInv
<1>2. ASSUME NEW line \in Seq(Char), Type(line) PROVE TerminalInv' /\ SocketInv'
  <2>1. tty \in Seq(Seq(Char)) /\ Len(tty) < MaxWaiting /\ tty' = Append(tty, line)
    BY <1>2 DEF Type, TerminalInv
  <2>2. MaxWaiting \in Nat
    BY ClientLoopAssumption
  <2>3. tty' \in Seq(Seq(Char)) /\ Len(tty') <= MaxWaiting
    <3> DEFINE L == Seq(Char)
    <3> HIDE DEF L
    <3>1. tty \in Seq(L) /\ line \in L
      BY <1>2, <2>1 DEF L
    <3>2. Append(tty, line) \in Seq(L) /\ Len(Append(tty, line)) = Len(tty) + 1 /\ Len(tty) \in Nat
      BY <3>1
    <3>3. QED
      BY <2>1, <2>2, <3>2 DEF L
  <2>4. UNCHANGED <<stdio, eof, socket, pc, buffer, ghosts>>
    BY <1>2 DEF Type
  <2>5. QED
    BY <2>3, <2>4 DEF socket, ghosts, TerminalInv, SocketInv
<1>3. CASE EndInput
  <2>1. <<>> \in Seq(Char)
    OBVIOUS
  <2>2. QED
    BY <1>2, <1>3, <2>1 DEF EndInput
<1>4. ASSUME NEW m \in setting.says, Send(m) PROVE TerminalInv' /\ SocketInv'
  <2>1. /\ m \in Replies /\ m \in Messages /\ FrameLen(m) <= BUF_SIZE - 1
        /\ stream' = stream \o FrameOf(m)
    BY <1>4, SaysFits
  <2>2. /\ ~ Ended(stream) /\ unheard' = Append(unheard, m)
        /\ UNCHANGED <<setting, keyboard, arrived, pc, buffer, cut>>
    BY <1>4 DEF Send
  <2>3. stream \in Streams /\ unheard \in Seq(Replies) /\ FitBuffer(unheard)
    BY DEF SocketInv
  <2>4. stream' \in Streams /\ stream' # <<>>
    BY <2>1, <2>2, <2>3, SendStream, Zenon
  <2>5. unheard' \in Seq(Replies) /\ FitBuffer(unheard')
    BY <2>1, <2>2, <2>3, FitAppend, Zenon
  <2>6. QED
    BY <2>2, <2>4, <2>5 DEF keyboard, TerminalInv, SocketInv
<1>5. CASE ServerEnds
  <2>1. /\ ~ Ended(stream) /\ stream' = Append(stream, END)
        /\ UNCHANGED <<keyboard, arrived, pc, buffer, ghosts>>
    BY <1>5 DEF ServerEnds
  <2>2. stream \in Streams
    BY DEF SocketInv
  <2>3. stream' \in Streams /\ stream' # <<>>
    BY <2>1, <2>2, EndStream, Zenon
  <2>4. QED
    BY <2>1, <2>3 DEF keyboard, ghosts, TerminalInv, SocketInv
<1>6. CASE Arrive
  BY <1>6 DEF Arrive, keyboard, ghosts, TerminalInv, SocketInv
<1>7. CASE ReadLine
  BY <1>7, ReadLineInv
<1>8. CASE ReadLength
  <2>1. arrived /\ pc' = "body"
    BY <1>8 DEF ReadLength, Selected
  <2>2. LengthBytes \in Nat
    BY DEF LengthBytes
  <2>3. PICK got : Takes(LengthBytes, got)
    BY <1>8 DEF ReadLength
  <2>4. /\ stream' \in Streams /\ arrived' \in BOOLEAN /\ (arrived' => stream' # <<>>)
        /\ cut' \in BOOLEAN /\ buffer' \in Buffers
    BY <2>1, <2>2, <2>3, TakesIs, Zenon
  <2>5. unheard' \in Seq(Replies) /\ FitBuffer(unheard')
    <3>1. unheard \in Seq(Replies) /\ FitBuffer(unheard) /\ <<>> \in Seq(Replies)
      BY DEF SocketInv
    <3>2. unheard' = <<>> \/ unheard' = unheard
      BY <1>8 DEF ReadLength
    <3>3. QED
      BY <3>1, <3>2, FitEmpty
  <2>6. UNCHANGED <<setting, keyboard>>
    BY <1>8 DEF ReadLength
  <2>7. QED
    BY <2>1, <2>4, <2>5, <2>6 DEF keyboard, TerminalInv, SocketInv
<1>9. CASE Handle
  <2>1. arrived /\ pc' = "select"
    BY <1>9 DEF Handle
  <2>2. PICK size : size = SizeIn(buffer)
    OBVIOUS
  <2>3. size \in Nat
    BY <2>2, SizeInNat DEF SocketInv
  <2>4. PICK got : Takes(size, got)
    BY <1>9, <2>2 DEF Handle
  <2>5. /\ stream' \in Streams /\ arrived' \in BOOLEAN /\ (arrived' => stream' # <<>>)
        /\ cut' \in BOOLEAN /\ buffer' \in Buffers
    BY <2>1, <2>3, <2>4, TakesIs, Zenon
  <2>6. unheard' \in Seq(Replies) /\ FitBuffer(unheard')
    <3>1. unheard \in Seq(Replies) /\ FitBuffer(unheard) /\ <<>> \in Seq(Replies)
      BY DEF SocketInv
    <3>2. unheard' = <<>> \/ (unheard # <<>> /\ unheard' = Tail(unheard))
      BY <1>9 DEF Handle
    <3>3. unheard # <<>> => Tail(unheard) \in Seq(Replies) /\ FitBuffer(Tail(unheard))
      BY <3>1, FitTail, Zenon
    <3>4. QED
      BY <3>1, <3>2, <3>3, FitEmpty
  <2>7. UNCHANGED <<setting, keyboard>>
    BY <1>9 DEF Handle
  <2>8. QED
    BY <2>1, <2>5, <2>6, <2>7 DEF keyboard, TerminalInv, SocketInv
<1>10. CASE Lose
  <2>1. buffer' \in Buffers
    BY <1>10, TerminateIs DEF Lose, SocketInv
  <2>2. QED
    BY <1>10, <2>1 DEF Lose, keyboard, socket, ghosts, TerminalInv, SocketInv
<1>11. QED
  BY <1>1, <1>2, <1>3, <1>4, <1>5, <1>6, <1>7, <1>8, <1>9, <1>10, Assumed DEF Next, App

(* The types of the loop of the client: whatever lines and messages come   *)
(* in between, the buffer keeps its size and holds bytes, and the socket is *)
(* readable only with something to read.                                   *)
THEOREM ClientTypeOK == Spec => []TypeOK
<1>1. Init => TerminalInv /\ SocketInv
  BY InitInv
<1>2. TerminalInv /\ SocketInv /\ [Next]_vars => TerminalInv' /\ SocketInv'
  BY SocketNext
<1>3. TerminalInv /\ SocketInv => TypeOK
  <2> SUFFICES ASSUME TerminalInv, SocketInv PROVE TypeOK
    OBVIOUS
  <2>1. stream \in Seq(Bytes \cup {END})
    BY InFlightIs DEF SocketInv
  <2>2. \A k \in DOMAIN stream : stream[k] \in Bytes \cup {END}
    <3>1. \A k \in 1 .. Len(stream) : stream[k] \in Bytes \cup {END}
      BY <2>1, ElementOfSeq, Zenon
    <3>2. DOMAIN stream = 1 .. Len(stream)
      BY <2>1, LenProperties, Zenon
    <3>3. QED
      BY <3>1, <3>2
  <2>3. DOMAIN buffer = 0 .. BUF_SIZE - 1 /\ \A k \in DOMAIN buffer : buffer[k] \in Bytes
    BY DEF SocketInv, Buffers
  <2>4. QED
    BY <2>2, <2>3 DEF TypeOK, TerminalInv, SocketInv
<1>4. QED
  BY <1>1, <1>2, <1>3, PTL DEF Spec

(***************************************************************************)
(* What is in flight is what was not handled yet.                          *)
(***************************************************************************)
Owed ==
  CASE pc = "body" -> (stream = <<END>> /\ unheard = <<>>) \/ LengthRead(buffer, stream, unheard)
    [] pc = "lost" -> stream = <<END>> /\ unheard = <<>>
    [] OTHER       -> Whole(stream, unheard)

MessageInv == ~cut => Owed

LEMMA EndIsEnded == Ended(<<END>>)
BY DEF Ended

LEMMA ReadLengthOwed ==
  ASSUME SocketInv, MessageInv, ReadLength
  PROVE  MessageInv'
<1>1. SUFFICES ASSUME ~ cut' PROVE Owed'
  BY DEF MessageInv
<1>2. arrived /\ pc = "select" /\ pc' = "body" /\ unheard' = unheard
  BY <1>1 DEF ReadLength, Selected
<1>3. LengthBytes \in Nat
  BY DEF LengthBytes
<1>4. PICK got : Takes(LengthBytes, got)
  BY DEF ReadLength
<1>5. /\ stream \in Streams /\ stream # <<>>
      /\ got \in Received(stream, LengthBytes) /\ stream' = Rest(stream, got)
      /\ cut' = (cut \/ IsShort(got, LengthBytes))
      /\ Len(got) \in Nat /\ \A j \in 1 .. Len(got) : got[j] \in Bytes
      /\ buffer' = Terminate(Put(buffer, got), Len(got))
  BY <1>2, <1>3, <1>4, TakesIs, Zenon
<1>6. ~ cut /\ ~ IsShort(got, LengthBytes)
  BY <1>1, <1>5
<1>7. Whole(stream, unheard)
  BY <1>2, <1>6 DEF MessageInv, Owed
<1>8. unheard \in Seq(Messages) /\ buffer \in Buffers
  BY MessagesToo DEF SocketInv
<1>9. \A j \in 1 .. Len(got) : j <= BUF_SIZE => buffer'[j - 1] = got[j]
  BY <1>5, <1>8, PutTerminated
<1>10. PICK t : t = stream'
  OBVIOUS
<1>11. PICK b : b = buffer'
  OBVIOUS
<1>12. (t = <<END>> /\ unheard = <<>>) \/ LengthRead(b, t, unheard)
  <2>1. t = Rest(stream, got) /\ \A j \in 1 .. Len(got) : j <= BUF_SIZE => b[j - 1] = got[j]
    BY <1>5, <1>9, <1>10, <1>11, Zenon
  <2>2. QED
    BY <1>5, <1>6, <1>7, <1>8, <2>1, LengthIsRead, Zenon
<1>13. QED
  BY <1>2, <1>10, <1>11, <1>12 DEF Owed

LEMMA HandleIs ==
  ASSUME SocketInv, MessageInv, Handle, ~ cut'
  PROVE  /\ unheard # <<>> /\ ReadReply(buffer') = Told(Head(unheard))
         /\ Whole(stream', unheard')
<1>1. arrived /\ pc = "body"
  BY DEF Handle
<1>2. PICK size : size = SizeIn(buffer)
  OBVIOUS
<1>3. size \in Nat /\ buffer \in Buffers
  BY <1>2, SizeInNat DEF SocketInv
<1>4. PICK got : got # <<>> /\ Takes(size, got)
  BY <1>2 DEF Handle
<1>5. /\ stream \in Streams /\ stream # <<>>
      /\ got \in Received(stream, size) /\ stream' = Rest(stream, got)
      /\ cut' = (cut \/ IsShort(got, size))
      /\ buffer' = Terminate(Put(buffer, got), Len(got))
  BY <1>1, <1>3, <1>4, TakesIs, Zenon
<1>6. ~ cut /\ ~ IsShort(got, size)
  BY <1>5
<1>7. stream = <<END>> \/ LengthRead(buffer, stream, unheard)
  BY <1>1, <1>6 DEF MessageInv, Owed
<1>8. stream # <<END>>
  <2>1. SUFFICES ASSUME stream = <<END>> PROVE FALSE
    OBVIOUS
  <2>2. Head(stream) = END
    BY <2>1
  <2>3. Len(got) = 0 /\ got = SubSeq(stream, 1, Len(got))
    BY <1>3, <1>5, <2>2, ReceivedLength
  <2>4. got = <<>>
    BY <2>1, <2>3
  <2>5. QED
    BY <1>4, <2>4
<1>9. LengthRead(buffer, stream, unheard)
  BY <1>7, <1>8, Zenon
<1>10. unheard \in Seq(Replies) /\ unheard \in Seq(Messages) /\ FitBuffer(unheard)
  BY MessagesToo DEF SocketInv
<1>11. /\ unheard # <<>> /\ Whole(stream', Tail(unheard))
       /\ Holds(buffer', Head(unheard))
  BY <1>2, <1>3, <1>4, <1>5, <1>6, <1>9, <1>10, NextIsHandled, Zenon
<1>12. unheard' = Tail(unheard)
  BY <1>11 DEF Handle
<1>13. Head(unheard) \in Replies
  BY <1>10, <1>11
<1>14. ReadReply(buffer') = Told(Head(unheard))
  BY <1>11, <1>13, ReplyHeld, Zenon
<1>15. QED
  BY <1>11, <1>12, <1>14, Zenon

LEMMA LoseIs ==
  ASSUME SocketInv, MessageInv, Lose, ~ cut
  PROVE  stream = <<END>> /\ unheard = <<>>
<1>1. arrived /\ pc = "body" /\ (SizeIn(buffer) = 0 \/ Head(stream) = END)
  BY DEF Lose
<1>2. (stream = <<END>> /\ unheard = <<>>) \/ LengthRead(buffer, stream, unheard)
  BY <1>1 DEF MessageInv, Owed
<1>3. /\ stream \in Streams /\ stream # <<>> /\ unheard \in Seq(Messages)
      /\ FitBuffer(unheard)
  BY <1>1, MessagesToo DEF SocketInv
<1>4. ~ LengthRead(buffer, stream, unheard)
  BY <1>1, <1>3, NotTheEnd, Zenon
<1>5. QED
  BY <1>2, <1>4, Zenon

LEMMA MessageNext ==
  ASSUME SocketInv, MessageInv, [Next]_vars
  PROVE  MessageInv'
<1> DEFINE kept == <<stream, cut, unheard, buffer, pc>>
<1>1. ASSUME UNCHANGED kept PROVE MessageInv'
  BY <1>1 DEF MessageInv, Owed
<1>2. CASE UNCHANGED vars
  BY <1>1, <1>2 DEF vars, socket, ghosts
<1>3. CASE EndInput \/ \E line \in setting.lines : Type(line)
  BY <1>1, <1>3 DEF EndInput, Type, socket, ghosts
<1>4. CASE Arrive
  BY <1>1, <1>4 DEF Arrive, ghosts
<1>5. ASSUME NEW m \in setting.says, Send(m) PROVE MessageInv'
  <2>1. m \in Messages /\ stream' = stream \o FrameOf(m)
    BY <1>5, SaysFits
  <2>2. /\ ~ Ended(stream) /\ pc # "lost" /\ unheard' = Append(unheard, m)
        /\ UNCHANGED <<buffer, pc, cut>>
    BY <1>5 DEF Send, Over
  <2>3. stream \in Streams /\ unheard \in Seq(Messages)
    BY MessagesToo DEF SocketInv
  <2>4. SUFFICES ASSUME ~ cut PROVE Owed'
    BY <2>2 DEF MessageInv
  <2>5. CASE pc = "body"
    <3>1. LengthRead(buffer, stream, unheard)
      BY <2>2, <2>4, <2>5, EndIsEnded DEF MessageInv, Owed
    <3>2. LengthRead(buffer, stream', unheard')
      BY <2>1, <2>2, <2>3, <3>1, LengthReadMore, Zenon
    <3>3. QED
      BY <2>2, <2>5, <3>2 DEF Owed
  <2>6. CASE pc # "body"
    <3>1. Whole(stream, unheard)
      BY <2>2, <2>4, <2>6 DEF MessageInv, Owed
    <3>2. Whole(stream', unheard')
      BY <2>1, <2>2, <2>3, <3>1, WholeMore, Zenon
    <3>3. QED
      BY <2>2, <2>6, <3>2 DEF Owed
  <2>7. QED
    BY <2>5, <2>6
<1>6. CASE ServerEnds
  <2>1. /\ ~ Ended(stream) /\ pc # "lost" /\ stream' = Append(stream, END)
        /\ UNCHANGED <<unheard, buffer, pc, cut>>
    BY <1>6 DEF ServerEnds, ghosts, Over
  <2>2. stream \in Streams /\ unheard \in Seq(Messages)
    BY MessagesToo DEF SocketInv
  <2>3. /\ Whole(stream, unheard) => Whole(stream', unheard)
        /\ LengthRead(buffer, stream, unheard) => LengthRead(buffer, stream', unheard)
    BY <2>1, <2>2, OwedEnd, Zenon
  <2>4. stream # <<END>>
    BY <2>1, EndIsEnded, Zenon
  <2>5. QED
    BY <2>1, <2>3, <2>4 DEF MessageInv, Owed
<1>7. CASE ReadLine
  BY <1>7 DEF ReadLine, socket, ghosts, MessageInv, Owed
<1>8. CASE ReadLength
  BY <1>8, ReadLengthOwed
<1>9. CASE Handle
  <2>1. pc' = "select" /\ (~ cut' => Whole(stream', unheard'))
    BY <1>9, HandleIs DEF Handle
  <2>2. QED
    BY <2>1 DEF MessageInv, Owed
<1>10. CASE Lose
  <2>1. pc' = "lost" /\ UNCHANGED <<stream, unheard, cut>>
    BY <1>10 DEF Lose, socket, ghosts
  <2>2. ~ cut => stream = <<END>> /\ unheard = <<>>
    BY <1>10, LoseIs
  <2>3. QED
    BY <2>1, <2>2 DEF MessageInv, Owed
<1>11. QED
  BY <1>2, <1>3, <1>4, <1>5, <1>6, <1>7, <1>8, <1>9, <1>10 DEF Next, App

ClientInv == TerminalInv /\ SocketInv /\ MessageInv

LEMMA ClientInvHolds == Spec => []ClientInv
<1>1. Init => ClientInv
  <2>1. Whole(<<>>, <<>>)
    BY EmptyStream, CarriesNothing, Zenon DEF Whole
  <2>2. Init => MessageInv
    BY <2>1 DEF Init, MessageInv, Owed
  <2>3. QED
    BY <2>2, InitInv DEF ClientInv
<1>2. ClientInv /\ [Next]_vars => ClientInv'
  BY SocketNext, MessageNext DEF ClientInv
<1>3. QED
  BY <1>1, <1>2, PTL DEF Spec

(* Lines typed in between go through the same buffer, and any number of    *)
(* messages may lie one after the other: the client handles each message   *)
(* of the server in turn, field by field, unless a recv was short.         *)
THEOREM ServerHeard == Spec => HeardAsSent
<1>1. ASSUME ClientInv, [Next]_vars
      PROVE  pc = "body" /\ pc' = "select" /\ ~cut' =>
               unheard # <<>> /\ ReadReply(buffer') = Told(Head(unheard))
  <2>1. SUFFICES ASSUME pc = "body", pc' = "select", ~ cut'
                 PROVE  unheard # <<>> /\ ReadReply(buffer') = Told(Head(unheard))
    OBVIOUS
  <2>2. Handle
    BY <1>1, <2>1 DEF Next, App, EndInput, Type, Send, ServerEnds, Arrive, ReadLine, ReadLength,
                      Lose, vars
  <2>3. QED
    BY <1>1, <2>1, <2>2, HandleIs DEF ClientInv
<1>2. QED
  BY <1>1, ClientInvHolds, PTL DEF Spec, HeardAsSent

(* The client reports the server as gone only when it is, with everything  *)
(* it had sent handled before, unless a recv was short.                    *)
THEOREM NothingLostAtEnd == Spec => LostOnlyAtEnd
<1>1. ASSUME ClientInv, [Next]_vars
      PROVE  pc' = "lost" /\ pc # "lost" /\ ~cut => stream = <<END>> /\ unheard = <<>>
  <2>1. SUFFICES ASSUME pc' = "lost", pc # "lost", ~ cut
                 PROVE  stream = <<END>> /\ unheard = <<>>
    OBVIOUS
  <2>2. Lose
    BY <1>1, <2>1 DEF Next, App, EndInput, Type, Send, ServerEnds, Arrive, ReadLine, ReadLength,
                      Handle, vars
  <2>3. QED
    BY <1>1, <2>1, <2>2, LoseIs DEF ClientInv
<1>2. QED
  BY <1>1, ClientInvHolds, PTL DEF Spec, LostOnlyAtEnd

(***************************************************************************)
(* The lines of the user.                                                  *)
(***************************************************************************)

(* A sequence and what comes behind some place in it.                      *)
LEMMA CutInTwo ==
  ASSUME NEW S, NEW s \in Seq(S), NEW k \in Nat, k <= Len(s)
  PROVE  /\ s = SubSeq(s, 1, k) \o SubSeq(s, k + 1, Len(s))
         /\ SubSeq(s, 1, k) \in Seq(S) /\ Len(SubSeq(s, 1, k)) = k
         /\ \A j \in 1 .. k : SubSeq(s, 1, k)[j] = s[j]
<1> DEFINE t == SubSeq(s, 1, k)
           u == SubSeq(s, k + 1, Len(s))
<1>1. t \in Seq(S) /\ Len(t) = k /\ \A j \in 1 .. k : t[j] = s[j]
  OBVIOUS
<1>2. u \in Seq(S) /\ Len(u) = Len(s) - k /\ LiesAt(s, k, u)
  BY SubSeqRest
<1> HIDE DEF t, u
<1>3. t \o u \in Seq(S) /\ Len(t \o u) = Len(s)
  BY <1>1, <1>2
<1>4. ASSUME NEW j \in 1 .. Len(s) PROVE (t \o u)[j] = s[j]
  <2>1. CASE j <= k
    BY <1>1, <1>2, <2>1
  <2>2. CASE ~ (j <= k)
    <3>1. j - k \in 1 .. Len(u) /\ k + (j - k) = j
      BY <1>2, <2>2
    <3>2. s[k + (j - k)] = u[j - k]
      BY <1>2, <3>1 DEF LiesAt
    <3>3. QED
      BY <1>1, <1>2, <2>2, <3>1, <3>2
  <2>3. QED
    BY <2>1, <2>2
<1>5. PICK v : v = t \o u
  OBVIOUS
<1>6. v \in Seq(S) /\ Len(v) = Len(s) /\ \A j \in 1 .. Len(s) : v[j] = s[j]
  BY <1>3, <1>4, <1>5, Zenon
<1>7. s = v
  BY <1>6
<1>8. QED
  BY <1>1, <1>5, <1>7 DEF t, u

(* What app does with the newline of what fgets returned.                  *)
LEMMA LineIs ==
  ASSUME TerminalInv, SocketInv, ReadLine, Source # <<>>
  PROVE  /\ ~ Contains(StringAt(buffer', 0), NL)
         /\ \E newline \in {<<>>, <<NL>>} : Piece = StringAt(buffer', 0) \o newline
<1> DEFINE n == Len(Piece)
           buf == Filled
           newlines == {k \in 0 .. n - 1 : buf[k] = NL}
<1>1. pc = "select" /\ Selected = "keyboard"
  BY DEF ReadLine
<1>2. /\ Source \in Seq(Char) /\ Piece \in Seq(Char) /\ n \in Nat /\ n <= Len(Source)
      /\ n <= BUF_SIZE - 2 /\ \A k \in 1 .. n : Piece[k] = Source[k]
      /\ \A k \in 1 .. n - 1 : Source[k] # NL
  <2>1. /\ Source \in Seq(Char) /\ Piece \in Seq(Char) /\ n \in Nat /\ n <= Len(Source)
        /\ n <= BUF_SIZE - 2 /\ Piece = SubSeq(Source, 1, n)
        /\ \A k \in 1 .. n - 1 : Source[k] # NL
    BY <1>1, PieceIs, Zenon
  <2>2. \A k \in 1 .. n : SubSeq(Source, 1, n)[k] = Source[k]
    <3> HIDE DEF n
    <3>1. QED
      BY <2>1
  <2>3. QED
    BY <2>1, <2>2, Zenon
<1>3. \A k \in 1 .. n - 1 : Piece[k] # NL
  <2> HIDE DEF n
  <2>1. QED
    BY <1>2
<1>4. buf \in Buffers /\ BUF_SIZE \in Nat
  BY <1>1, FilledIs, BufferSize
<1>5. /\ \A j \in 1 .. n : buf[j - 1] = Piece[j]
      /\ buf[n] = 0
  <2>1. \A j \in 1 .. n + 1 : buf[j - 1] = Strcpy(Piece)[j]
    BY <1>1, FilledIs, Zenon
  <2>2. Strcpy(Piece)[n + 1] = 0 /\ \A j \in 1 .. n : Strcpy(Piece)[j] = Piece[j]
    BY <1>2, StrcpyIs, Zenon
  <2> HIDE DEF n, buf
  <2>3. n + 1 \in 1 .. n + 1 /\ (n + 1) - 1 = n /\ \A j \in 1 .. n : j \in 1 .. n + 1
    BY <1>2
  <2>4. buf[(n + 1) - 1] = Strcpy(Piece)[n + 1]
    BY <2>1, <2>3, Zenon
  <2>5. \A j \in 1 .. n : buf[j - 1] = Strcpy(Piece)[j]
    BY <2>1, <2>3, Zenon
  <2>6. QED
    BY <2>2, <2>3, <2>4, <2>5
<1>6. \A b : (\A j \in 1 .. n : b[j - 1] = Piece[j]) /\ b[n] = 0 => StringAt(b, 0) = Piece
  <2> HIDE DEF n
  <2>1. ASSUME NEW b, \A j \in 1 .. n : b[j - 1] = Piece[j], b[n] = 0
        PROVE  StringAt(b, 0) = Piece
    <3>1. 0 + n < BUF_SIZE /\ 0 \in Nat /\ 0 + n = n /\ \A j \in 1 .. n : 0 + j - 1 = j - 1
      BY <1>2, <1>4
    <3>2. /\ \A j \in 1 .. Len(Piece) : b[0 + j - 1] = Piece[j]
          /\ b[0 + Len(Piece)] = 0 /\ 0 + Len(Piece) < BUF_SIZE
      BY <2>1, <3>1, Zenon DEF n
    <3>3. QED
      BY <1>2, <3>1, <3>2, StringIs, Zenon
  <2>2. QED
    BY <2>1
<1>7. StringAt(buf, 0) = Piece
  BY <1>5, <1>6, Zenon
<1>8. buffer' = [buf EXCEPT ![IF newlines = {} THEN BUF_SIZE - 1 ELSE Min(newlines)] = 0]
  <2>1. newlines = {k \in 0 .. Strlen(StringAt(buf, 0)) - 1 : buf[k] = NL}
    BY <1>7, Zenon DEF Strlen
  <2>2. buffer' = Stripped(buf)
    BY Zenon DEF ReadLine
  <2> HIDE DEF newlines, buf
  <2>3. QED
    BY <2>1, <2>2, Zenon DEF Stripped
<1> HIDE DEF n, buf
<1>9. CASE n # 0 /\ Piece[n] = NL
  <2> DEFINE line == SubSeq(Piece, 1, n - 1)
  <2>1. newlines = {n - 1}
    <3>1. ASSUME NEW k \in 0 .. n - 1 PROVE buf[k] = NL <=> k = n - 1
      <4>1. k + 1 \in 1 .. n /\ (k + 1) - 1 = k
        BY <1>2
      <4>2. buf[k] = Piece[k + 1]
        BY <1>5, <4>1, Zenon
      <4>3. k # n - 1 => k + 1 \in 1 .. n - 1
        BY <1>2, <4>1
      <4>4. k = n - 1 => k + 1 = n
        BY <1>2
      <4>5. QED
        BY <1>3, <1>9, <4>2, <4>3, <4>4
    <3>2. n - 1 \in 0 .. n - 1
      BY <1>2, <1>9
    <3>3. QED
      BY <3>1, <3>2
  <2>2. Min(newlines) = n - 1
    <3> HIDE DEF newlines
    <3>1. newlines \in SUBSET Nat /\ newlines # {}
      BY <1>2, <1>9, <2>1
    <3>2. Min(newlines) \in newlines
      BY <3>1, MinOfNaturals, Zenon
    <3>3. QED
      BY <2>1, <3>2
  <2>3. buffer' = [buf EXCEPT ![n - 1] = 0]
    BY <1>8, <2>1, <2>2
  <2>4. n - 1 \in 0 .. BUF_SIZE - 1 /\ n - 1 \in Nat
    BY <1>2, <1>4, <1>9
  <2>5. buffer'[n - 1] = 0 /\ \A k \in 0 .. n - 2 : buffer'[k] = buf[k]
    BY <1>2, <1>4, <2>3, <2>4 DEF Buffers
  <2>6. line \in Seq(Char) /\ Len(line) = n - 1 /\ \A j \in 1 .. n - 1 : line[j] = Piece[j]
    <3>1. Piece \in Seq(Char) /\ n - 1 <= Len(Piece)
      BY <1>2 DEF n
    <3>2. QED
      BY <2>4, <3>1, CutInTwo
  <2> HIDE DEF line
  <2>7. StringAt(buffer', 0) = line
    <3>1. \A j \in 1 .. n - 1 : 0 + j - 1 \in 0 .. n - 2 /\ 0 + j - 1 = j - 1 /\ j \in 1 .. n
      BY <1>2
    <3>2. \A j \in 1 .. n - 1 : buffer'[0 + j - 1] = line[j]
      BY <1>5, <2>5, <2>6, <3>1
    <3>3. 0 \in Nat /\ 0 + (n - 1) < BUF_SIZE /\ 0 + (n - 1) = n - 1
      BY <1>2, <1>4, <2>4
    <3>4. /\ \A j \in 1 .. Len(line) : buffer'[0 + j - 1] = line[j]
          /\ buffer'[0 + Len(line)] = 0 /\ 0 + Len(line) < BUF_SIZE
      BY <2>5, <2>6, <3>2, <3>3, Zenon
    <3>5. QED
      BY <2>6, <3>3, <3>4, StringIs, Zenon
  <2>8. ~ Contains(line, NL)
    BY <1>3, <2>6 DEF Contains
  <2>9. Piece = line \o <<NL>>
    <3>1. Len(line \o <<NL>>) = n /\ line \o <<NL>> \in Seq(Char \cup {NL})
      BY <1>2, <2>4, <2>6
    <3>2. ASSUME NEW k \in 1 .. n PROVE (line \o <<NL>>)[k] = Piece[k]
      <4>1. CASE k = n
        BY <1>2, <1>9, <2>6, <4>1
      <4>2. CASE k # n
        BY <1>2, <2>6, <4>2
      <4>3. QED
        BY <4>1, <4>2
    <3>3. Len(Piece) = n /\ Piece \in Seq(Char \cup {NL})
      BY <1>2 DEF n
    <3>4. QED
      BY <3>1, <3>2, <3>3
  <2>10. QED
    BY <2>7, <2>8, <2>9
<1>10. CASE ~ (n # 0 /\ Piece[n] = NL)
  <2>1. ASSUME NEW k \in 1 .. n PROVE Piece[k] # NL
    <3>1. k = n \/ k \in 1 .. n - 1
      BY <1>2
    <3>2. n # 0
      BY <1>2
    <3>3. QED
      BY <1>3, <1>10, <3>1, <3>2
  <2>2. newlines = {}
    <3>1. ASSUME NEW k \in 0 .. n - 1 PROVE buf[k] # NL
      <4>1. k + 1 \in 1 .. n /\ (k + 1) - 1 = k
        BY <1>2
      <4>2. buf[k] = Piece[k + 1]
        BY <1>5, <4>1, Zenon
      <4>3. QED
        BY <2>1, <4>1, <4>2
    <3>2. QED
      BY <3>1
  <2>3. buffer' = [buf EXCEPT ![BUF_SIZE - 1] = 0]
    BY <1>8, <2>2
  <2>4. \A k \in 0 .. n : buffer'[k] = buf[k]
    BY <1>2, <1>4, <2>3 DEF Buffers
  <2>5. /\ \A j \in 1 .. n : buffer'[j - 1] = Piece[j]
        /\ buffer'[n] = 0
    <3>1. n \in 0 .. n /\ \A j \in 1 .. n : j - 1 \in 0 .. n
      BY <1>2
    <3>2. QED
      BY <1>5, <2>4, <3>1
  <2>6. StringAt(buffer', 0) = Piece
    BY <1>6, <2>5, Zenon
  <2>7. ~ Contains(Piece, NL)
    BY <2>1 DEF Contains, n
  <2>8. Piece = Piece \o <<>>
    BY <1>2
  <2>9. QED
    BY <2>6, <2>7, <2>8
<1>11. QED
  BY <1>9, <1>10

(* What is typed and not yet read, when a piece of it is.                  *)
LEMMA UnreadIs ==
  ASSUME TerminalInv, ReadLine, Source # <<>>, ~ eof
  PROVE  Unread = Piece \o Unread' /\ Unread' \in Seq(Char) /\ Piece \in Seq(Char)
<1>1. pc = "select" /\ Selected = "keyboard" /\ tty # <<>>
  BY DEF ReadLine, Selected, Readable
<1>2. tty \in Seq(Seq(Char)) /\ stdio \in Seq(Char)
  BY DEF TerminalInv
<1>3. PICK later : later = FlattenSeq(tty')
  OBVIOUS
<1>4. tty' \in Seq(Seq(Char)) /\ later \in Seq(Char)
  <2>1. Tail(tty) \in Seq(Seq(Char))
    BY <1>1, <1>2
  <2>2. tty' \in Seq(Seq(Char))
    BY <1>2, <2>1 DEF ReadLine
  <2>3. <<>> \in Seq(Char)
    OBVIOUS
  <2>4. QED
    BY <1>3, <2>2, <2>3, JoinAppend, Zenon
<1>5. Unread = Source \o later
  <2>1. CASE stdio # <<>>
    BY <1>3, <2>1 DEF ReadLine, Source, Unread
  <2>2. CASE stdio = <<>>
    <3>1. Source = Head(tty) /\ tty' = Tail(tty)
      BY <2>2 DEF ReadLine, Source
    <3>2. FlattenSeq(tty) = Head(tty) \o FlattenSeq(Tail(tty))
      BY <1>1, <1>2, JoinHead
    <3>3. FlattenSeq(tty) = Source \o later
      BY <1>3, <3>1, <3>2
    <3>4. PICK all : all = Source \o later
      OBVIOUS
    <3>5. Source \in Seq(Char)
      BY <1>1, PieceIs
    <3>6. all \in Seq(Char)
      BY <1>4, <3>4, <3>5
    <3>7. <<>> \o all = all
      BY <3>6
    <3>8. QED
      BY <2>2, <3>3, <3>4, <3>7 DEF Unread
  <2>3. QED
    BY <2>1, <2>2
<1>6. /\ Source \in Seq(Char) /\ Len(Piece) \in Nat /\ Len(Piece) <= Len(Source)
      /\ Piece = SubSeq(Source, 1, Len(Piece)) /\ Piece \in Seq(Char)
  BY <1>1, PieceIs, Zenon
<1>7. PICK rest : rest = SubSeq(Source, Len(Piece) + 1, Len(Source))
  OBVIOUS
<1>8. stdio' = rest
  BY <1>7 DEF ReadLine, Rest
<1>9. rest \in Seq(Char)
  BY <1>6, <1>7
<1>10. Source = Piece \o rest
  <2>1. PICK k : k = Len(Piece)
    OBVIOUS
  <2>2. Source = SubSeq(Source, 1, k) \o SubSeq(Source, k + 1, Len(Source))
    BY <1>6, <2>1, CutInTwo, Zenon
  <2>3. QED
    BY <1>6, <1>7, <2>1, <2>2, Zenon
<1>11. Unread' = rest \o later
  BY <1>3, <1>8 DEF Unread
<1>12. (Piece \o rest) \o later = Piece \o (rest \o later)
  <2>1. PICK piece : piece = Piece
    OBVIOUS
  <2>2. piece \in Seq(Char)
    BY <1>6, <2>1
  <2>3. Regroups(piece, rest, later)
    BY <1>4, <1>9, <2>2, JoinAssociative
  <2>4. QED
    BY <2>1, <2>3 DEF Regroups
<1>13. rest \o later \in Seq(Char)
  BY <1>4, <1>9
<1>14. QED
  BY <1>5, <1>6, <1>10, <1>11, <1>12, <1>13

(* What the user typed reaches handle_user_input in its order, line by     *)
(* line or in pieces of long lines, and only newlines are dropped, until   *)
(* the input has ended; whatever came through the buffer in between.       *)
THEOREM TypedIsRead == Spec => LinesAsTyped
<1> DEFINE Read == /\ ~Contains(StringAt(buffer', 0), NL)
                   /\ \E newline \in {<<>>, <<NL>>} :
                        Unread = StringAt(buffer', 0) \o newline \o Unread'
<1>1. ASSUME ClientInv, [Next]_vars
      PROVE  Len(Unread') < Len(Unread) /\ ~eof' => Read
  <2> SUFFICES ASSUME Len(Unread') < Len(Unread), ~ eof' PROVE Read
    OBVIOUS
  <2>1. Unread \in Seq(Char)
    <3>1. tty \in Seq(Seq(Char)) /\ stdio \in Seq(Char) /\ <<>> \in Seq(Char)
      BY <1>1 DEF ClientInv, TerminalInv
    <3>2. PICK later : later = FlattenSeq(tty)
      OBVIOUS
    <3>3. later \in Seq(Char)
      BY <3>1, <3>2, JoinAppend, Zenon
    <3>4. QED
      BY <3>1, <3>2, <3>3 DEF Unread
  <2>2. CASE UNCHANGED keyboard
    BY <2>1, <2>2 DEF keyboard, Unread
  <2>3. ASSUME NEW line \in Seq(Char), Type(line) PROVE Read
    <3>1. tty \in Seq(Seq(Char)) /\ stdio \in Seq(Char)
      BY <1>1 DEF ClientInv, TerminalInv
    <3>2. PICK later : later = FlattenSeq(tty)
      OBVIOUS
    <3>3. later \in Seq(Char) /\ FlattenSeq(Append(tty, line)) = later \o line
      BY <2>3, <3>1, <3>2, JoinAppend, Zenon
    <3>4. Unread = stdio \o later /\ Unread' = stdio \o (later \o line)
      BY <2>3, <3>2, <3>3 DEF Type, Unread
    <3>5. Len(stdio \o later) <= Len(stdio \o (later \o line))
      BY <2>3, <3>1, <3>3
    <3>6. Len(stdio \o later) \in Nat /\ Len(stdio \o (later \o line)) \in Nat
      BY <2>3, <3>1, <3>3
    <3>7. FALSE
      BY <3>4, <3>5, <3>6
    <3>8. QED
      BY <3>7
  <2>4. CASE EndInput \/ \E line \in setting.lines : Type(line)
    <3>1. <<>> \in Seq(Char) /\ setting.lines \subseteq Seq(Char)
      <4>1. <<>> \in Seq(Char)
        OBVIOUS
      <4>2. QED
        BY <1>1, <4>1, Assumed, Zenon DEF ClientInv
    <3>2. QED
      BY <2>3, <2>4, <3>1 DEF EndInput
  <2>5. CASE ReadLine
    <3>1. ~ eof /\ Source # <<>>
      BY <2>5 DEF ReadLine
    <3>2. Unread = Piece \o Unread'
      BY <1>1, <2>5, <3>1, UnreadIs DEF ClientInv
    <3>3. /\ ~ Contains(StringAt(buffer', 0), NL)
          /\ \E newline \in {<<>>, <<NL>>} : Piece = StringAt(buffer', 0) \o newline
      BY <1>1, <2>5, <3>1, LineIs, Zenon DEF ClientInv
    <3>4. QED
      BY <3>2, <3>3, Zenon
  <2>6. QED
    BY <1>1, <2>2, <2>4, <2>5 DEF Next, App, Send, ServerEnds, Arrive, ReadLength, Handle, Lose,
                                  vars
<1>2. QED
  BY <1>1, ClientInvHolds, PTL DEF Spec, LinesAsTyped
=============================================================================
