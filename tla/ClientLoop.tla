------------------------------ MODULE ClientLoop ------------------------------
(***************************************************************************)
(* The loop of client/src/app.c: the lines typed at the terminal and the   *)
(* messages of the server go through one buffer, and the terminal comes    *)
(* first.  What a line or a message does to the state of the client is in  *)
(* Client.tla; of handle_user_input only /close matters here.              *)
(***************************************************************************)
EXTENDS Stream

CONSTANTS Settings,     \* what may happen; a behaviour follows one of them
          MaxWaiting,   \* lines typed and not yet read, at most (a bound)
          MaxUnheard,   \* messages of the server in flight at most (a bound)
          Window        \* their bytes at most (a bound)

NL    == 10
CLOSE == <<47, 99, 108, 111, 115, 101>>     \* "/close"

(* In a setting, lines are what the user may type, each with its newline;  *)
(* ends tells whether the input may end (Ctrl-D); says are the messages    *)
(* of the server, and slow tells whether a recv may be short.  No message  *)
(* is longer than the buffer it is read into.                              *)
ASSUME ClientLoopAssumption ==
  /\ BUF_SIZE > Len(CLOSE) + 2 /\ Window \in 0 .. BUF_SIZE - 1 /\ MaxWaiting \in Nat
  /\ \A st \in Settings : /\ st.says \subseteq Replies /\ st.lines \subseteq Seq(Char)
                         /\ \A l \in st.lines : l # <<>> /\ l[Len(l)] = NL

VARIABLES setting,   \* the setting of this behaviour
          tty,       \* what each read of the terminal will return; <<>> is the end
          stdio,     \* what the C library has read and fgets not yet returned
          eof,       \* the library has seen the end of the input
          stream, arrived,   \* from the server
          pc,        \* "select", "body", "closed" by the user, "lost" by the server
          buffer,    \* the buffer of app
          unheard,   \* messages sent and not yet handled
          cut        \* some recv returned less than it was asked for
keyboard == <<tty, stdio, eof>>
socket   == <<stream, arrived>>
ghosts   == <<setting, unheard, cut>>
vars     == <<keyboard, socket, pc, buffer, ghosts>>

Init ==
  /\ setting \in Settings
  /\ tty = <<>> /\ stdio = <<>> /\ eof = FALSE
  /\ stream = <<>> /\ arrived = FALSE
  /\ pc = "select" /\ buffer = [k \in 0 .. BUF_SIZE - 1 |-> 0]
  /\ unheard = <<>> /\ cut = FALSE

Over == pc \in {"closed", "lost"}
-----------------------------------------------------------------------------
(***************************************************************************)
(* The user, the server and the network.                                   *)
(***************************************************************************)
Type(line) ==
  /\ ~Over /\ Len(tty) < MaxWaiting
  /\ tty' = Append(tty, line)
  /\ UNCHANGED <<stdio, eof, socket, pc, buffer, ghosts>>

EndInput == setting.ends /\ Type(<<>>)

(* The server writes a whole frame with one send.  Bound: no more is sent  *)
(* on a connection that was cut.                                           *)
Send(m) ==
  /\ ~Over /\ ~Ended(stream) /\ ~cut /\ Len(unheard) < MaxUnheard
  /\ Len(stream) + Len(ReplyBytes(m)) <= Window
  /\ stream' = stream \o ReplyBytes(m)
  /\ unheard' = Append(unheard, m)
  /\ UNCHANGED <<setting, keyboard, arrived, pc, buffer, cut>>

ServerEnds ==
  /\ ~Over /\ ~Ended(stream)
  /\ stream' = Append(stream, END)
  /\ UNCHANGED <<keyboard, arrived, pc, buffer, ghosts>>

Arrive ==
  /\ stream # <<>> /\ ~arrived
  /\ arrived' = TRUE
  /\ UNCHANGED <<keyboard, stream, pc, buffer, ghosts>>
-----------------------------------------------------------------------------
(***************************************************************************)
(* app.                                                                    *)
(***************************************************************************)

(* select does not know of what the library holds.                         *)
Readable == tty # <<>>

(* Mutants: the server comes first; the socket is not among those select   *)
(* is asked about (its first argument is one too low).                     *)
ServerFirst     == IF arrived THEN "server" ELSE IF Readable THEN "keyboard" ELSE "none"
ServerUnwatched == IF Readable THEN "keyboard" ELSE "none"

Selected == IF Readable THEN "keyboard" ELSE IF arrived THEN "server" ELSE "none"

(* fgets(buffer, BUF_SIZE - 1, stdin): at most BUF_SIZE - 2 characters, up *)
(* to a newline, from the library's buffer and, only when that is empty,   *)
(* from the terminal, a line at a time.  Once the end was seen nothing is  *)
(* read any more, and the buffer stays as it is.                           *)
Source == IF stdio # <<>> THEN stdio ELSE IF eof THEN <<>> ELSE Head(tty)
Piece  == SubSeq(Source, 1, Min({BUF_SIZE - 2, Len(Source)} \cup
                                {k \in DOMAIN Source : Source[k] = NL}))
Filled == IF Source = <<>> THEN buffer ELSE Put(buffer, Strcpy(Piece))

(* Mutant: the newline stays.                                              *)
StrippedNot(buf) == [buf EXCEPT ![BUF_SIZE - 1] = 0]

(* The newline is replaced by the end of the string; without a newline the *)
(* last byte is.                                                           *)
Stripped(buf) ==
  LET newlines == {k \in 0 .. Strlen(StringAt(buf, 0)) - 1 : buf[k] = NL}
  IN  [buf EXCEPT ![IF newlines = {} THEN BUF_SIZE - 1 ELSE Min(newlines)] = 0]

ReadLine ==
  /\ pc = "select" /\ Selected = "keyboard"
  /\ \E filled \in {Filled} : buffer' = Stripped(filled)
  /\ stdio' = Rest(Source, Piece)
  /\ tty' = IF stdio # <<>> \/ eof THEN tty ELSE Tail(tty)
  /\ eof' = (eof \/ Source = <<>>)
  /\ pc' = IF StringAt(buffer', 0) = CLOSE THEN "closed" ELSE "select"
  /\ UNCHANGED <<socket, ghosts>>

(* read_server: a recv of `asked` bytes returns `got`.                     *)
Takes(asked, got) ==
  /\ got \in Received(stream, asked)
  /\ setting.slow \/ ~IsShort(got, asked)
  /\ stream' = Rest(stream, got)
  /\ \E more \in MoreArrived(stream') : arrived' = IF got = <<>> THEN arrived ELSE more
  /\ buffer' = Terminate(Put(buffer, got), Len(got))
  /\ cut' = (cut \/ IsShort(got, asked))

(* The first read_server.  It returns 0 only at the end of the stream, and *)
(* then so does the second.                                                *)
ReadLength ==
  /\ pc = "select" /\ Selected = "server"
  /\ \E got \in Received(stream, LengthBytes) : Takes(LengthBytes, got)
  /\ unheard' = IF cut' THEN <<>> ELSE unheard
  /\ pc' = "body"
  /\ UNCHANGED <<setting, keyboard>>

(* The second read_server and server_client_protocol_read.                 *)
Handle ==
  /\ pc = "body" /\ arrived
  /\ \E got \in Received(stream, SizeIn(buffer)) :
       got # <<>> /\ Takes(SizeIn(buffer), got)
  /\ unheard' = IF cut' \/ unheard = <<>> THEN <<>> ELSE Tail(unheard)
  /\ pc' = "select"
  /\ UNCHANGED <<setting, keyboard>>

(* The second read_server returns 0: the loop ends.                        *)
Lose ==
  /\ pc = "body" /\ arrived
  /\ SizeIn(buffer) = 0 \/ Head(stream) = END
  /\ buffer' = Terminate(buffer, 0)
  /\ pc' = "lost"
  /\ UNCHANGED <<keyboard, socket, ghosts>>

App == ReadLine \/ ReadLength \/ Handle \/ Lose

Next ==
  \/ EndInput \/ \E line \in setting.lines : Type(line)
  \/ ServerEnds \/ Arrive \/ \E m \in setting.says : Send(m)
  \/ App

(* The client runs and what was sent arrives; nothing else is owed.        *)
Spec == Init /\ [][Next]_vars /\ WF_vars(App) /\ WF_vars(Arrive)
-----------------------------------------------------------------------------
(***************************************************************************)
(* Properties.                                                             *)
(***************************************************************************)

TypeOK ==
  /\ \A k \in DOMAIN stream : stream[k] \in Bytes \cup {END}
  /\ arrived => stream # <<>>
  /\ Len(tty) <= MaxWaiting /\ eof \in BOOLEAN
  /\ pc \in {"select", "body", "closed", "lost"}
  /\ DOMAIN buffer = 0 .. BUF_SIZE - 1 /\ \A k \in DOMAIN buffer : buffer[k] \in Bytes

(* The lines typed in between go through the same buffer, and several      *)
(* messages may lie in the stream one after the other: every message the   *)
(* client handles is the next one the server sent, field by field, as long *)
(* as no recv returned less than it was asked for.                         *)
HeardAsSent ==
  [][pc = "body" /\ pc' = "select" /\ ~cut' =>
       unheard # <<>> /\ ReadReply(buffer') = Told(Head(unheard))]_vars

(* Under the same condition the client says that the server disconnected   *)
(* only when it has, and when everything it had sent was handled.          *)
LostOnlyAtEnd ==
  [][pc' = "lost" /\ pc # "lost" /\ ~cut => stream = <<END>> /\ unheard = <<>>]_vars

(* Lines of any length, read in pieces and through a buffer that held      *)
(* other things: what handle_user_input gets is exactly what comes next of *)
(* what was typed, and nothing is dropped but newlines; until the input    *)
(* ends, after which the old contents of the buffer are handled again.     *)
Unread  == stdio \o FlattenSeq(tty)
LinesAsTyped ==
  [][Len(Unread') < Len(Unread) /\ ~eof' =>
       /\ ~Contains(StringAt(buffer', 0), NL)
       /\ \E newline \in {<<>>, <<NL>>} :
            Unread = StringAt(buffer', 0) \o newline \o Unread']_vars

(* Whatever the server sends and whatever lines come before, a /close is   *)
(* read and the client ends; unless the input has ended before, or the     *)
(* client is still in the body of a message that was cut.                  *)
CloseHeeded == Contains(tty, Append(CLOSE, NL)) ~> Over \/ eof \/ cut

(* What main says: "You can quit at any moment by typing /close", after an *)
(* end of the input as well.                                               *)
QuitAtAnyMoment == Contains(tty, Append(CLOSE, NL)) ~> Over \/ cut

(* Nothing but a terminal with something to read, again and again, keeps   *)
(* the client from the messages of the server (and a message cut short).   *)
(* After the end of the input any line more is enough, for good.           *)
HeardUnlessTyping ==
  <>[](arrived /\ ~Readable /\ ~cut /\ ~Over) => []<><<pc' = "body">>_vars
=============================================================================
