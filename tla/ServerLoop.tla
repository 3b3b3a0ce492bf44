------------------------------ MODULE ServerLoop ------------------------------
(***************************************************************************)
(* The loop of server/src/server.c with its reads: which connection is     *)
(* served, the two recv of read_client into one buffer, and the array of   *)
(* clients that shifts when one is removed.  Server.tla takes each turn of *)
(* this loop as one step and each message as a whole.  What the handlers   *)
(* do with a message is there; here it is only told which one they get.    *)
(***************************************************************************)
EXTENDS Stream

CONSTANTS Conn,        \* connections; a number is used again once closed
          Settings,    \* who may do what; a behaviour follows one of them
          MAX_CLIENTS

(* In a setting, conn are the connections there may be, says[p] the        *)
(* messages p may send, window[p] the bytes of p in flight at most, and    *)
(* slow the connections on which a recv may be short: all of them bounds.  *)
(* No message is longer than the buffer it is read into.                   *)
ASSUME LoopAssumption ==
  /\ MAX_CLIENTS \in Nat \ {0} /\ IsFiniteSet(Conn)
  /\ \A st \in Settings : /\ st.conn \cup st.slow \subseteq Conn
                         /\ \A p \in Conn : /\ st.says[p] \subseteq Requests
                                           /\ st.window[p] \in 0 .. BUF_SIZE - 1

VARIABLES setting,   \* the setting of this behaviour
          clients,   \* clients[1 .. nb_clients], which the code counts from 0
          backlog,   \* connections made and not yet accepted
          stream,    \* stream[p]: sent by p, not yet received
          arrived,   \* arrived[p]: select reports p as readable
          pc,        \* "select", "body" (between the recvs), "corrupt"
          current,   \* the index being served, 0 in between
          buffer,    \* the buffer of app
          unheard,   \* unheard[p]: messages sent and not yet handled
          cut        \* cut[p]: some recv returned less of p than it asked for
sockets == <<stream, arrived>>
ghosts  == <<setting, unheard, cut>>
vars == <<clients, backlog, sockets, pc, current, buffer, ghosts>>

Init ==
  /\ setting \in Settings
  /\ clients = <<>> /\ backlog = <<>>
  /\ stream = [p \in Conn |-> <<>>] /\ arrived = [p \in Conn |-> FALSE]
  /\ pc = "select" /\ current = 0
  /\ buffer = [k \in 0 .. BUF_SIZE - 1 |-> 0]
  /\ unheard = [p \in Conn |-> <<>>] /\ cut = [p \in Conn |-> FALSE]
-----------------------------------------------------------------------------
(***************************************************************************)
(* The clients and the network.                                            *)
(***************************************************************************)
InArray(p)   == Contains(clients, p)
Connected(p) == InArray(p) \/ Contains(backlog, p)

Connect(p) ==
  /\ p \in setting.conn /\ ~Connected(p)
  /\ backlog' = Append(backlog, p)
  /\ UNCHANGED <<clients, sockets, pc, current, buffer, ghosts>>

(* A client writes a whole frame with one send.  Bound: no more is sent    *)
(* on a connection that was cut.                                           *)
Send(p, m) ==
  /\ Connected(p) /\ ~Ended(stream[p]) /\ ~cut[p]
  /\ Len(stream[p]) + Len(RequestBytes(m)) <= setting.window[p]
  /\ stream' = [stream EXCEPT ![p] = @ \o RequestBytes(m)]
  /\ unheard' = [unheard EXCEPT ![p] = Append(@, m)]
  /\ UNCHANGED <<setting, clients, backlog, arrived, pc, current, buffer, cut>>

End(p) ==
  /\ Connected(p) /\ ~Ended(stream[p])
  /\ stream' = [stream EXCEPT ![p] = Append(@, END)]
  /\ UNCHANGED <<clients, backlog, arrived, pc, current, buffer, ghosts>>

Arrive(p) ==
  /\ stream[p] # <<>> /\ ~arrived[p]
  /\ arrived' = [arrived EXCEPT ![p] = TRUE]
  /\ UNCHANGED <<clients, backlog, stream, pc, current, buffer, ghosts>>
-----------------------------------------------------------------------------
(***************************************************************************)
(* app.                                                                    *)
(***************************************************************************)
Readable == {c \in DOMAIN clients : arrived[clients[c]]}

(* New connections come first, then the client of lowest index.            *)
Accept ==
  /\ pc = "select" /\ backlog # <<>>
  /\ Len(clients) < MAX_CLIENTS
  /\ clients' = Append(clients, Head(backlog))
  /\ backlog' = Tail(backlog)
  /\ UNCHANGED <<sockets, pc, current, buffer, ghosts>>

(* nb_clients is not compared with MAX_CLIENTS.                            *)
AcceptOutOfBounds ==
  /\ pc = "select" /\ backlog # <<>>
  /\ Len(clients) = MAX_CLIENTS
  /\ pc' = "corrupt"
  /\ UNCHANGED <<clients, backlog, sockets, current, buffer, ghosts>>

(* A recv of `asked` bytes on p returns `got`.                             *)
Takes(p, asked, got) ==
  /\ got \in Received(stream[p], asked)
  /\ p \in setting.slow \/ ~IsShort(got, asked)
  /\ stream' = [stream EXCEPT ![p] = Rest(@, got)]
  /\ \E more \in MoreArrived(stream'[p]) :
       arrived' = [arrived EXCEPT ![p] = IF got = <<>> THEN @ ELSE more]
  /\ cut' = [cut EXCEPT ![p] = @ \/ IsShort(got, asked)]

(* Mutant: the last of the readable clients is served.                     *)
ServedLast == Max(Readable)

Served == Min(Readable)

(* The first recv of read_client.  At the end of the stream it returns 0   *)
(* and leaves in the buffer the length of some earlier message.            *)
ReadLength ==
  /\ pc = "select" /\ backlog = <<>> /\ Readable # {}
  /\ current' = Served
  /\ LET p == clients[Served]
     IN  \E got \in Received(stream[p], LengthBytes) :
           /\ Takes(p, LengthBytes, got)
           /\ buffer' = Put(buffer, got)
           /\ unheard' = IF cut'[p] THEN [unheard EXCEPT ![p] = <<>>] ELSE unheard
  /\ pc' = "body"
  /\ UNCHANGED <<setting, clients, backlog>>

(* Mutant: the last client takes the place of the one that is removed.     *)
WithoutSwapping(c) ==
  IF c = Len(clients) THEN Front(clients)
  ELSE [Front(clients) EXCEPT ![c] = Last(clients)]

(* Mutant: the later clients are moved but nb_clients is not decremented.  *)
WithoutDecrement(c) ==
  [k \in DOMAIN clients |-> IF k >= c /\ k < Len(clients) THEN clients[k + 1] ELSE clients[k]]

(* remove_client.                                                          *)
Without(c) == RemoveAt(clients, c)

(* The second recv returns bytes: they are a message and are handled.      *)
Handle ==
  LET p == clients[current]
  IN  /\ pc = "body" /\ arrived[p]
      /\ \E got \in Received(stream[p], SizeIn(buffer)) :
           /\ got # <<>>
           /\ Takes(p, SizeIn(buffer), got)
           /\ buffer' = Terminate(Put(buffer, got), Len(got))
      /\ unheard' = [unheard EXCEPT ![p] = IF cut'[p] \/ @ = <<>> THEN <<>> ELSE Tail(@)]
      /\ pc' = "select" /\ current' = 0
      /\ UNCHANGED <<setting, clients, backlog>>

(* What app then writes into the buffer: the name, which may be any p has  *)
(* asked for, and as much of the notice as fits, zeros after it.           *)
DISCONNECTED == <<32, 100, 105, 115, 99, 111, 110, 110, 101, 99, 116, 101, 100, 32, 33>>
NamesOf(p)   == {<<>>} \cup {m.text : m \in {m \in setting.says[p] : m.type = "CONNECT"}}
Notice(name) == LET text == name \o DISCONNECTED
                IN  [k \in DOMAIN buffer |->
                       IF k < Min({Len(text), BUF_SIZE - 1}) THEN text[k + 1] ELSE 0]

(* The second recv returns 0, at the end of the stream or because it was   *)
(* asked for no byte: the client is removed and its socket closed.  (Asked *)
(* for no byte, recv still waits until something is there.)                *)
RemoveClient ==
  LET p == clients[current]
  IN  /\ pc = "body" /\ arrived[p]
      /\ SizeIn(buffer) = 0 \/ Head(stream[p]) = END
      /\ \E name \in NamesOf(p) : buffer' = Notice(name)
      /\ clients' = Without(current)
      /\ stream' = [stream EXCEPT ![p] = <<>>]
      /\ arrived' = [arrived EXCEPT ![p] = FALSE]
      /\ unheard' = [unheard EXCEPT ![p] = <<>>]
      /\ cut' = [cut EXCEPT ![p] = FALSE]
      /\ pc' = "select" /\ current' = 0
      /\ UNCHANGED <<setting, backlog>>

Serve == Accept \/ AcceptOutOfBounds \/ ReadLength \/ Handle \/ RemoveClient

Next ==
  \/ \E p \in Conn : Connect(p) \/ End(p) \/ Arrive(p) \/ \E m \in setting.says[p] : Send(p, m)
  \/ Serve

(* The server runs and what was sent arrives; clients owe nothing.         *)
Spec == Init /\ [][Next]_vars /\ WF_vars(Serve) /\ \A p \in Conn : WF_vars(Arrive(p))
-----------------------------------------------------------------------------
(***************************************************************************)
(* Properties.                                                             *)
(***************************************************************************)

TypeOK ==
  /\ clients \in BoundedSeq(Conn, MAX_CLIENTS) /\ backlog \in BoundedSeq(Conn, Cardinality(Conn))
  /\ \A p \in Conn : /\ \A k \in DOMAIN stream[p] : stream[p][k] \in Bytes \cup {END}
                     /\ arrived[p] => stream[p] # <<>>
  /\ pc \in {"select", "body", "corrupt"}
  /\ pc = "body" => current \in DOMAIN clients
  /\ DOMAIN buffer = 0 .. BUF_SIZE - 1 /\ \A k \in DOMAIN buffer : buffer[k] \in Bytes

(* The connection a step of the loop serves, and the one it removes.       *)
Handled(p) == pc = "body" /\ pc' = "select" /\ clients[current] = p /\ Len(clients') = Len(clients)
Removed(p) == InArray(p) /\ ~Contains(clients', p)

(* Messages from many clients go through one buffer in two reads each, and *)
(* several may lie in a stream one after the other: every message handled  *)
(* is the next one its client sent, field by field, as long as no recv on  *)
(* that connection returned less than it was asked for.                    *)
HandledAsSent ==
  [][\A p \in Conn : Handled(p) /\ ~cut'[p] =>
       unheard[p] # <<>> /\ ReadRequest(buffer') = Head(unheard[p])]_vars

(* Under the same condition a client is removed only when its process is   *)
(* gone and everything it had sent was handled.                            *)
RemovedWhenDone ==
  [][\A p \in Conn : Removed(p) /\ ~cut[p] => stream[p] = <<END>> /\ unheard[p] = <<>>]_vars

(* Whoever comes before somebody else in the array stays before, whatever  *)
(* clients are removed or come: an index only gets lower, so that whom the *)
(* loop prefers never changes while two clients stay.                      *)
Before(cs, p, q) == \E c, d \in DOMAIN cs : c < d /\ cs[c] = p /\ cs[d] = q
NobodyOvertakes ==
  [][\A p, q \in Conn : Before(clients, p, q) => ~Before(clients', q, p)]_vars

(* Each connection is in the array or in the backlog at most once, so that *)
(* nb_clients, which nothing compares with MAX_CLIENTS, exceeds it only    *)
(* when more clients than that are connected at once, never by counting    *)
(* somebody who left or came back.                                         *)
NoneTwice ==
  /\ IsInjective(clients \o backlog)
  /\ pc = "corrupt" => Cardinality(setting.conn) > MAX_CLIENTS

(* read_client blocks in its second recv, and everybody waits with it: it  *)
(* comes back as long as the length was not cut short.  (If it was, what   *)
(* is left of the message may be taken for another length, of a body that  *)
(* never comes.)                                                           *)
Serving(p)  == pc = "body" /\ clients[current] = p
ReadReturns == \A p \in Conn : Serving(p) /\ ~cut[p] ~> ~Serving(p)

(* The only things that keep a readable client waiting: again and again    *)
(* somebody comes first, a new connection or a client of lower index; or   *)
(* the server is still in the body of a message that was cut.              *)
HeldUp(p) ==
  \/ pc = "corrupt" \/ backlog # <<>>
  \/ \E q \in Conn : (Before(clients, q, p) /\ arrived[q]) \/ (Serving(q) /\ cut[q])

Reads(p) == pc = "select" /\ pc' = "body" /\ clients[current'] = p
ServedUnlessHeldUp ==
  \A p \in Conn : <>[](InArray(p) /\ arrived[p] /\ ~HeldUp(p)) => []<><<Reads(p)>>_vars
=============================================================================
