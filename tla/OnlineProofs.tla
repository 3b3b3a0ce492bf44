----------------------------- MODULE OnlineProofs -----------------------------
(***************************************************************************)
(* Proofs about the arrays of the server, for any number of processes,     *)
(* clients and rooms: two clients never share a name or a socket, whatever *)
(* the users type. Then the vocabulary of TalkProofs: what the messages in *)
(* flight to a client will make of it, what each handler writes to whom,   *)
(* and what the rooms say of every client.                                 *)
(***************************************************************************)
EXTENDS Online, BasicLemmas, FiniteSetTheorems

(***************************************************************************)
(* The clients array.                                                      *)
(***************************************************************************)
IsClient(r) == r = [sock |-> r.sock, name |-> r.name,
                    room_id |-> r.room_id, biography |-> r.biography]

ArrayInv ==
  /\ nb_clients \in 0 .. MAX_CLIENTS
  /\ clients = [c \in ClientSlots |-> clients[c]]
  /\ \A c \in ClientSlots : IsClient(clients[c])

Unnamed == ""

(* What most handlers leave alone: who is in which slot.                   *)
SameClients ==
  /\ nb_clients' = nb_clients
  /\ clients' = [c \in ClientSlots |-> clients'[c]]
  /\ \A c \in ClientSlots : /\ IsClient(clients'[c])
                           /\ clients'[c].name = clients[c].name
                           /\ clients'[c].sock = clients[c].sock

LEMMA UnchangedClients ==
  ASSUME ArrayInv, UNCHANGED <<clients, nb_clients>> PROVE SameClients
BY DEF ArrayInv, SameClients

LEMMA RoomIdSet ==
  ASSUME ArrayInv, NEW c \in ClientSlots, NEW v,
         clients' = [clients EXCEPT ![c].room_id = v], nb_clients' = nb_clients
  PROVE  SameClients
<1>1. clients'[c] = [sock |-> clients[c].sock, name |-> clients[c].name,
                     room_id |-> v, biography |-> clients[c].biography]
  BY DEF ArrayInv, IsClient
<1>2. \A d \in ClientSlots : d # c => clients'[d] = clients[d]
  BY DEF ArrayInv
<1>3. clients' = [d \in ClientSlots |-> clients'[d]]
  BY DEF ArrayInv
<1>4. QED
  BY <1>1, <1>2, <1>3 DEF SameClients, ArrayInv, IsClient

LEMMA BiographySet ==
  ASSUME ArrayInv, NEW c \in ClientSlots, NEW v,
         clients' = [clients EXCEPT ![c].biography = v], nb_clients' = nb_clients
  PROVE  SameClients
<1>1. clients'[c] = [sock |-> clients[c].sock, name |-> clients[c].name,
                     room_id |-> clients[c].room_id, biography |-> v]
  BY DEF ArrayInv, IsClient
<1>2. \A d \in ClientSlots : d # c => clients'[d] = clients[d]
  BY DEF ArrayInv
<1>3. clients' = [d \in ClientSlots |-> clients'[d]]
  BY DEF ArrayInv
<1>4. QED
  BY <1>1, <1>2, <1>3 DEF SameClients, ArrayInv, IsClient

(* Slots that are served are slots of the array.                           *)
LEMMA ConnectedSlots == ArrayInv => Connected \subseteq ClientSlots
BY ServerAssumption DEF ArrayInv, Connected, ClientSlots

LEMMA SameKeepsArray == ArrayInv /\ SameClients => ArrayInv'
BY DEF ArrayInv, SameClients, ClientSlots

(***************************************************************************)
(* The four ways in which the array changes.                               *)
(***************************************************************************)

(* The new client takes the slot past the last one.                        *)
LEMMA AcceptAppends ==
  ASSUME ArrayInv, Accept
  PROVE  /\ ArrayInv' /\ nb_clients \in ClientSlots /\ nb_clients' = nb_clients + 1
         /\ clients'[nb_clients].name = Unnamed
         /\ \A d \in Connected : clients'[d] = clients[d]
<1> DEFINE csock == Min({s \in Sockets : ~Open(s)})
           new   == [sock |-> csock, name |-> "", room_id |-> 0, biography |-> ""]
<1>1. clients' = [clients EXCEPT ![nb_clients] = new] /\ nb_clients' = nb_clients + 1
  BY DEF Accept
<1>2. nb_clients \in ClientSlots /\ nb_clients' \in 0 .. MAX_CLIENTS
  <2>1. nb_clients < MAX_CLIENTS
    BY DEF Accept
  <2>2. nb_clients \in 0 .. MAX_CLIENTS /\ MAX_CLIENTS \in Nat
    BY ServerAssumption DEF ArrayInv
  <2>3. nb_clients' = nb_clients + 1
    BY <1>1
  <2>4. QED
    BY <2>1, <2>2, <2>3 DEF ClientSlots
<1>3. clients'[nb_clients] = new /\ \A d \in ClientSlots : d # nb_clients => clients'[d] = clients[d]
  BY <1>1, <1>2 DEF ArrayInv
<1>4. IsClient(new) /\ new.name = Unnamed
  BY DEF IsClient, Unnamed
<1>5. clients' = [d \in ClientSlots |-> clients'[d]]
  BY <1>1 DEF ArrayInv
<1>6. \A d \in ClientSlots : IsClient(clients'[d])
  BY <1>3, <1>4 DEF ArrayInv
<1>7. ArrayInv'
  BY <1>2, <1>5, <1>6 DEF ArrayInv, ClientSlots
<1>8. \A d \in Connected : d \in ClientSlots /\ d # nb_clients
  BY <1>2, ConnectedSlots DEF Connected, ArrayInv
<1>9. QED
  BY <1>1, <1>2, <1>3, <1>4, <1>7, <1>8

(* A client gets the name it asked for, which nobody had.                  *)
LEMMA NameGiven ==
  ASSUME ArrayInv, NEW c \in ClientSlots, AcceptConnection(c) \/ Rejoin(c)
  PROVE  /\ ArrayInv' /\ nb_clients' = nb_clients /\ fd' = fd
         /\ ~NameInUse(Message(c).name)
         /\ clients'[c].name = Message(c).name /\ clients'[c].sock = clients[c].sock
         /\ \A d \in ClientSlots : d # c => clients'[d] = clients[d]
<1> DEFINE m == Message(c).name
           Given(id) == [sock |-> clients[c].sock, name |-> m,
                         room_id |-> id, biography |-> clients[c].biography]
<1>1. nb_clients' = nb_clients /\ ~NameInUse(m) /\ fd' = fd
  BY DEF AcceptConnection, Rejoin
<1>2. \E id : clients' = [clients EXCEPT ![c] = Given(id)]
  <2>1. CASE AcceptConnection(c)
    <3>1. clients' = [clients EXCEPT ![c].name = m]
      BY <2>1 DEF AcceptConnection
    <3>2. [clients[c] EXCEPT !.name = m] = Given(clients[c].room_id)
      BY DEF ArrayInv, IsClient
    <3>3. clients' = [clients EXCEPT ![c] = Given(clients[c].room_id)]
      BY <3>1, <3>2
    <3>4. QED
      BY <3>3
  <2>2. CASE Rejoin(c)
    <3>1. PICK id : clients' = [clients EXCEPT ![c].name = m, ![c].room_id = id]
      BY <2>2 DEF Rejoin
    <3>2. [clients[c] EXCEPT !.name = m] = Given(clients[c].room_id)
      BY DEF ArrayInv, IsClient
    <3>3. [Given(clients[c].room_id) EXCEPT !.room_id = id] = Given(id)
      OBVIOUS
    <3>4. clients' = [clients EXCEPT ![c] = Given(id)]
      BY <3>1, <3>2, <3>3 DEF ArrayInv
    <3>5. QED
      BY <3>4
  <2>3. QED
    BY <2>1, <2>2
<1>3. PICK id : clients' = [clients EXCEPT ![c] = Given(id)]
  BY <1>2
<1>4. clients'[c] = Given(id) /\ \A d \in ClientSlots : d # c => clients'[d] = clients[d]
  BY <1>3 DEF ArrayInv
<1>5. IsClient(Given(id)) /\ Given(id).name = m /\ Given(id).sock = clients[c].sock
  BY DEF IsClient
<1>6. clients' = [d \in ClientSlots |-> clients'[d]]
  BY <1>3 DEF ArrayInv
<1>7. ArrayInv'
  BY <1>1, <1>4, <1>5, <1>6 DEF ArrayInv, ClientSlots
<1>8. QED
  BY <1>1, <1>4, <1>5, <1>7

(* The slot a client is found in after the one in slot c is gone.          *)
Shifted(c, k) == IF k < c THEN k ELSE k + 1

LEMMA DisconnectShifts ==
  ASSUME ArrayInv, NEW c \in ClientSlots, Disconnect(c)
  PROVE  /\ ArrayInv' /\ nb_clients' = nb_clients - 1 /\ c \in Connected
         /\ \A k \in Connected' : /\ Shifted(c, k) \in Connected \ {c}
                                  /\ clients'[k] = clients[Shifted(c, k)]
<1>1. /\ c \in Connected /\ nb_clients' = nb_clients - 1
      /\ clients' = [k \in ClientSlots |-> IF k \in c .. nb_clients - 2 THEN clients[k + 1]
                                            ELSE clients[k]]
  BY DEF Disconnect, Reads, WithoutClient
<1>2. /\ nb_clients \in Nat /\ nb_clients <= MAX_CLIENTS /\ MAX_CLIENTS \in Nat
      /\ c \in Nat /\ c < nb_clients
  BY <1>1, ServerAssumption DEF ArrayInv, Connected
<1>3. \A k \in c .. nb_clients - 2 : k + 1 \in ClientSlots
  BY <1>2 DEF ClientSlots
<1>4. ArrayInv'
  <2>1. \A k \in ClientSlots : IsClient(clients'[k])
    BY <1>1, <1>3 DEF ArrayInv
  <2>2. QED
    BY <1>1, <1>2, <2>1 DEF ArrayInv, ClientSlots
<1>5. ASSUME NEW k \in Connected'
      PROVE  Shifted(c, k) \in Connected \ {c} /\ clients'[k] = clients[Shifted(c, k)]
  <2>1. k \in 0 .. nb_clients - 2
    BY <1>1, <1>2 DEF Connected
  <2>2. k \in ClientSlots
    BY <1>2, <2>1 DEF ClientSlots
  <2>3. QED
    BY <1>1, <1>2, <2>1, <2>2 DEF Connected, Shifted
<1>6. QED
  BY <1>1, <1>4, <1>5

(* Every step is one of these or leaves everybody in the same slot.        *)
LEMMA StepsOfTheArray ==
  ASSUME ArrayInv, [Next]_vars
  PROVE  \/ SameClients /\ fd' = fd
         \/ Accept
         \/ \E c \in ClientSlots : AcceptConnection(c) \/ Rejoin(c) \/ Disconnect(c)
<1>1. CASE UNCHANGED vars
  BY <1>1, UnchangedClients DEF vars, serverVars
<1>2. ASSUME NEW p \in Proc, Connect(p) \/ User(p) \/ ClientReceives(p) \/ Lost(p) \/ Network(p)
      PROVE  SameClients /\ fd' = fd
  BY <1>2, UnchangedClients DEF Connect, User, ClientReceives, Lost, Network, serverVars
<1>3. CASE Stop
  BY <1>3, UnchangedClients DEF Stop, Shutdown
<1>4. CASE AcceptOutOfBounds
  BY <1>4, UnchangedClients DEF AcceptOutOfBounds
<1>5. ASSUME NEW c \in ClientSlots,
             \/ RefuseConnection(c) \/ CreateOutOfBounds(c) \/ RefuseJoinRoom(c)
             \/ HandlePlay(c) \/ HandleSendMessage(c)
      PROVE  SameClients /\ fd' = fd
  <2>1. UNCHANGED <<clients, nb_clients, fd>>
    BY <1>5 DEF RefuseConnection, CreateOutOfBounds, RefuseJoinRoom, HandlePlay, RejectPlay,
                ValidPlay, EndingPlay, PlayNowhere, HandleSendMessage
  <2>2. QED
    BY <2>1, UnchangedClients
<1>6. ASSUME NEW c \in ClientSlots, HandleCreateRoom(c) \/ HandleJoinRoom(c) \/ HandleLeave(c)
      PROVE  SameClients /\ fd' = fd
  <2>1. /\ nb_clients' = nb_clients /\ fd' = fd
        /\ \E v : clients' = [clients EXCEPT ![c].room_id = v]
    BY <1>6 DEF HandleCreateRoom, HandleJoinRoom, HandleLeave, LeaveAsPlayer, LeaveAsSpectator
  <2>2. QED
    BY <2>1, RoomIdSet
<1>7. ASSUME NEW c \in ClientSlots, HandleSetBiography(c)
      PROVE  SameClients /\ fd' = fd
  BY <1>7, BiographySet DEF HandleSetBiography
<1>8. ASSUME NEW c \in ClientSlots, HandleConnect(c)
      PROVE  RefuseConnection(c) \/ AcceptConnection(c) \/ Rejoin(c)
  BY <1>8 DEF HandleConnect
<1>9. QED
  BY <1>1, <1>2, <1>3, <1>4, <1>5, <1>6, <1>7, <1>8 DEF Next, Serve, ServerStep

LEMMA InitArray == Init => ArrayInv /\ Connected = {}
<1> SUFFICES ASSUME Init PROVE ArrayInv /\ Connected = {}
  OBVIOUS
<1>1. clients = [c \in ClientSlots |-> NoClient] /\ nb_clients = 0
  BY DEF Init, ServerInit
<1>2. IsClient(NoClient)
  BY DEF IsClient, NoClient
<1>3. nb_clients \in 0 .. MAX_CLIENTS /\ Connected = {}
  BY <1>1, ServerAssumption DEF Connected
<1>4. QED
  BY <1>1, <1>2, <1>3 DEF ArrayInv

LEMMA NextArray == ArrayInv /\ [Next]_vars => ArrayInv'
BY StepsOfTheArray, SameKeepsArray, AcceptAppends, NameGiven, DisconnectShifts

(***************************************************************************)
(* Names.                                                                  *)
(***************************************************************************)
LEMMA NextNames == ArrayInv /\ UniqueNames /\ [Next]_vars => UniqueNames'
<1> SUFFICES ASSUME ArrayInv, UniqueNames, [Next]_vars,
                    NEW k \in Connected', NEW l \in Connected',
                    clients'[k].name = clients'[l].name, clients'[k].name # Unnamed
             PROVE  k = l
  BY DEF UniqueNames, Unnamed
<1>0. /\ nb_clients \in Nat /\ Connected \subseteq ClientSlots
      /\ nb_clients' \in Nat /\ ClientSlots \subseteq Nat
  BY NextArray, ConnectedSlots, ServerAssumption DEF ArrayInv, ClientSlots
<1>0a. \A c, d \in Connected :
          clients[c].name = clients[d].name /\ clients[c].name # Unnamed => c = d
  BY DEF UniqueNames, Unnamed
<1>1. CASE SameClients
  <2>1. k \in Connected /\ l \in Connected
    BY <1>1 DEF SameClients, Connected
  <2>2. /\ clients[k].name = clients'[k].name
        /\ clients[l].name = clients'[l].name
    BY <1>0, <1>1, <2>1 DEF SameClients
  <2>3. QED
    BY <1>0a, <2>1, <2>2
<1>2. CASE Accept
  <2>1. \A d \in Connected' : d \in Connected \/ d = nb_clients
    <3>1. nb_clients' = nb_clients + 1
      BY <1>2, AcceptAppends
    <3>2. Connected = 0 .. nb_clients - 1 /\ Connected' = 0 .. nb_clients' - 1
      BY DEF Connected
    <3>3. QED
      BY <1>0, <3>1, <3>2
  <2>2. /\ clients'[nb_clients].name = Unnamed
        /\ \A d \in Connected : clients'[d] = clients[d]
    BY <1>2, AcceptAppends
  <2>3. k \in Connected /\ l \in Connected
    BY <2>1, <2>2
  <2>4. QED
    BY <1>0a, <2>2, <2>3
<1>3. ASSUME NEW c \in ClientSlots, AcceptConnection(c) \/ Rejoin(c) PROVE k = l
  <2>1. k \in Connected /\ l \in Connected
    BY <1>3, NameGiven DEF Connected
  <2>2. \A d \in Connected : clients[d].name # Message(c).name
    BY <1>3, NameGiven DEF NameInUse
  <2>3. /\ clients'[c].name = Message(c).name
        /\ \A d \in Connected : d # c => clients'[d] = clients[d]
    BY <1>0, <1>3, NameGiven
  <2>4. QED
    BY <1>0a, <2>1, <2>2, <2>3
<1>4. ASSUME NEW c \in ClientSlots, Disconnect(c) PROVE k = l
  <2>1. /\ Shifted(c, k) \in Connected /\ clients'[k] = clients[Shifted(c, k)]
        /\ Shifted(c, l) \in Connected /\ clients'[l] = clients[Shifted(c, l)]
    BY <1>4, DisconnectShifts
  <2>2. Shifted(c, k) = Shifted(c, l)
    BY <1>0a, <2>1
  <2>3. c \in Int /\ k \in Int /\ l \in Int
    <3>1. k \in 0 .. nb_clients' - 1 /\ l \in 0 .. nb_clients' - 1
      BY DEF Connected
    <3>2. QED
      BY <1>0, <3>1
  <2>4. QED
    BY <2>2, <2>3 DEF Shifted
<1>5. QED
  BY <1>1, <1>2, <1>3, <1>4, StepsOfTheArray

(* Whoever connects, is refused, comes back or disconnects, and however    *)
(* the array is shifted: no two connected clients have the same name.      *)
THEOREM NamesIdentify == Spec => []UniqueNames
<1>1. Init => ArrayInv /\ UniqueNames
  BY InitArray DEF UniqueNames
<1>2. QED
  BY <1>1, NextArray, NextNames, PTL DEF Spec

(***************************************************************************)
(* The states of the clients: no client starts twice.                      *)
(***************************************************************************)
Started == Running \cup {"EXITED"}

(* A step of somebody's state machine, if it is one.                       *)
StatesAdvance ==
  /\ ClientTypeOK'
  /\ \A q \in Proc : state'[q] = state[q] \/ state'[q] \in Started

LEMMA EntersStarted ==
  ASSUME ClientTypeOK, NEW p \in Proc, NEW s \in Started, Enters(p, s),
         inputs' = inputs \/ inputs' = [inputs EXCEPT ![p] = @ + 1]
  PROVE  StatesAdvance
<1>1. s \in States
  BY DEF Started, States
<1>2. state' \in [Proc -> States] /\ \A q \in Proc : state'[q] = state[q] \/ state'[q] = s
  BY <1>1 DEF Enters, ClientTypeOK
<1>3. inputs' \in [Proc -> Nat]
  BY DEF ClientTypeOK
<1>4. QED
  BY <1>2, <1>3 DEF StatesAdvance, ClientTypeOK

LEMMA StateKept ==
  ASSUME ClientTypeOK, NEW p \in Proc, state' = state,
         inputs' = inputs \/ inputs' = [inputs EXCEPT ![p] = @ + 1]
  PROVE  StatesAdvance
BY DEF StatesAdvance, ClientTypeOK

(* A handler leaves the state or enters one of those Reaction names.       *)
LEMMA HandlesStarted ==
  ASSUME ClientTypeOK, NEW p \in Proc, NEW type, NEW Reaction, Handles(p, type, Reaction),
         \A x \in DOMAIN Reaction : Reaction[x] \in Started
  PROVE  StatesAdvance
<1>1. /\ state' = [state EXCEPT ![p] = IF @ \in DOMAIN Reaction THEN Reaction[@] ELSE @]
      /\ inputs' = inputs
  BY DEF Handles
<1>2. CASE state[p] \in DOMAIN Reaction
  <2>1. Reaction[state[p]] \in Started
    BY <1>2
  <2>2. Enters(p, Reaction[state[p]])
    BY <1>1, <1>2 DEF Enters
  <2>3. QED
    BY <1>1, <2>1, <2>2, EntersStarted
<1>3. CASE state[p] \notin DOMAIN Reaction
  <2>1. state' = state
    BY <1>1, <1>3 DEF ClientTypeOK
  <2>2. QED
    BY <1>1, <2>1, StateKept
<1>4. QED
  BY <1>2, <1>3

LEMMA ReceiveAdvances == ASSUME ClientTypeOK, NEW p \in Proc, Receive(p) PROVE StatesAdvance
<1> USE DEF Started, Running, WaitingReply, WaitingInput, InRoom
<1>1. CASE HandleConnectionSuccessful(p)
  BY <1>1, HandlesStarted DEF HandleConnectionSuccessful
<1>2. CASE HandleConnectionRefused(p)
  BY <1>2, HandlesStarted DEF HandleConnectionRefused
<1>3. CASE HandleRoomCreationSuccessful(p)
  BY <1>3, HandlesStarted DEF HandleRoomCreationSuccessful
<1>4. CASE HandleJoinRoomSuccessful(p)
  BY <1>4, HandlesStarted DEF HandleJoinRoomSuccessful
<1>5. CASE HandleJoinRoomRefused(p)
  BY <1>5, HandlesStarted DEF HandleJoinRoomRefused
<1>6. CASE HandlePlayed(p)
  BY <1>6, HandlesStarted DEF HandlePlayed
<1>7. CASE HandleGameStart(p)
  BY <1>7, HandlesStarted DEF HandleGameStart
<1>8. CASE HandleGameStopped(p)
  BY <1>8, HandlesStarted DEF HandleGameStopped
<1>9. CASE HandleMessage(p)
  BY <1>9, HandlesStarted DEF HandleMessage
<1>10. CASE HandleInvalidPlay(p)
  BY <1>10, HandlesStarted DEF HandleInvalidPlay
<1>11. QED
  BY <1>1, <1>2, <1>3, <1>4, <1>5, <1>6, <1>7, <1>8, <1>9, <1>10 DEF Receive

LEMMA InputAdvances == ASSUME ClientTypeOK, NEW p \in Proc, UserInput(p) PROVE StatesAdvance
<1> USE DEF Started, Running, WaitingReply, WaitingInput, InRoom
<1>1. inputs' = [inputs EXCEPT ![p] = @ + 1]
  BY DEF UserInput, EnterName, ChooseCreate, ChooseJoin, ChooseSpectate, ChooseBio,
         EnterRoomToJoin, EnterRoomToSpectate, EnterBio, EnterMove, Leave, EnterMessage,
         Close, Asks, Types
<1>2. CASE EnterMessage(p)
  BY <1>1, <1>2, StateKept DEF EnterMessage
<1>3. CASE ~EnterMessage(p)
  <2>1. \E s \in Started : Enters(p, s)
    BY <1>3 DEF UserInput, EnterName, ChooseCreate, ChooseJoin, ChooseSpectate, ChooseBio,
                EnterRoomToJoin, EnterRoomToSpectate, EnterBio, EnterMove, Leave, Close
  <2>2. QED
    BY <1>1, <2>1, EntersStarted
<1>4. QED
  BY <1>2, <1>3

LEMMA NextStates == ClientTypeOK /\ [Next]_vars => StatesAdvance
<1> SUFFICES ASSUME ClientTypeOK, [Next]_vars PROVE StatesAdvance
  OBVIOUS
<1> USE DEF Started, Running, WaitingReply, WaitingInput, InRoom
<1>1. ASSUME UNCHANGED clientVars PROVE StatesAdvance
  BY <1>1 DEF clientVars, StatesAdvance, ClientTypeOK
<1>2. ASSUME NEW p \in Proc, Connect(p) PROVE StatesAdvance
  <2>1. Enters(p, "CONNECTING") /\ inputs' = inputs
    BY <1>2 DEF Connect, Start, Enters
  <2>2. QED
    BY <2>1, EntersStarted
<1>3. ASSUME NEW p \in Proc, User(p) PROVE StatesAdvance
  BY <1>3, InputAdvances DEF User
<1>4. ASSUME NEW p \in Proc, ClientReceives(p) PROVE StatesAdvance
  BY <1>4, ReceiveAdvances DEF ClientReceives
<1>5. ASSUME NEW p \in Proc, Lost(p) PROVE StatesAdvance
  BY <1>5, EntersStarted DEF Lost, ServerLost
<1>6. ASSUME NEW p \in Proc, Network(p) PROVE StatesAdvance
  BY <1>1, <1>6 DEF Network
<1>7. ASSUME Serve \/ Stop \/ UNCHANGED vars PROVE StatesAdvance
  BY <1>1, <1>7 DEF Serve, Stop, vars
<1>8. QED
  BY <1>2, <1>3, <1>4, <1>5, <1>6, <1>7 DEF Next

(***************************************************************************)
(* Sockets.  Who waits in the backlog has no socket yet, and only somebody *)
(* who has not started can come into it, so that nobody is in it twice or  *)
(* comes back into it after having been accepted.                          *)
(***************************************************************************)
BacklogInv ==
  /\ backlog \in Seq(Proc)
  /\ \A j, k \in 1 .. Len(backlog) : backlog[j] = backlog[k] => j = k
  /\ \A k \in 1 .. Len(backlog) : fd[backlog[k]] = 0 /\ state[backlog[k]] # "NOT_STARTED"
  /\ \A p \in Proc : state[p] = "NOT_STARTED" => fd[p] = 0

SlotsInv ==
  /\ \A c, d \in Connected : clients[c].sock = clients[d].sock => c = d
  /\ \A p, q \in Proc : fd[p] = fd[q] /\ fd[p] # 0 => p = q
  /\ \A c \in Connected : clients[c].sock # 0 /\ \E p \in Proc : fd[p] = clients[c].sock
  /\ \A p \in Proc : fd[p] # 0 => \E c \in Connected : clients[c].sock = fd[p]

FdInv == fd \in [Proc -> 0 .. MAX_CLIENTS]

SocketsInv == ArrayInv /\ ClientTypeOK /\ FdInv /\ SlotsInv /\ BacklogInv

LEMMA Counters ==
  ASSUME ArrayInv
  PROVE  /\ MAX_CLIENTS \in Nat /\ nb_clients \in Nat /\ nb_clients <= MAX_CLIENTS
         /\ ClientSlots = 0 .. MAX_CLIENTS - 1 /\ Connected = 0 .. nb_clients - 1
BY ServerAssumption DEF ArrayInv, ClientSlots, Connected

(* As long as the array has room some socket number is free: no more are   *)
(* open than there are clients.                                            *)
LEMMA SomeSocketFree ==
  ASSUME SocketsInv, nb_clients < MAX_CLIENTS
  PROVE  \E s \in Sockets : ~Open(s)
<1> SUFFICES ASSUME \A s \in Sockets : Open(s) PROVE FALSE
  OBVIOUS
<1>1. /\ MAX_CLIENTS \in Nat /\ nb_clients \in Nat /\ Connected = 0 .. nb_clients - 1
  BY Counters DEF SocketsInv
<1> DEFINE f == [s \in Sockets |-> CHOOSE c \in Connected : clients[c].sock = s]
<1>2. ASSUME NEW s \in Sockets PROVE f[s] \in Connected /\ clients[f[s]].sock = s
  <2>1. PICK p \in Proc : fd[p] = s /\ s # 0
    BY DEF Open
  <2>2. \E c \in Connected : clients[c].sock = s
    BY <2>1 DEF SocketsInv, SlotsInv
  <2>3. QED
    BY <2>2
<1>3. f \in [Sockets -> Connected]
  BY <1>2
<1>4. IsFiniteSet(Sockets) /\ Cardinality(Sockets) = MAX_CLIENTS
  BY <1>1, FS_Interval DEF Sockets
<1>5. IsFiniteSet(Connected) /\ Cardinality(Connected) = nb_clients
  <2>1. nb_clients - 1 \in Int /\ 0 \in Int
    BY <1>1
  <2>2. QED
    BY <1>1, <2>1, FS_Interval
<1>6. PICK s, t \in Sockets : s # t /\ f[s] = f[t]
  <2>1. Cardinality(Connected) < Cardinality(Sockets)
    BY <1>1, <1>4, <1>5
  <2> HIDE DEF f
  <2>2. QED
    BY <1>3, <1>4, <1>5, <2>1, FS_PigeonHole
<1>7. QED
  BY <1>2, <1>6

(* The socket of a new client is nobody else's.                            *)
LEMMA NewSocket ==
  ASSUME SocketsInv, Accept
  PROVE  \E s \in 1 .. MAX_CLIENTS :
           /\ \A p \in Proc : fd[p] # s
           /\ fd' = [fd EXCEPT ![Head(backlog)] = s]
           /\ clients'[nb_clients].sock = s
<1> DEFINE free == {s \in Sockets : ~Open(s)}
           new  == [sock |-> Min(free), name |-> "", room_id |-> 0, biography |-> ""]
<1>1. MAX_CLIENTS \in Nat /\ nb_clients < MAX_CLIENTS
  BY ServerAssumption DEF Accept
<1>2. free # {} /\ free \in SUBSET Nat
  BY <1>1, SomeSocketFree DEF Sockets
<1>3. Min(free) \in free
  BY <1>2, MinOfNaturals
<1>4. /\ fd' = [fd EXCEPT ![Head(backlog)] = Min(free)]
      /\ clients' = [clients EXCEPT ![nb_clients] = new]
  BY DEF Accept
<1>5. clients'[nb_clients] = new
  BY <1>4, AcceptAppends DEF SocketsInv, ArrayInv
<1>6. new.sock = Min(free)
  OBVIOUS
<1>7. Min(free) \in 1 .. MAX_CLIENTS /\ \A p \in Proc : fd[p] # Min(free)
  <2>1. \A s \in free : s \in 1 .. MAX_CLIENTS /\ s # 0 /\ ~Open(s)
    BY <1>1 DEF Sockets
  <2>2. \A s \in free : \A p \in Proc : fd[p] # s
    BY <2>1 DEF Open
  <2> HIDE DEF free
  <2>3. QED
    BY <1>3, <2>1, <2>2
<1>8. QED
  BY <1>4, <1>5, <1>6, <1>7

(* The process of a slot in use is the only one with its socket.           *)
LEMMA ProcessOfSlot ==
  ASSUME SocketsInv, NEW c \in Connected
  PROVE  /\ Process(c) \in Proc /\ fd[Process(c)] = clients[c].sock
         /\ clients[c].sock # 0
         /\ \A p \in Proc : fd[p] = clients[c].sock => p = Process(c)
<1>1. clients[c].sock # 0 /\ \E p \in Proc : fd[p] = clients[c].sock
  BY DEF SocketsInv, SlotsInv
<1>2. Process(c) \in Proc /\ fd[Process(c)] = clients[c].sock
  BY <1>1 DEF Process
<1>3. QED
  BY <1>1, <1>2 DEF SocketsInv, SlotsInv

(* As long as nobody changes slot or socket the two keep matching.         *)
LEMMA SameSlots ==
  ASSUME SocketsInv, nb_clients' = nb_clients, fd' = fd,
         \A d \in ClientSlots : clients'[d].sock = clients[d].sock
  PROVE  FdInv' /\ SlotsInv'
<1>1. Connected' = Connected /\ \A d \in Connected : clients'[d].sock = clients[d].sock
  BY ConnectedSlots DEF SocketsInv, Connected
<1>2. FdInv'
  BY DEF SocketsInv, FdInv
<1>3. SlotsInv'
  BY <1>1 DEF SocketsInv, SlotsInv
<1>4. QED
  BY <1>2, <1>3

LEMMA NobodyUnstarts ==
  ASSUME StatesAdvance, NEW p \in Proc, state'[p] = "NOT_STARTED"
  PROVE  state[p] = "NOT_STARTED"
BY DEF StatesAdvance, Started, Running, WaitingReply, WaitingInput, InRoom

LEMMA AcceptSlots ==
  ASSUME SocketsInv, StatesAdvance, Accept PROVE FdInv' /\ SlotsInv' /\ BacklogInv'
<1> DEFINE h == Head(backlog)
<1>1. PICK s \in 1 .. MAX_CLIENTS : /\ \A p \in Proc : fd[p] # s
                                  /\ fd' = [fd EXCEPT ![h] = s]
                                  /\ clients'[nb_clients].sock = s
  BY NewSocket
<1>2. /\ MAX_CLIENTS \in Nat /\ nb_clients \in Nat /\ nb_clients' = nb_clients + 1
      /\ Connected = 0 .. nb_clients - 1 /\ Connected' = 0 .. nb_clients' - 1
  BY Counters, AcceptAppends DEF SocketsInv, Connected
<1>3. \A d \in Connected' : d \in Connected \/ d = nb_clients
  BY <1>2
<1>4. \A d \in Connected : d \in Connected' /\ d # nb_clients /\ clients'[d].sock = clients[d].sock
  BY <1>2, AcceptAppends DEF SocketsInv
<1>5. /\ backlog # <<>> /\ backlog' = Tail(backlog) /\ h = backlog[1] /\ h \in Proc
      /\ backlog \in Seq(Proc) /\ Len(backlog) >= 1
  <2>1. backlog # <<>> /\ backlog' = Tail(backlog)
    BY DEF Accept
  <2>2. backlog \in Seq(Proc)
    BY DEF SocketsInv, BacklogInv
  <2>3. QED
    BY <2>1, <2>2
<1>6. fd[h] = 0 /\ state[h] # "NOT_STARTED"
  BY <1>5 DEF SocketsInv, BacklogInv
<1>7. fd'[h] = s /\ \A p \in Proc : p # h => fd'[p] = fd[p]
  BY <1>1, <1>5 DEF SocketsInv, FdInv
<1>8. FdInv'
  BY <1>1, <1>2, <1>5 DEF SocketsInv, FdInv
<1>9. nb_clients \in Connected' /\ s # 0
  BY <1>1, <1>2
<1>10. SlotsInv'
  <2>1. \A c \in Connected : clients[c].sock # s
    BY <1>1 DEF SocketsInv, SlotsInv
  <2>2. ASSUME NEW c \in Connected', NEW d \in Connected', clients'[c].sock = clients'[d].sock
        PROVE  c = d
    BY <1>1, <1>3, <1>4, <2>1, <2>2 DEF SocketsInv, SlotsInv
  <2>3. ASSUME NEW p \in Proc, NEW q \in Proc, fd'[p] = fd'[q], fd'[p] # 0 PROVE p = q
    BY <1>1, <1>7, <2>3 DEF SocketsInv, SlotsInv
  <2>4. ASSUME NEW c \in Connected'
        PROVE  clients'[c].sock # 0 /\ \E p \in Proc : fd'[p] = clients'[c].sock
    <3>1. CASE c = nb_clients
      BY <1>1, <1>5, <1>7, <1>9, <3>1
    <3>2. CASE c \in Connected
      <4>1. PICK p \in Proc : fd[p] = clients[c].sock /\ clients[c].sock # 0
        BY <3>2 DEF SocketsInv, SlotsInv
      <4>2. p # h
        BY <1>6, <4>1
      <4>3. QED
        BY <1>4, <1>7, <3>2, <4>1, <4>2
    <3>3. QED
      BY <1>3, <3>1, <3>2
  <2>5. ASSUME NEW p \in Proc, fd'[p] # 0
        PROVE  \E c \in Connected' : clients'[c].sock = fd'[p]
    <3>1. CASE p = h
      BY <1>1, <1>7, <1>9, <3>1
    <3>2. CASE p # h
      <4>1. PICK c \in Connected : clients[c].sock = fd[p]
        BY <1>7, <2>5, <3>2 DEF SocketsInv, SlotsInv
      <4>2. QED
        BY <1>4, <1>7, <3>2, <4>1
    <3>3. QED
      BY <3>1, <3>2
  <2>6. QED
    BY <2>2, <2>3, <2>4, <2>5 DEF SlotsInv
<1>11. BacklogInv'
  <2>1. /\ backlog' \in Seq(Proc) /\ Len(backlog') = Len(backlog) - 1 /\ Len(backlog) \in Nat
        /\ \A k \in 1 .. Len(backlog') : backlog'[k] = backlog[k + 1]
    BY <1>5
  <2>2. \A j, k \in 1 .. Len(backlog) : backlog[j] = backlog[k] => j = k
    BY DEF SocketsInv, BacklogInv
  <2>3. ASSUME NEW k \in 1 .. Len(backlog') PROVE backlog'[k] # h /\ backlog'[k] \in Proc
    <3>1. k + 1 \in 1 .. Len(backlog) /\ 1 \in 1 .. Len(backlog) /\ k + 1 # 1
      BY <2>1
    <3>2. QED
      BY <1>5, <2>1, <2>2, <3>1
  <2>4. \A j, k \in 1 .. Len(backlog') : backlog'[j] = backlog'[k] => j = k
    BY <2>1, <2>2
  <2>5. \A p \in Proc : state'[p] = "NOT_STARTED" => state[p] = "NOT_STARTED"
    BY NobodyUnstarts
  <2>6. ASSUME NEW k \in 1 .. Len(backlog')
        PROVE  fd'[backlog'[k]] = 0 /\ state'[backlog'[k]] # "NOT_STARTED"
    <3>1. k + 1 \in 1 .. Len(backlog) /\ backlog'[k] = backlog[k + 1]
      BY <2>1
    <3>2. fd[backlog'[k]] = 0 /\ state[backlog'[k]] # "NOT_STARTED"
      BY <3>1 DEF SocketsInv, BacklogInv
    <3>3. QED
      BY <1>7, <2>3, <2>5, <3>2
  <2>7. ASSUME NEW p \in Proc, state'[p] = "NOT_STARTED" PROVE fd'[p] = 0
    <3>1. state[p] = "NOT_STARTED" /\ fd[p] = 0
      BY <2>5, <2>7 DEF SocketsInv, BacklogInv
    <3>2. QED
      BY <1>6, <1>7, <3>1
  <2>8. QED
    BY <2>1, <2>4, <2>6, <2>7 DEF BacklogInv
<1>12. QED
  BY <1>8, <1>10, <1>11

LEMMA DisconnectSlots ==
  ASSUME SocketsInv, NEW c \in ClientSlots, Disconnect(c) PROVE FdInv' /\ SlotsInv'
<1> DEFINE p0 == Process(c)
<1>1. c \in Connected /\ fd' = [fd EXCEPT ![p0] = 0]
  BY DEF Disconnect, Reads
<1>2. /\ p0 \in Proc /\ fd[p0] = clients[c].sock /\ clients[c].sock # 0
      /\ \A p \in Proc : fd[p] = clients[c].sock => p = p0
  BY <1>1, ProcessOfSlot
<1>3. fd'[p0] = 0 /\ \A p \in Proc : p # p0 => fd'[p] = fd[p]
  BY <1>1, <1>2 DEF SocketsInv, FdInv
<1>4. FdInv'
  BY <1>1, <1>2, Counters DEF SocketsInv, FdInv
<1>5. \A k \in Connected' : /\ Shifted(c, k) \in Connected \ {c}
                            /\ clients'[k] = clients[Shifted(c, k)]
  BY DisconnectShifts DEF SocketsInv
<1>6. /\ nb_clients \in Nat /\ nb_clients' = nb_clients - 1 /\ c \in Nat /\ c < nb_clients
      /\ Connected = 0 .. nb_clients - 1 /\ Connected' = 0 .. nb_clients' - 1
  BY <1>1, Counters, DisconnectShifts DEF SocketsInv, Connected
<1>7. ASSUME NEW k \in Connected', NEW l \in Connected', clients'[k].sock = clients'[l].sock
      PROVE  k = l
  <2>1. Shifted(c, k) = Shifted(c, l)
    BY <1>5, <1>7 DEF SocketsInv, SlotsInv
  <2>2. QED
    BY <1>6, <2>1 DEF Shifted
<1>8. ASSUME NEW p \in Proc, NEW q \in Proc, fd'[p] = fd'[q], fd'[p] # 0 PROVE p = q
  BY <1>3, <1>8 DEF SocketsInv, SlotsInv
<1>9. ASSUME NEW k \in Connected'
      PROVE  clients'[k].sock # 0 /\ \E p \in Proc : fd'[p] = clients'[k].sock
  <2>1. PICK p \in Proc : fd[p] = clients'[k].sock /\ clients'[k].sock # 0
    BY <1>5 DEF SocketsInv, SlotsInv
  <2>2. clients'[k].sock # clients[c].sock
    BY <1>1, <1>5 DEF SocketsInv, SlotsInv
  <2>3. QED
    BY <1>2, <1>3, <2>1, <2>2
<1>10. ASSUME NEW p \in Proc, fd'[p] # 0 PROVE \E k \in Connected' : clients'[k].sock = fd'[p]
  <2>1. p # p0 /\ fd'[p] = fd[p]
    BY <1>3, <1>10
  <2>2. PICK d \in Connected : clients[d].sock = fd[p]
    BY <1>10, <2>1 DEF SocketsInv, SlotsInv
  <2>3. d # c
    BY <1>2, <2>1, <2>2
  <2>4. \E k \in Connected' : Shifted(c, k) = d
    <3>1. CASE d < c
      BY <1>6, <3>1 DEF Shifted
    <3>2. CASE d > c
      <4>1. d - 1 \in Connected' /\ Shifted(c, d - 1) = d
        BY <1>6, <3>2 DEF Shifted
      <4>2. QED
        BY <4>1
    <3>3. QED
      BY <1>6, <2>3, <3>1, <3>2
  <2>5. QED
    BY <1>5, <2>1, <2>2, <2>4
<1>11. QED
  BY <1>4, <1>7, <1>8, <1>9, <1>10 DEF SlotsInv

(* The backlog changes by who connects and who is accepted.                *)
LEMMA StepsOfTheBacklog ==
  ASSUME [Next]_vars
  PROVE  backlog' = backlog \/ Accept \/ \E p \in Proc : Connect(p)
<1>1. CASE UNCHANGED vars
  BY <1>1 DEF vars, serverVars
<1>2. ASSUME NEW p \in Proc, User(p) \/ ClientReceives(p) \/ Lost(p) \/ Network(p)
      PROVE  backlog' = backlog
  BY <1>2 DEF User, ClientReceives, Lost, Network, serverVars
<1>3. CASE Stop
  BY <1>3 DEF Stop, Shutdown
<1>4. CASE AcceptOutOfBounds
  BY <1>4 DEF AcceptOutOfBounds
<1>5. ASSUME NEW c \in ClientSlots,
             \/ HandleConnect(c) \/ HandleCreateRoom(c) \/ CreateOutOfBounds(c)
             \/ HandleJoinRoom(c) \/ RefuseJoinRoom(c)
             \/ HandlePlay(c) \/ HandleLeave(c)
             \/ HandleSendMessage(c) \/ HandleSetBiography(c)
             \/ Disconnect(c)
      PROVE  backlog' = backlog
  BY <1>5 DEF HandleConnect, RefuseConnection, AcceptConnection, Rejoin, HandleCreateRoom,
              CreateOutOfBounds, HandleJoinRoom, RefuseJoinRoom, HandlePlay, RejectPlay,
              ValidPlay, EndingPlay, PlayNowhere, HandleLeave, LeaveAsPlayer,
              LeaveAsSpectator, HandleSendMessage, HandleSetBiography, Disconnect
<1>6. QED
  BY <1>1, <1>2, <1>3, <1>4, <1>5 DEF Next, Serve, ServerStep

(* Only accepting gives a socket to somebody who had none.                 *)
LEMMA SameBacklog ==
  ASSUME SocketsInv, StatesAdvance, backlog' = backlog,
         \A p \in Proc : fd'[p] = fd[p] \/ fd'[p] = 0
  PROVE  BacklogInv'
<1>1. \A p \in Proc : fd[p] = 0 => fd'[p] = 0
  OBVIOUS
<1>2. \A p \in Proc : state'[p] = "NOT_STARTED" => state[p] = "NOT_STARTED"
  BY NobodyUnstarts
<1>3. \A k \in 1 .. Len(backlog) : backlog[k] \in Proc
  BY DEF SocketsInv, BacklogInv
<1>4. QED
  BY <1>1, <1>2, <1>3 DEF SocketsInv, BacklogInv

LEMMA ConnectBacklog ==
  ASSUME SocketsInv, StatesAdvance, fd' = fd, NEW p \in Proc, Connect(p) PROVE BacklogInv'
<1>1. /\ state[p] = "NOT_STARTED" /\ state' = [state EXCEPT ![p] = "CONNECTING"]
      /\ backlog' = Append(backlog, p)
  BY DEF Connect, Start
<1>2. backlog \in Seq(Proc) /\ Len(backlog) \in Nat
  BY DEF SocketsInv, BacklogInv
<1>3. /\ backlog' \in Seq(Proc) /\ Len(backlog') = Len(backlog) + 1
      /\ backlog'[Len(backlog) + 1] = p
      /\ \A k \in 1 .. Len(backlog) : backlog'[k] = backlog[k]
  BY <1>1, <1>2
<1>4. \A k \in 1 .. Len(backlog') : k \in 1 .. Len(backlog) \/ k = Len(backlog) + 1
  BY <1>2, <1>3
<1>5. \A k \in 1 .. Len(backlog) : backlog[k] # p /\ backlog[k] \in Proc
  BY <1>1, <1>2 DEF SocketsInv, BacklogInv
<1>6. state'[p] # "NOT_STARTED" /\ \A q \in Proc : q # p => state'[q] = state[q]
  BY <1>1 DEF SocketsInv, ClientTypeOK
<1>7. fd[p] = 0
  BY <1>1 DEF SocketsInv, BacklogInv
<1>8. ASSUME NEW j \in 1 .. Len(backlog'), NEW k \in 1 .. Len(backlog'), backlog'[j] = backlog'[k]
      PROVE  j = k
  BY <1>3, <1>4, <1>5, <1>8 DEF SocketsInv, BacklogInv
<1>9. ASSUME NEW k \in 1 .. Len(backlog')
      PROVE  fd'[backlog'[k]] = 0 /\ state'[backlog'[k]] # "NOT_STARTED"
  BY <1>3, <1>4, <1>5, <1>6, <1>7 DEF SocketsInv, BacklogInv
<1>10. \A q \in Proc : state'[q] = "NOT_STARTED" => fd'[q] = 0
  BY <1>6 DEF SocketsInv, BacklogInv
<1>11. QED
  BY <1>3, <1>8, <1>9, <1>10 DEF BacklogInv

LEMMA InitSockets == Init => SocketsInv
<1> SUFFICES ASSUME Init PROVE SocketsInv
  OBVIOUS
<1>1. ArrayInv /\ Connected = {}
  BY InitArray
<1>2. /\ fd = [p \in Proc |-> 0] /\ backlog = <<>>
      /\ state = [p \in Proc |-> "NOT_STARTED"] /\ inputs = [p \in Proc |-> 0]
  BY DEF Init, ServerInit, ClientInit
<1>3. ClientTypeOK
  BY <1>2 DEF ClientTypeOK, States
<1>4. FdInv
  BY <1>2, ServerAssumption DEF FdInv
<1>5. SlotsInv
  BY <1>1, <1>2 DEF SlotsInv
<1>6. BacklogInv
  BY <1>2 DEF BacklogInv
<1>7. QED
  BY <1>1, <1>3, <1>4, <1>5, <1>6 DEF SocketsInv

LEMMA NextSockets == SocketsInv /\ [Next]_vars => SocketsInv'
<1> SUFFICES ASSUME SocketsInv, [Next]_vars PROVE SocketsInv'
  OBVIOUS
<1>1. ArrayInv' /\ StatesAdvance /\ ClientTypeOK'
  BY NextArray, NextStates DEF SocketsInv, StatesAdvance
<1>2. CASE Accept
  BY <1>1, <1>2, AcceptSlots DEF SocketsInv
<1>3. CASE ~Accept
  <2>1. FdInv' /\ SlotsInv' /\ \A p \in Proc : fd'[p] = fd[p] \/ fd'[p] = 0
    <3>1. CASE SameClients /\ fd' = fd
      BY <3>1, SameSlots DEF SameClients
    <3>2. ASSUME NEW c \in ClientSlots, AcceptConnection(c) \/ Rejoin(c)
          PROVE  FdInv' /\ SlotsInv' /\ fd' = fd
      <4>1. /\ nb_clients' = nb_clients /\ fd' = fd
            /\ clients'[c].sock = clients[c].sock
            /\ \A d \in ClientSlots : d # c => clients'[d] = clients[d]
        BY <3>2, NameGiven DEF SocketsInv
      <4>2. \A d \in ClientSlots : clients'[d].sock = clients[d].sock
        BY <4>1
      <4>3. QED
        BY <4>1, <4>2, SameSlots
    <3>3. ASSUME NEW c \in ClientSlots, Disconnect(c)
          PROVE  FdInv' /\ SlotsInv' /\ \A p \in Proc : fd'[p] = fd[p] \/ fd'[p] = 0
      <4>1. fd' = [fd EXCEPT ![Process(c)] = 0]
        BY <3>3 DEF Disconnect
      <4>2. QED
        BY <3>3, <4>1, DisconnectSlots DEF SocketsInv, FdInv
    <3>4. QED
      BY <1>3, <3>1, <3>2, <3>3, StepsOfTheArray DEF SocketsInv
  <2>2. CASE backlog' = backlog
    BY <1>1, <2>1, <2>2, SameBacklog DEF SocketsInv
  <2>3. ASSUME NEW p \in Proc, Connect(p) PROVE BacklogInv'
    BY <1>1, <2>3, ConnectBacklog DEF Connect
  <2>4. QED
    BY <1>1, <1>3, <2>1, <2>2, <2>3, StepsOfTheBacklog DEF SocketsInv
<1>4. QED
  BY <1>2, <1>3

(* However often people connect and disconnect: the server's slots and the *)
(* open sockets correspond one to one.                                     *)
THEOREM OneSocketEach == Spec => []SocketsMatch
<1>1. SocketsInv => SocketsMatch
  <2> SUFFICES ASSUME SocketsInv PROVE SocketsMatch
    OBVIOUS
  <2>1. \A c \in Connected : clients[c].sock \in {fd[p] : p \in Proc} \ {0}
    BY DEF SocketsInv, SlotsInv
  <2>2. \A p \in Proc : fd[p] # 0 => fd[p] \in {clients[c].sock : c \in Connected}
    BY DEF SocketsInv, SlotsInv
  <2>3. QED
    BY <2>1, <2>2 DEF SocketsInv, SlotsInv, SocketsMatch
<1>2. QED
  BY <1>1, InitSockets, NextSockets, PTL DEF Spec

(***************************************************************************)
(* What is on its way to a client, and the states it will take it through. *)
(***************************************************************************)
Playing == {"IN_ROOM", "IN_GAME", "WAITING_PLAY_INPUT", "WAITING_PLAY_ACK"}
Seated  == Playing \ {"WAITING_PLAY_ACK"}

(* A client in state s handles message m, which it may get there, and      *)
(* enters state t.                                                         *)
Moves(s, m, t) ==
  \/ m.type = "MESSAGE" /\ s \in Playing /\ t = s
  \/ m.type = "CONNECTION_SUCCESSFUL" /\ s = "WAITING_CONNECTION" /\ t = "CONNECTED"
  \/ m.type = "CONNECTION_REFUSED" /\ s = "WAITING_CONNECTION" /\ t = "CONNECTING"
  \/ m.type = "ROOM_CREATION_SUCCESSFUL" /\ s = "WAITING_CREATE_ROOM_RESPONSE" /\ t = "IN_ROOM"
  \/ /\ m.type = "JOIN_ROOM_SUCCESSFUL" /\ t = "IN_ROOM"
     /\ s = "WAITING_JOIN_ROOM_RESPONSE" \/ s = "WAITING_CONNECTION"
  \/ m.type = "JOIN_ROOM_REFUSED" /\ s = "WAITING_JOIN_ROOM_RESPONSE" /\ t = "CONNECTED"
  \/ /\ m.type = "PLAYED"
     /\ \/ s = "IN_GAME" /\ t = "WAITING_PLAY_INPUT"
        \/ s = "WAITING_CONNECTION" /\ t = "WAITING_PLAY_INPUT"
        \/ s = "WAITING_PLAY_ACK" /\ t = "IN_GAME"
  \/ /\ m.type = "GAME_START"
     /\ \/ s = "IN_ROOM" /\ m.pos = 0 /\ t = "WAITING_PLAY_INPUT"
        \/ s = "IN_ROOM" /\ m.pos # 0 /\ t = "IN_GAME"
        \/ s = "WAITING_CONNECTION" /\ t = "IN_GAME"
  \/ m.type = "INVALID_PLAY" /\ s = "WAITING_PLAY_ACK" /\ t = "WAITING_PLAY_INPUT"

IsSequence(s) == \E S : s \in Seq(S)

(* The messages d take it from s to t by way of the states of f.           *)
Path(f, s, d, t) == /\ f \in [0 .. Len(d) -> States] /\ f[0] = s /\ f[Len(d)] = t
                    /\ \A k \in 1 .. Len(d) : Moves(f[k - 1], d[k], f[k])
Leads(s, d, t)   == IsSequence(d) /\ \E f : Path(f, s, d, t)

LEMMA LengthIsNat == ASSUME NEW d, IsSequence(d) PROVE Len(d) \in Nat /\ (Len(d) = 0 <=> d = <<>>)
BY DEF IsSequence

LEMMA LeadsNowhere ==
  ASSUME NEW s \in States PROVE Leads(s, <<>>, s)
<1> DEFINE none == <<>>
<1>1. IsSequence(none) /\ Len(none) = 0
  <2>1. none \in Seq({})
    OBVIOUS
  <2>2. QED
    BY <2>1 DEF IsSequence
<1> HIDE DEF none
<1> DEFINE f == [k \in 0 .. 0 |-> s]
<1>2. f \in [0 .. 0 -> States] /\ f[0] = s
  OBVIOUS
<1>3. \A k \in 1 .. 0 : FALSE
  OBVIOUS
<1> HIDE DEF f
<1>4. Path(f, s, none, s)
  BY <1>1, <1>2, <1>3 DEF Path
<1>5. QED
  BY <1>1, <1>4 DEF Leads, none

LEMMA LeadsStraight ==
  ASSUME NEW s \in States, NEW t \in States, NEW m, Moves(s, m, t)
  PROVE  Leads(s, <<m>>, t)
<1> DEFINE d == <<m>>
<1>1. IsSequence(d) /\ Len(d) = 1 /\ d[1] = m
  <2>1. d \in Seq({m})
    OBVIOUS
  <2>2. QED
    BY <2>1 DEF IsSequence
<1> HIDE DEF d
<1> DEFINE f == [k \in 0 .. 1 |-> IF k = 0 THEN s ELSE t]
<1>2. f \in [0 .. 1 -> States] /\ f[0] = s /\ f[1] = t
  OBVIOUS
<1>3. \A k \in 1 .. 1 : k = 1 /\ k - 1 = 0
  OBVIOUS
<1> HIDE DEF f
<1>4. Path(f, s, d, t)
  BY <1>1, <1>2, <1>3 DEF Path
<1>5. QED
  BY <1>1, <1>4 DEF Leads, d

LEMMA LeadsOn ==
  ASSUME NEW s, NEW d, NEW t, NEW e, NEW x, Leads(s, d, t), Leads(t, e, x)
  PROVE  Leads(s, d \o e, x)
<1> DEFINE b == d \o e
           l == Len(d)
           n == Len(d) + Len(e)
<1>1. PICK f : Path(f, s, d, t)
  BY DEF Leads
<1>2. PICK g : Path(g, t, e, x)
  BY DEF Leads
<1>3. PICK S : d \in Seq(S)
  BY DEF Leads, IsSequence
<1>4. PICK T : e \in Seq(T)
  BY DEF Leads, IsSequence
<1>5. d \in Seq(S \cup T) /\ e \in Seq(S \cup T)
  BY <1>3, <1>4
<1>6. b \in Seq(S \cup T) /\ Len(b) = n /\ l \in Nat /\ Len(e) \in Nat /\ n \in Nat
  BY <1>5
<1>7. \A k \in 1 .. l : b[k] = d[k]
  BY <1>5
<1>8. \A k \in 1 .. n : ~(k <= l) => b[k] = e[k - l]
  BY <1>5, JoinRight
<1>9. /\ f \in [0 .. l -> States] /\ f[0] = s /\ f[l] = t
      /\ \A k \in 1 .. l : Moves(f[k - 1], d[k], f[k])
  BY <1>1 DEF Path
<1>10. /\ g \in [0 .. Len(e) -> States] /\ g[0] = t /\ g[Len(e)] = x
       /\ \A k \in 1 .. Len(e) : Moves(g[k - 1], e[k], g[k])
  BY <1>2 DEF Path
<1>11. n = l + Len(e)
  OBVIOUS
<1> HIDE DEF b, l, n
<1> DEFINE h == [k \in 0 .. n |-> IF k <= l THEN f[k] ELSE g[k - l]]
<1>12. h \in [0 .. n -> States]
  BY <1>6, <1>9, <1>10, <1>11
<1>13. h[0] = s
  BY <1>6, <1>9, <1>11
<1>14. h[n] = x
  <2>1. CASE Len(e) = 0
    BY <1>6, <1>9, <1>10, <1>11, <2>1
  <2>2. CASE Len(e) # 0
    <3>1. ~(n <= l) /\ n - l = Len(e) /\ n \in 0 .. n
      BY <1>6, <1>11, <2>2
    <3>2. QED
      BY <1>10, <3>1
  <2>3. QED
    BY <2>1, <2>2
<1>15. ASSUME NEW k \in 1 .. n PROVE Moves(h[k - 1], b[k], h[k])
  <2>0. k \in 0 .. n /\ k - 1 \in 0 .. n
    BY <1>6
  <2>1. CASE k <= l
    <3>1. k - 1 <= l /\ k \in 1 .. l
      BY <1>6, <2>1
    <3>2. h[k - 1] = f[k - 1] /\ h[k] = f[k] /\ b[k] = d[k]
      BY <1>7, <2>0, <2>1, <3>1
    <3>3. QED
      BY <1>9, <3>1, <3>2
  <2>2. CASE ~(k <= l)
    <3>1. k - l \in 1 .. Len(e) /\ (k - 1) - l = (k - l) - 1
      BY <1>6, <1>11, <2>2
    <3>2. h[k] = g[k - l] /\ b[k] = e[k - l]
      BY <1>8, <2>0, <2>2
    <3>3. h[k - 1] = g[(k - l) - 1]
      <4>1. CASE k - 1 <= l
        <5>1. k - 1 = l /\ (k - l) - 1 = 0
          BY <1>6, <2>2, <4>1
        <5>2. h[k - 1] = f[k - 1]
          BY <2>0, <4>1
        <5>3. QED
          BY <1>9, <1>10, <5>1, <5>2
      <4>2. CASE ~(k - 1 <= l)
        BY <2>0, <3>1, <4>2
      <4>3. QED
        BY <4>1, <4>2
    <3>4. QED
      BY <1>10, <3>1, <3>2, <3>3
  <2>3. QED
    BY <2>1, <2>2
<1> HIDE DEF h
<1>16. Path(h, s, b, x)
  BY <1>6, <1>12, <1>13, <1>14, <1>15 DEF Path
<1>17. IsSequence(b)
  BY <1>6 DEF IsSequence
<1>18. QED
  BY <1>16, <1>17 DEF Leads, b

(* The first message is handled first.                                     *)
LEMMA LeadsFirst ==
  ASSUME NEW s, NEW d, NEW t, Leads(s, d, t), d # <<>>
  PROVE  \E x \in States : Moves(s, Head(d), x) /\ Leads(x, Tail(d), t)
<1> DEFINE e == Tail(d)
           n == Len(e)
<1>1. PICK f : Path(f, s, d, t)
  BY DEF Leads
<1>2. PICK S : d \in Seq(S)
  BY DEF Leads, IsSequence
<1>3. /\ e \in Seq(S) /\ n \in Nat /\ Len(d) = n + 1 /\ d[1] = Head(d)
      /\ \A k \in 1 .. n : e[k] = d[k + 1]
  BY <1>2
<1>4. /\ f \in [0 .. Len(d) -> States] /\ f[0] = s /\ f[Len(d)] = t
      /\ \A k \in 1 .. Len(d) : Moves(f[k - 1], d[k], f[k])
  BY <1>1 DEF Path
<1> DEFINE g == [k \in 0 .. n |-> f[k + 1]]
<1>4a. n = Len(e)
  OBVIOUS
<1> HIDE DEF e, n
<1>5. Moves(s, Head(d), f[1]) /\ f[1] \in States
  <2>1. 1 \in 1 .. Len(d) /\ 1 - 1 = 0 /\ 1 \in 0 .. Len(d)
    BY <1>3
  <2>2. QED
    BY <1>3, <1>4, <2>1
<1>6. g \in [0 .. n -> States] /\ g[0] = f[1] /\ g[n] = t
  BY <1>3, <1>4
<1>7. ASSUME NEW k \in 1 .. n PROVE Moves(g[k - 1], e[k], g[k])
  <2>1. k \in 0 .. n /\ k - 1 \in 0 .. n /\ k + 1 \in 1 .. Len(d) /\ (k + 1) - 1 = k /\ (k - 1) + 1 = k
    BY <1>3
  <2>2. g[k - 1] = f[k] /\ g[k] = f[k + 1] /\ e[k] = d[k + 1]
    BY <1>3, <2>1
  <2>3. Moves(f[(k + 1) - 1], d[k + 1], f[k + 1])
    BY <1>4, <2>1
  <2>4. QED
    BY <2>1, <2>2, <2>3
<1> HIDE DEF g
<1>8. Path(g, f[1], e, t)
  BY <1>4a, <1>6, <1>7 DEF Path
<1>9. IsSequence(e)
  BY <1>3 DEF IsSequence
<1>10. QED
  BY <1>5, <1>8, <1>9 DEF Leads, e

(* The messages do not take it out of a set that no message leaves.        *)
Closed(P) == \A x \in P : \A m, y : Moves(x, m, y) => y \in P

LEMMA LeadsWithin ==
  ASSUME NEW s, NEW d, NEW t, NEW f, Path(f, s, d, t), IsSequence(d), NEW P, s \in P, Closed(P)
  PROVE  t \in P /\ \A k \in 0 .. Len(d) : f[k] \in P
<1> DEFINE n == Len(d)
           Q == {k \in 0 .. n : f[k] \in P}
<1>1. n \in Nat
  BY LengthIsNat
<1>2. f[0] = s /\ f[n] = t /\ \A k \in 1 .. n : Moves(f[k - 1], d[k], f[k])
  BY DEF Path
<1> HIDE DEF n
<1>3. 0 \in Q
  BY <1>1, <1>2
<1>4. ASSUME NEW k \in 0 .. n - 1, k \in Q PROVE k + 1 \in Q
  <2>1. k + 1 \in 1 .. n /\ (k + 1) - 1 = k /\ k + 1 \in 0 .. n /\ f[k] \in P
    BY <1>1, <1>4
  <2>2. Moves(f[(k + 1) - 1], d[k + 1], f[k + 1])
    BY <1>2, <2>1
  <2>3. Moves(f[k], d[k + 1], f[k + 1])
    BY <2>1, <2>2
  <2>4. f[k + 1] \in P
    BY <2>1, <2>3 DEF Closed
  <2>5. QED
    BY <2>1, <2>4
<1> HIDE DEF Q
<1>5. \A k \in 0 .. n : k \in Q
  BY <1>1, <1>3, <1>4, Induction
<1>6. n \in 0 .. n
  BY <1>1
<1>7. QED
  BY <1>2, <1>5, <1>6 DEF Q, n

LEMMA LeadsPlaying == ASSUME NEW s \in Playing, NEW d, NEW t, Leads(s, d, t) PROVE t \in Playing
<1>1. Closed(Playing)
  BY DEF Closed, Moves, Playing
<1>2. PICK f : Path(f, s, d, t)
  BY DEF Leads
<1>3. QED
  BY <1>1, <1>2, LeadsWithin DEF Leads

(* Nothing leads to a state in which it waits for an answer but that state.*)
Waits == {"WAITING_CONNECTION", "WAITING_CREATE_ROOM_RESPONSE", "WAITING_JOIN_ROOM_RESPONSE",
          "WAITING_PLAY_ACK"}

LEMMA LeadsWaiting ==
  ASSUME NEW s \in States, NEW d, NEW t \in Waits, Leads(s, d, t) PROVE s = t
<1> SUFFICES ASSUME s # t PROVE FALSE
  OBVIOUS
<1> DEFINE P == States \ {t}
<1>1. \A x, m, y : Moves(x, m, y) /\ y \in Waits => x = y
  BY DEF Moves, Waits, Playing
<1>2. \A x, m, y : Moves(x, m, y) /\ x \in States => y \in States
  BY DEF Moves, States, Running, WaitingReply, WaitingInput, InRoom, Playing
<1>3. Closed(P)
  BY <1>1, <1>2 DEF Closed
<1> HIDE DEF P
<1>4. PICK f : Path(f, s, d, t)
  BY DEF Leads
<1>5. s \in P
  BY DEF P
<1>6. t \in P
  BY <1>3, <1>4, <1>5, LeadsWithin DEF Leads
<1>7. QED
  BY <1>6 DEF P

(* In the other states there is nothing on its way.                        *)
Still == States \ (Playing \cup Waits)

LEMMA LeadsStill ==
  ASSUME NEW s \in Still, NEW d, NEW t, Leads(s, d, t) PROVE d = <<>> /\ t = s
<1>1. \A m, y : ~Moves(s, m, y)
  BY DEF Still, Moves, Playing, Waits
<1>2. d = <<>>
  BY <1>1, LeadsFirst
<1>3. PICK f : Path(f, s, d, t)
  BY DEF Leads
<1>4. Len(d) = 0
  BY <1>2
<1>5. QED
  BY <1>2, <1>3, <1>4 DEF Path

(* Who has the move gets nothing but chat, and may as well have moved.     *)
LEMMA LeadsMove ==
  ASSUME NEW d, NEW t, Leads("WAITING_PLAY_INPUT", d, t)
  PROVE  t = "WAITING_PLAY_INPUT" /\ Leads("WAITING_PLAY_ACK", d, "WAITING_PLAY_ACK")
<1> DEFINE a == "WAITING_PLAY_INPUT"
           b == "WAITING_PLAY_ACK"
           P == {a}
           n == Len(d)
<1>1. \A m, y : Moves(a, m, y) => y = a /\ m.type = "MESSAGE"
  BY DEF Moves, Playing
<1>2. \A m : m.type = "MESSAGE" => Moves(b, m, b)
  BY DEF Moves, Playing
<1>3. b \in States
  BY DEF States, Running, WaitingReply
<1> HIDE DEF a, b
<1>4. PICK f : Path(f, a, d, t)
  BY DEF Leads, a
<1>5. Closed(P) /\ a \in P
  BY <1>1 DEF Closed
<1> HIDE DEF P
<1>6. t \in P /\ \A k \in 0 .. n : f[k] \in P
  BY <1>4, <1>5, LeadsWithin DEF Leads
<1>7. n \in Nat
  BY LengthIsNat DEF Leads
<1>8. \A k \in 1 .. n : Moves(f[k - 1], d[k], f[k])
  BY <1>4 DEF Path
<1>9. ASSUME NEW k \in 1 .. n PROVE Moves(b, d[k], b)
  <2>1. k - 1 \in 0 .. n
    BY <1>7
  <2>2. f[k - 1] = a
    BY <1>6, <2>1 DEF P
  <2>3. Moves(a, d[k], f[k])
    BY <1>8, <2>2
  <2>4. QED
    BY <1>1, <1>2, <2>3
<1> DEFINE g == [k \in 0 .. n |-> b]
<1>10. g \in [0 .. n -> States] /\ g[0] = b /\ g[n] = b
  BY <1>3, <1>7
<1>11. \A k \in 1 .. n : g[k - 1] = b /\ g[k] = b
  BY <1>7
<1> HIDE DEF g
<1>12. Path(g, b, d, b)
  BY <1>9, <1>10, <1>11 DEF Path, n
<1>13. Leads(b, d, b)
  BY <1>12 DEF Leads
<1>14. QED
  BY <1>6, <1>13 DEF P, a, b

(***************************************************************************)
(* Where the server has a client: without a name, named and in no room, in *)
(* a room that waits, in a game with the move or without it.               *)
(***************************************************************************)
AllNames == UNION {Names[p] : p \in Proc}
IsEnd(m) == m.type \in {"FIN", "RST"}
IsRequest(m) == m.type \in {"CONNECT", "CREATE_ROOM", "JOIN_ROOM", "PLAY"}

(* What a client may ask of a server that has it at v.                     *)
Allowed(m, v) ==
  \/ m.type = "CONNECT" /\ v = "NEW" /\ m.name \in AllNames
  \/ m.type = "CREATE_ROOM" /\ v = "FREE"
  \/ m.type = "JOIN_ROOM" /\ ~m.spectate /\ v = "FREE"
  \/ m.type = "PLAY" /\ v = "WAITING_PLAY_INPUT"
  \/ m.type = "SEND_MESSAGE" /\ v \in Seated
  \/ m.type = "SET_BIOGRAPHY"
  \/ IsEnd(m)

(* The state in which it waits for the answer.                             *)
WaitsIn(m, t) ==
  \/ m.type = "CONNECT" /\ t = "WAITING_CONNECTION"
  \/ m.type = "CREATE_ROOM" /\ t = "WAITING_CREATE_ROOM_RESPONSE"
  \/ m.type = "JOIN_ROOM" /\ t = "WAITING_JOIN_ROOM_RESPONSE"
  \/ m.type = "PLAY" /\ t = "WAITING_PLAY_ACK"

(* The states of a client for which everything was answered.               *)
AtRest(v, t) ==
  \/ v = "NEW" /\ t = "CONNECTING"
  \/ v = "FREE" /\ t \in {"CONNECTED", "WAITING_JOIN_ROOM_INPUT", "WAITING_BIO_INPUT"}
  \/ v \in Seated /\ t = v

(* What a client in state s that the server has at v may have sent: a      *)
(* request is the last thing before the end.                               *)
Sent(s, u, v) ==
  /\ IsSequence(u)
  /\ \A k \in 1 .. Len(u) : Allowed(u[k], v)
  /\ \A k \in 1 .. Len(u) : IsEnd(u[k]) => k = Len(u) /\ s = "EXITED"
  /\ \A j, k \in 1 .. Len(u) : IsRequest(u[j]) /\ j < k => IsEnd(u[k])

NothingAsked(u) == \A k \in 1 .. Len(u) : ~IsRequest(u[k])

(* What is on its way leads it to where it waits for the answer, or to     *)
(* where the server has it.                                                *)
Fits(t, u, v) == /\ \A k \in 1 .. Len(u) : IsRequest(u[k]) => WaitsIn(u[k], t)
                 /\ NothingAsked(u) => AtRest(v, t)

Agrees(s, u, d, v) ==
  /\ s \in States /\ Sent(s, u, v)
  /\ s = "NOT_STARTED" => u = <<>> /\ d = <<>> /\ v = "NEW"
  /\ s \in Running => \E t \in States : Leads(s, d, t) /\ Fits(t, u, v)

LEMMA RunningStates ==
  \A s \in States : s \in Running <=> s # "NOT_STARTED" /\ s # "EXITED"
BY DEF States, Running, WaitingReply, WaitingInput, InRoom

(***************************************************************************)
(* Sequences that grow, lose their head or have their end replaced.        *)
(***************************************************************************)
LEMMA Grown ==
  ASSUME NEW u, NEW m, IsSequence(u)
  PROVE  /\ IsSequence(Append(u, m)) /\ Len(Append(u, m)) = Len(u) + 1 /\ Len(u) \in Nat
         /\ Append(u, m)[Len(u) + 1] = m
         /\ \A k \in 1 .. Len(u) : Append(u, m)[k] = u[k]
<1>1. PICK S : u \in Seq(S)
  BY DEF IsSequence
<1> DEFINE T == S \cup {m}
<1>2. u \in Seq(T) /\ m \in T
  BY <1>1
<1> HIDE DEF T
<1>3. /\ Append(u, m) \in Seq(T) /\ Len(Append(u, m)) = Len(u) + 1 /\ Len(u) \in Nat
      /\ Append(u, m)[Len(u) + 1] = m
      /\ \A k \in 1 .. Len(u) : Append(u, m)[k] = u[k]
  BY <1>2
<1>4. QED
  BY <1>3 DEF IsSequence

LEMMA Beheaded ==
  ASSUME NEW u, IsSequence(u), u # <<>>
  PROVE  /\ IsSequence(Tail(u)) /\ Len(Tail(u)) \in Nat /\ Len(u) = Len(Tail(u)) + 1
         /\ Head(u) = u[1]
         /\ \A k \in 1 .. Len(Tail(u)) : Tail(u)[k] = u[k + 1]
<1>1. PICK S : u \in Seq(S)
  BY DEF IsSequence
<1>2. /\ Tail(u) \in Seq(S) /\ Len(Tail(u)) \in Nat /\ Len(u) = Len(Tail(u)) + 1
      /\ Head(u) = u[1]
      /\ \A k \in 1 .. Len(Tail(u)) : Tail(u)[k] = u[k + 1]
  BY <1>1
<1>3. QED
  BY <1>2 DEF IsSequence

(* A client sends something that is not an end.                            *)
LEMMA SentMore ==
  ASSUME NEW s \in Running, NEW r, NEW u, NEW v, NEW m, Sent(s, u, v),
         NothingAsked(u), Allowed(m, v), ~IsEnd(m)
  PROVE  Sent(r, Append(u, m), v)
<1> DEFINE w == Append(u, m)
           n == Len(u)
<1>1. /\ IsSequence(w) /\ Len(w) = n + 1 /\ n \in Nat /\ w[n + 1] = m
      /\ \A k \in 1 .. n : w[k] = u[k]
  BY Grown DEF Sent
<1>2. s # "EXITED"
  BY DEF Running, WaitingReply, WaitingInput, InRoom
<1>3. \A k \in 1 .. n : Allowed(u[k], v) /\ ~IsEnd(u[k]) /\ ~IsRequest(u[k])
  BY <1>2 DEF Sent, NothingAsked
<1>4. \A k \in 1 .. Len(w) : k \in 1 .. n \/ k = n + 1
  BY <1>1
<1> HIDE DEF w, n
<1>5. \A k \in 1 .. Len(w) : Allowed(w[k], v) /\ ~IsEnd(w[k])
  BY <1>1, <1>3, <1>4
<1>6. \A j, k \in 1 .. Len(w) : j < k => j \in 1 .. n
  BY <1>1
<1>7. \A j, k \in 1 .. Len(w) : j < k => ~IsRequest(w[j])
  BY <1>1, <1>3, <1>6
<1>8. QED
  BY <1>1, <1>5, <1>7 DEF Sent, w

(* It ends.                                                                *)
LEMMA SentEnd ==
  ASSUME NEW s \in Running, NEW u, NEW v, NEW m, Sent(s, u, v), IsEnd(m)
  PROVE  Sent("EXITED", Append(u, m), v)
<1> DEFINE w == Append(u, m)
           n == Len(u)
<1>1. /\ IsSequence(w) /\ Len(w) = n + 1 /\ n \in Nat /\ w[n + 1] = m
      /\ \A k \in 1 .. n : w[k] = u[k]
  BY Grown DEF Sent
<1>2. s # "EXITED"
  BY DEF Running, WaitingReply, WaitingInput, InRoom
<1>3. \A k \in 1 .. n : Allowed(u[k], v) /\ ~IsEnd(u[k])
  BY <1>2 DEF Sent
<1>3a. \A j, k \in 1 .. n : j < k => ~IsRequest(u[j])
  BY <1>3 DEF Sent
<1>4. \A k \in 1 .. Len(w) : k \in 1 .. n \/ k = n + 1
  BY <1>1
<1>4a. Allowed(m, v)
  BY DEF Allowed
<1> HIDE DEF w, n
<1>5. \A k \in 1 .. Len(w) : Allowed(w[k], v)
  BY <1>1, <1>3, <1>4, <1>4a
<1>6. \A k \in 1 .. Len(w) : IsEnd(w[k]) => k = Len(w)
  BY <1>1, <1>3, <1>4
<1>7. \A j, k \in 1 .. Len(w) : j < k => j \in 1 .. n /\ (k \in 1 .. n \/ k = n + 1)
  BY <1>1
<1>8. \A j, k \in 1 .. Len(w) : IsRequest(w[j]) /\ j < k => IsEnd(w[k])
  BY <1>1, <1>3a, <1>7
<1>9. QED
  BY <1>1, <1>5, <1>6, <1>8 DEF Sent, w

(* The server reads the first message.                                     *)
LEMMA SentRead ==
  ASSUME NEW s, NEW u, NEW v, Sent(s, u, v), u # <<>>
  PROVE  /\ Sent(s, Tail(u), v) /\ Allowed(Head(u), v)
         /\ IsRequest(Head(u)) => \A k \in 1 .. Len(Tail(u)) : IsEnd(Tail(u)[k])
         /\ IsEnd(Head(u)) => Tail(u) = <<>>
<1> DEFINE w == Tail(u)
           h == Head(u)
           n == Len(w)
<1>1. /\ IsSequence(w) /\ n \in Nat /\ Len(u) = n + 1 /\ h = u[1]
      /\ \A k \in 1 .. n : w[k] = u[k + 1]
  BY Beheaded DEF Sent
<1>2. \A k \in 1 .. n : k + 1 \in 1 .. Len(u) /\ 1 < k + 1
  BY <1>1
<1>3. 1 \in 1 .. Len(u)
  BY <1>1
<1> HIDE DEF w, h, n
<1>4. \A k \in 1 .. n : Allowed(w[k], v)
  BY <1>1, <1>2 DEF Sent
<1>5. \A k \in 1 .. n : IsEnd(w[k]) => k = n /\ s = "EXITED"
  <2>1. \A k \in 1 .. n : IsEnd(u[k + 1]) => k + 1 = Len(u) /\ s = "EXITED"
    BY <1>2 DEF Sent
  <2>2. QED
    BY <1>1, <2>1
<1>6. \A j, k \in 1 .. n : IsRequest(w[j]) /\ j < k => IsEnd(w[k])
  <2>1. \A j, k \in 1 .. n : j < k => j + 1 < k + 1
    BY <1>1
  <2>2. \A j, k \in 1 .. n : IsRequest(u[j + 1]) /\ j < k => IsEnd(u[k + 1])
    BY <1>2, <2>1 DEF Sent
  <2>3. QED
    BY <1>1, <2>2
<1>7. Allowed(h, v)
  BY <1>1, <1>3 DEF Sent
<1>8. IsRequest(h) => \A k \in 1 .. n : IsEnd(w[k])
  BY <1>1, <1>2, <1>3 DEF Sent
<1>9. IsEnd(h) => w = <<>>
  <2>1. IsEnd(h) => Len(u) = 1
    BY <1>1, <1>3 DEF Sent
  <2>2. IsEnd(h) => n = 0
    BY <1>1, <2>1
  <2>3. QED
    BY <1>1, <2>2, LengthIsNat DEF n
<1>10. Sent(s, w, v)
  BY <1>1, <1>4, <1>5, <1>6 DEF Sent, n
<1>11. QED
  BY <1>7, <1>8, <1>9, <1>10 DEF w, h, n

(* It has the client elsewhere.                                            *)
LEMMA SentElsewhere ==
  ASSUME NEW s, NEW u, NEW v, NEW w, Sent(s, u, v), \A k \in 1 .. Len(u) : Allowed(u[k], w)
  PROVE  Sent(s, u, w)
BY DEF Sent

(* An orderly end becomes a reset.                                         *)
LEMMA SentProvoked ==
  ASSUME NEW s, NEW u, NEW v, NEW ms, Sent(s, u, v)
  PROVE  /\ Sent(s, Provoked(u, ms), v) /\ Len(Provoked(u, ms)) = Len(u)
         /\ \A k \in 1 .. Len(u) : Provoked(u, ms)[k] = u[k] \/ IsEnd(Provoked(u, ms)[k])
         /\ s # "EXITED" => Provoked(u, ms) = u
<1>1. CASE Provoked(u, ms) = u
  BY <1>1
<1>2. CASE Provoked(u, ms) # u
  <2> DEFINE n == Len(u)
             w == [u EXCEPT ![n] = RST]
  <2>1. u # <<>> /\ u[n] = FIN /\ Provoked(u, ms) = w
    BY <1>2 DEF Provoked
  <2>2. PICK S : u \in Seq(S)
    BY DEF Sent, IsSequence
  <2> DEFINE T == S \cup {RST}
  <2>3. u \in Seq(T) /\ RST \in T
    BY <2>2
  <2> HIDE DEF T
  <2>4. n \in Nat /\ n \in 1 .. n /\ u \in [1 .. n -> T]
    BY <2>1, <2>3
  <2>5. w \in [1 .. n -> T] /\ w[n] = RST /\ \A k \in 1 .. n : k # n => w[k] = u[k]
    BY <2>3, <2>4
  <2>6. w \in Seq(T) /\ Len(w) = n
    BY <2>4, <2>5, RangeIsSequence
  <2>7. IsEnd(RST) /\ IsEnd(u[n]) /\ \A k \in 1 .. n : k < n => k # n
    <3>1. IsEnd(FIN) /\ IsEnd(RST)
      BY DEF IsEnd, FIN, RST
    <3>2. \A k \in 1 .. n : k < n => k # n
      <4> HIDE DEF n
      <4>1. QED
        BY <2>4
    <3>3. QED
      BY <2>1, <3>1, <3>2
  <2>8. s = "EXITED"
    BY <2>4, <2>7 DEF Sent
  <2>9. Allowed(RST, v)
    BY <2>7 DEF Allowed
  <2> HIDE DEF w
  <2>10. IsSequence(w)
    BY <2>6 DEF IsSequence
  <2>11. \A k \in 1 .. n : Allowed(w[k], v)
    BY <2>5, <2>9 DEF Sent
  <2>12. \A k \in 1 .. n : IsEnd(w[k]) => k = n
    BY <2>5, <2>7 DEF Sent
  <2>13. \A j, k \in 1 .. n : IsRequest(w[j]) /\ j < k => IsEnd(w[k])
    <3>1. ~IsRequest(RST)
      BY DEF IsRequest, RST
    <3>2. QED
      BY <2>5, <2>7, <3>1 DEF Sent
  <2> HIDE DEF n
  <2>14. Sent(s, w, v)
    BY <2>6, <2>8, <2>10, <2>11, <2>12, <2>13 DEF Sent
  <2>15. QED
    BY <2>1, <2>5, <2>6, <2>7, <2>8, <2>14 DEF n
<1>3. QED
  BY <1>1, <1>2

(***************************************************************************)
(* What a step does to one client.                                         *)
(***************************************************************************)
LEMMA AgreesRunning ==
  ASSUME NEW s \in Running, NEW u, NEW d, NEW v, Agrees(s, u, d, v)
  PROVE  /\ Sent(s, u, v) /\ \A k \in 1 .. Len(u) : ~IsEnd(u[k])
         /\ \E t \in States : Leads(s, d, t) /\ Fits(t, u, v)
<1>1. s # "EXITED"
  BY DEF Running, WaitingReply, WaitingInput, InRoom
<1>2. QED
  BY <1>1 DEF Agrees, Sent

(* Who is at rest or has the move has asked nothing, and is where the      *)
(* server has it.                                                          *)
LEMMA AgreesStill ==
  ASSUME NEW s \in Running \ Waits, NEW u, NEW d, NEW v, Agrees(s, u, d, v),
         s \in Still \/ s = "WAITING_PLAY_INPUT"
  PROVE  NothingAsked(u) /\ AtRest(v, s) /\ Leads(s, d, s)
<1>1. PICK t \in States : Leads(s, d, t) /\ Fits(t, u, v)
  BY AgreesRunning
<1>2. t = s
  <2>1. CASE s \in Still
    BY <1>1, <2>1, LeadsStill
  <2>2. CASE s = "WAITING_PLAY_INPUT"
    BY <1>1, <2>2, LeadsMove
  <2>3. QED
    BY <2>1, <2>2
<1>3. \A m : WaitsIn(m, t) => t \in Waits
  BY DEF WaitsIn, Waits
<1>4. NothingAsked(u)
  BY <1>1, <1>2, <1>3 DEF Fits, NothingAsked
<1>5. QED
  BY <1>1, <1>2, <1>4 DEF Fits

LEMMA AgreesSeated ==
  ASSUME NEW s \in Seated, NEW u, NEW d, NEW v, Agrees(s, u, d, v)
  PROVE  NothingAsked(u) /\ v \in Seated
<1>1. s \in Running /\ s \in Playing /\ s \in States /\ s \notin Waits
  BY DEF Seated, Playing, Running, WaitingReply, WaitingInput, InRoom, States, Waits
<1>2. PICK t \in States : Leads(s, d, t) /\ Fits(t, u, v)
  BY <1>1, AgreesRunning
<1>3. t \in Playing
  BY <1>1, <1>2, LeadsPlaying
<1>4. t \notin Waits
  BY <1>1, <1>2, LeadsWaiting
<1>5. \A m : WaitsIn(m, t) => t \in Waits
  BY DEF WaitsIn, Waits
<1>6. NothingAsked(u)
  BY <1>2, <1>4, <1>5 DEF Fits, NothingAsked
<1>7. AtRest(v, t)
  BY <1>2, <1>6 DEF Fits
<1>8. QED
  BY <1>3, <1>6, <1>7 DEF AtRest, Playing

(* A request goes out and its answer is awaited.                           *)
LEMMA AgreesAsk ==
  ASSUME NEW s \in Running, NEW r \in Running, NEW u, NEW d, NEW v, Agrees(s, u, d, v),
         NothingAsked(u), NEW m, IsRequest(m), Allowed(m, v), WaitsIn(m, r), Leads(r, d, r)
  PROVE  Agrees(r, Append(u, m), d, v)
<1>1. Sent(s, u, v) /\ ~IsEnd(m) /\ r \in States /\ r # "NOT_STARTED"
  BY DEF Agrees, IsRequest, IsEnd, States, Running, WaitingReply, WaitingInput, InRoom
<1>2. Sent(r, Append(u, m), v)
  BY <1>1, SentMore
<1>3. Fits(r, Append(u, m), v)
  <2>1. /\ Len(Append(u, m)) = Len(u) + 1 /\ Len(u) \in Nat /\ Append(u, m)[Len(u) + 1] = m
        /\ \A k \in 1 .. Len(u) : Append(u, m)[k] = u[k]
    BY <1>1, Grown DEF Sent
  <2>2. PICK w : w = Append(u, m)
    OBVIOUS
  <2>3. \A k \in 1 .. Len(w) : k \in 1 .. Len(u) \/ k = Len(u) + 1
    BY <2>1, <2>2
  <2>4. \A k \in 1 .. Len(w) : IsRequest(w[k]) => w[k] = m
    BY <2>1, <2>2, <2>3 DEF NothingAsked
  <2>5. Len(u) + 1 \in 1 .. Len(w) /\ w[Len(u) + 1] = m
    BY <2>1, <2>2
  <2>6. ~NothingAsked(w)
    BY <2>5 DEF NothingAsked
  <2>7. QED
    BY <2>2, <2>4, <2>6 DEF Fits
<1>4. QED
  BY <1>1, <1>2, <1>3 DEF Agrees

(* Something goes out that is not answered.                                *)
LEMMA AgreesSay ==
  ASSUME NEW s \in Running, NEW r \in Running, NEW u, NEW d, NEW v, Agrees(s, u, d, v),
         NothingAsked(u), NEW m, ~IsRequest(m), ~IsEnd(m), Allowed(m, v),
         NEW t \in States, Leads(r, d, t), AtRest(v, t)
  PROVE  Agrees(r, Append(u, m), d, v)
<1>1. Sent(s, u, v) /\ r \in States /\ r # "NOT_STARTED"
  BY DEF Agrees, States, Running, WaitingReply, WaitingInput, InRoom
<1>2. Sent(r, Append(u, m), v)
  BY <1>1, SentMore
<1>3. Fits(t, Append(u, m), v)
  <2>1. /\ Len(Append(u, m)) = Len(u) + 1 /\ Len(u) \in Nat /\ Append(u, m)[Len(u) + 1] = m
        /\ \A k \in 1 .. Len(u) : Append(u, m)[k] = u[k]
    BY <1>1, Grown DEF Sent
  <2>2. PICK w : w = Append(u, m)
    OBVIOUS
  <2>3. \A k \in 1 .. Len(w) : k \in 1 .. Len(u) \/ k = Len(u) + 1
    BY <2>1, <2>2
  <2>4. \A k \in 1 .. Len(w) : ~IsRequest(w[k])
    BY <2>1, <2>2, <2>3 DEF NothingAsked
  <2>5. QED
    BY <2>2, <2>4 DEF Fits
<1>4. QED
  BY <1>1, <1>2, <1>3 DEF Agrees

(* Only the state changes.                                                 *)
LEMMA AgreesThink ==
  ASSUME NEW s \in Running, NEW r \in Running, NEW u, NEW d, NEW e, NEW v, Agrees(s, u, d, v),
         NEW t \in States, Leads(r, e, t), Fits(t, u, v)
  PROVE  Agrees(r, u, e, v)
<1>1. r \in States /\ r # "NOT_STARTED"
  BY DEF States, Running, WaitingReply, WaitingInput, InRoom
<1>2. Sent(s, u, v) /\ \A k \in 1 .. Len(u) : ~IsEnd(u[k])
  BY AgreesRunning
<1>3. Sent(r, u, v)
  BY <1>2 DEF Sent
<1>4. QED
  BY <1>1, <1>3 DEF Agrees

LEMMA AgreesEnded ==
  ASSUME NEW u, NEW d, NEW v, Sent("EXITED", u, v) PROVE Agrees("EXITED", u, d, v)
<1>1. "EXITED" \in States /\ "EXITED" \notin Running
  BY DEF States, Running, WaitingReply, WaitingInput, InRoom
<1>2. QED
  BY <1>1 DEF Agrees

LEMMA AgreesEnd ==
  ASSUME NEW s \in Running, NEW u, NEW d, NEW e, NEW v, Agrees(s, u, d, v), NEW m, IsEnd(m)
  PROVE  Agrees("EXITED", Append(u, m), e, v)
BY SentEnd, AgreesEnded DEF Agrees

(* A message is received.                                                  *)
LEMMA AgreesReceive ==
  ASSUME NEW s \in Running, NEW u, NEW d, NEW v, Agrees(s, u, d, v), d # <<>>,
         NEW r, \A x : Moves(s, Head(d), x) => r = x
  PROVE  Agrees(r, u, Tail(d), v)
<1>1. PICK t \in States : Leads(s, d, t) /\ Fits(t, u, v)
  BY AgreesRunning
<1>2. PICK x \in States : Moves(s, Head(d), x) /\ Leads(x, Tail(d), t)
  BY <1>1, LeadsFirst
<1>3. r = x /\ r \in Running
  BY <1>2 DEF Moves, Running, WaitingReply, WaitingInput, InRoom, Playing
<1>4. QED
  BY <1>1, <1>2, <1>3, AgreesThink

(* The server is told, of a process that has ended, that it is gone.       *)
EndsGone(u) == u # <<>> /\ u[Len(u)] \in {FIN, RST}
Heard(u, d, ms) == IF EndsGone(u) THEN d ELSE d \o ms

LEMMA GoneEnded ==
  ASSUME NEW s, NEW u, NEW v, Sent(s, u, v), EndsGone(u) PROVE s = "EXITED"
<1>1. IsEnd(FIN) /\ IsEnd(RST)
  BY DEF IsEnd, FIN, RST
<1>2. IsEnd(u[Len(u)])
  BY <1>1 DEF EndsGone
<1>3. Len(u) \in 1 .. Len(u)
  BY LengthIsNat DEF EndsGone, Sent
<1>4. QED
  BY <1>2, <1>3 DEF Sent

(* A request is read and answered.                                         *)
LEMMA AgreesAnswered ==
  ASSUME NEW s, NEW u, NEW d, NEW v, Agrees(s, u, d, v), u # <<>>, IsRequest(Head(u)),
         NEW w, NEW ms, NEW a, WaitsIn(Head(u), a),
         NEW t \in States, Leads(a, ms, t), AtRest(w, t)
  PROVE  Agrees(s, Provoked(Tail(u), ms), Heard(u, d, ms), w)
<1>1. Sent(s, u, v) /\ s \in States /\ s # "NOT_STARTED"
  BY DEF Agrees
<1>2. /\ Sent(s, Tail(u), v) /\ \A k \in 1 .. Len(Tail(u)) : IsEnd(Tail(u)[k])
  BY <1>1, SentRead
<1>3. \A m : IsEnd(m) => Allowed(m, w)
  BY DEF Allowed
<1>4. Sent(s, Tail(u), w)
  BY <1>2, <1>3, SentElsewhere
<1>5. Sent(s, Provoked(Tail(u), ms), w) /\ (s # "EXITED" => Provoked(Tail(u), ms) = Tail(u))
  BY <1>4, SentProvoked
<1>6. CASE s = "EXITED"
  BY <1>5, <1>6, AgreesEnded
<1>7. CASE s # "EXITED"
  <2>1. s \in Running
    BY <1>1, <1>7, RunningStates
  <2>2. ~EndsGone(u)
    BY <1>1, <1>7, GoneEnded
  <2>3. PICK x \in States : Leads(s, d, x) /\ Fits(x, u, v)
    BY <2>1, AgreesRunning
  <2>4. Head(u) = u[1] /\ 1 \in 1 .. Len(u)
    BY <1>1, Beheaded DEF Sent
  <2>5. WaitsIn(Head(u), x)
    BY <2>3, <2>4 DEF Fits
  <2>6. x = a
    BY <2>5 DEF WaitsIn
  <2>7. Leads(s, d \o ms, t)
    BY <2>3, <2>6, LeadsOn
  <2>8. Fits(t, Tail(u), w)
    <3>1. \A k \in 1 .. Len(Tail(u)) : FALSE
      BY <1>2, <1>7 DEF Sent
    <3>2. QED
      BY <3>1 DEF Fits
  <2>9. Heard(u, d, ms) = d \o ms /\ Provoked(Tail(u), ms) = Tail(u)
    BY <1>5, <1>7, <2>2 DEF Heard
  <2>10. Agrees(s, Tail(u), d \o ms, w)
    BY <1>1, <1>4, <2>7, <2>8 DEF Agrees
  <2>11. QED
    BY <2>9, <2>10
<1>8. QED
  BY <1>6, <1>7

(* Something is read that is not answered.                                 *)
LEMMA AgreesTaken ==
  ASSUME NEW s, NEW u, NEW d, NEW v, Agrees(s, u, d, v), u # <<>>,
         ~IsRequest(Head(u))
  PROVE  Agrees(s, Tail(u), d, v)
<1>1. Sent(s, u, v) /\ s \in States /\ s # "NOT_STARTED"
  BY DEF Agrees
<1>2. Sent(s, Tail(u), v)
  BY <1>1, SentRead
<1>3. /\ Head(u) = u[1] /\ Len(Tail(u)) \in Nat /\ Len(u) = Len(Tail(u)) + 1
      /\ \A k \in 1 .. Len(Tail(u)) : Tail(u)[k] = u[k + 1]
  BY <1>1, Beheaded DEF Sent
<1>4. \A t : Fits(t, u, v) => Fits(t, Tail(u), v)
  <2>1. \A k \in 1 .. Len(Tail(u)) : k + 1 \in 1 .. Len(u)
    BY <1>3
  <2>2. \A k \in 1 .. Len(u) : k = 1 \/ (k - 1 \in 1 .. Len(Tail(u)) /\ (k - 1) + 1 = k)
    BY <1>3
  <2>3. NothingAsked(Tail(u)) => NothingAsked(u)
    <3>1. SUFFICES ASSUME NothingAsked(Tail(u)), NEW k \in 1 .. Len(u) PROVE ~IsRequest(u[k])
      BY DEF NothingAsked
    <3>2. CASE k = 1
      BY <1>3, <3>2
    <3>3. CASE k # 1
      <4>1. k - 1 \in 1 .. Len(Tail(u)) /\ (k - 1) + 1 = k
        BY <2>2, <3>3
      <4>2. Tail(u)[k - 1] = u[k]
        BY <1>3, <4>1
      <4>3. QED
        BY <3>1, <4>1, <4>2 DEF NothingAsked
    <3>4. QED
      BY <3>2, <3>3
  <2>4. QED
    BY <1>3, <2>1, <2>3 DEF Fits
<1>5. QED
  BY <1>1, <1>2, <1>4 DEF Agrees

(* Somebody in a room is told something.                                   *)
Tells(v, m, w) == \/ m.type = "MESSAGE" /\ w = v
                  \/ v \in {"IN_ROOM", "IN_GAME"} /\ w \in Seated /\ Moves(v, m, w)

LEMMA AgreesTold ==
  ASSUME NEW s, NEW u, NEW d, NEW v \in Seated, Agrees(s, u, d, v),
         NEW m, NEW w, Tells(v, m, w)
  PROVE  Agrees(s, Provoked(u, <<m>>), Heard(u, d, <<m>>), w)
<1> DEFINE ms == <<m>>
<1>1. Sent(s, u, v) /\ s \in States /\ s # "NOT_STARTED"
  BY DEF Agrees, Seated, Playing
<1>2. w \in Seated
  BY DEF Tells
<1>3. \A k \in 1 .. Len(u) : Allowed(u[k], w)
  <2>1. \A e : Allowed(e, v) => Allowed(e, w)
    BY <1>2 DEF Allowed, Tells, Seated, Playing
  <2>2. QED
    BY <1>1, <2>1 DEF Sent
<1>4. Sent(s, u, w)
  BY <1>1, <1>3, SentElsewhere
<1>5. Sent(s, Provoked(u, ms), w) /\ (s # "EXITED" => Provoked(u, ms) = u)
  BY <1>4, SentProvoked
<1>6. CASE s = "EXITED"
  BY <1>5, <1>6, AgreesEnded
<1>7. CASE s # "EXITED"
  <2>1. s \in Running /\ ~EndsGone(u)
    BY <1>1, <1>7, RunningStates, GoneEnded
  <2>2. PICK x \in States : Leads(s, d, x) /\ Fits(x, u, v)
    BY <2>1, AgreesRunning
  <2>3. \E t \in States : Leads(x, ms, t) /\ Fits(t, u, w)
    <3>1. CASE NothingAsked(u)
      <4>1. x = v
        BY <2>2, <3>1 DEF Fits, AtRest, Seated, Playing
      <4>2. Moves(v, m, w)
        BY DEF Tells, Moves, Seated
      <4>3. Leads(v, ms, w) /\ v \in States /\ w \in States
        <5>1. v \in States /\ w \in States
          BY <1>2 DEF Seated, Playing, States, Running, WaitingReply, WaitingInput, InRoom
        <5>2. QED
          BY <4>2, <5>1, LeadsStraight
      <4>4. Fits(w, u, w)
        BY <1>2, <3>1 DEF Fits, AtRest, NothingAsked
      <4>5. QED
        BY <4>1, <4>3, <4>4
    <3>2. CASE ~NothingAsked(u)
      <4>1. PICK k \in 1 .. Len(u) : IsRequest(u[k])
        BY <3>2 DEF NothingAsked
      <4>2. Allowed(u[k], v) /\ WaitsIn(u[k], x)
        BY <1>1, <2>2, <4>1 DEF Sent, Fits
      <4>3. v = "WAITING_PLAY_INPUT" /\ x = "WAITING_PLAY_ACK"
        BY <4>1, <4>2 DEF Allowed, WaitsIn, IsRequest, IsEnd, Seated, Playing
      <4>4. m.type = "MESSAGE" /\ w = v
        BY <4>3 DEF Tells
      <4>5. Moves(x, m, x)
        BY <4>3, <4>4 DEF Moves, Playing
      <4>6. Leads(x, ms, x)
        BY <4>5, LeadsStraight
      <4>7. Fits(x, u, w)
        BY <2>2, <4>4
      <4>8. QED
        BY <4>6, <4>7
    <3>3. QED
      BY <3>1, <3>2
  <2>4. PICK t \in States : Leads(x, ms, t) /\ Fits(t, u, w)
    BY <2>3
  <2>5. Leads(s, d \o ms, t)
    BY <2>2, <2>4, LeadsOn
  <2>6. Heard(u, d, ms) = d \o ms /\ Provoked(u, ms) = u
    BY <1>5, <1>7, <2>1 DEF Heard
  <2>7. Agrees(s, u, d \o ms, w)
    BY <1>1, <1>4, <2>4, <2>5 DEF Agrees
  <2>8. QED
    BY <2>6, <2>7
<1>8. QED
  BY <1>6, <1>7

(* What is read is the end.                                                *)
LEMMA AgreesGone ==
  ASSUME NEW s, NEW u, NEW d, NEW v, Agrees(s, u, d, v), u # <<>>, IsEnd(Head(u)), NEW w
  PROVE  Agrees(s, u, d, w)
<1>1. Sent(s, u, v) /\ Tail(u) = <<>>
  BY SentRead DEF Agrees
<1>2. Head(u) = u[1] /\ Len(u) = 1
  <2>1. PICK n \in Nat : n = Len(Tail(u)) /\ Len(u) = n + 1
    BY Beheaded DEF Sent, Agrees
  <2>2. n = 0
    BY <1>1, <2>1
  <2>3. Head(u) = u[1]
    BY Beheaded DEF Sent, Agrees
  <2>4. QED
    BY <2>1, <2>2, <2>3
<1>3. \A k \in 1 .. Len(u) : k = 1
  <2>1. Len(u) = 1
    BY <1>2
  <2>2. \A k \in 1 .. 1 : k = 1
    OBVIOUS
  <2>3. QED
    BY <2>1, <2>2
<1>4. \A m : IsEnd(m) => Allowed(m, w)
  BY DEF Allowed
<1>5. Sent(s, u, w)
  BY <1>1, <1>2, <1>3, <1>4, SentElsewhere
<1>6. s = "EXITED"
  <2>1. 1 \in 1 .. Len(u)
    BY <1>2
  <2>2. QED
    BY <1>1, <1>2, <2>1 DEF Sent
<1>7. QED
  BY <1>5, <1>6, AgreesEnded

LEMMA AgreesReset ==
  ASSUME NEW s, NEW u, NEW d, NEW v, Agrees(s, u, d, v), EndsGone(u)
  PROVE  Agrees(s, <<RST>>, d, v)
<1> DEFINE w == <<RST>>
<1>1. s = "EXITED"
  BY GoneEnded DEF Agrees
<1>2. IsSequence(w) /\ Len(w) = 1 /\ w[1] = RST
  <2>1. w \in Seq({RST})
    OBVIOUS
  <2>2. QED
    BY <2>1 DEF IsSequence
<1>3. IsEnd(RST) /\ Allowed(RST, v)
  BY DEF IsEnd, RST, Allowed
<1>4. \A k \in 1 .. 1 : k = 1
  OBVIOUS
<1> HIDE DEF w
<1>5. Sent("EXITED", w, v)
  BY <1>2, <1>3, <1>4 DEF Sent
<1>6. QED
  BY <1>1, <1>5, AgreesEnded DEF w

(***************************************************************************)
(* The steps of the clients.                                               *)
(***************************************************************************)
(* Nobody leaves a room, observes a game, or makes a move that ends one.   *)
OnlyGames == /\ \A p \in Proc : "leave" \notin Commands[p] /\ "spectate" \notin Commands[p]
             /\ "WON" \notin Outcomes /\ "DRAW" \notin Outcomes

WireInv == /\ up = [p \in Proc |-> up[p]] /\ down = [p \in Proc |-> down[p]]
           /\ ClientTypeOK

TalkOf(p, v) == Agrees(state[p], up[p], down[p], v)

Apart(p) == \A q \in Proc : q # p => /\ state'[q] = state[q]
                                    /\ up'[q] = up[q] /\ down'[q] = down[q]

(* A client sends m and enters state r.                                    *)
LEMMA SendsThis ==
  ASSUME WireInv, NEW p \in Proc, NEW m, Sends(p, m), NEW r, Enters(p, r)
  PROVE  /\ Apart(p) /\ up'[p] = Append(up[p], m) /\ down'[p] = down[p] /\ state'[p] = r
         /\ up' = [q \in Proc |-> up'[q]] /\ down' = [q \in Proc |-> down'[q]]
<1>1. up' = [up EXCEPT ![p] = Append(up[p], m)] /\ down' = down
  BY DEF Sends
<1>2. up'[p] = Append(up[p], m) /\ \A q \in Proc : q # p => up'[q] = up[q]
  BY <1>1 DEF WireInv
<1>3. up' = [q \in Proc |-> up'[q]]
  BY <1>1 DEF WireInv
<1>4. state'[p] = r /\ \A q \in Proc : q # p => state'[q] = state[q]
  BY DEF Enters, WireInv, ClientTypeOK
<1>5. QED
  BY <1>1, <1>2, <1>3, <1>4 DEF WireInv, Apart

LEMMA EntersThis ==
  ASSUME WireInv, NEW p \in Proc, UNCHANGED wires, NEW r, Enters(p, r)
  PROVE  /\ Apart(p) /\ up'[p] = up[p] /\ down'[p] = down[p] /\ state'[p] = r
         /\ up' = [q \in Proc |-> up'[q]] /\ down' = [q \in Proc |-> down'[q]]
<1>1. up' = up /\ down' = down
  BY DEF wires
<1>2. state'[p] = r /\ \A q \in Proc : q # p => state'[q] = state[q]
  BY DEF Enters, WireInv, ClientTypeOK
<1>3. QED
  BY <1>1, <1>2 DEF WireInv, Apart

LEMMA HangsUp ==
  ASSUME WireInv, NEW p \in Proc, HangUp(p), Enters(p, "EXITED")
  PROVE  /\ Apart(p) /\ state'[p] = "EXITED"
         /\ \E m : IsEnd(m) /\ up'[p] = Append(up[p], m)
         /\ up' = [q \in Proc |-> up'[q]] /\ down' = [q \in Proc |-> down'[q]]
<1>1. PICK m : IsEnd(m) /\ up' = [up EXCEPT ![p] = Append(up[p], m)]
  <2>1. IsEnd(FIN) /\ IsEnd(RST)
    BY DEF IsEnd, FIN, RST
  <2>2. PICK m : m = IF down[p] = <<>> THEN FIN ELSE RST
    OBVIOUS
  <2>3. up' = [up EXCEPT ![p] = Append(up[p], m)]
    BY <2>2 DEF HangUp
  <2>4. QED
    BY <2>1, <2>2, <2>3
<1>2. up'[p] = Append(up[p], m) /\ \A q \in Proc : q # p => up'[q] = up[q]
  BY <1>1 DEF WireInv
<1>3. up' = [q \in Proc |-> up'[q]]
  BY <1>1 DEF WireInv
<1>4. down' = [down EXCEPT ![p] = <<>>]
  BY DEF HangUp
<1>5. /\ down' = [q \in Proc |-> down'[q]]
      /\ \A q \in Proc : q # p => down'[q] = down[q]
  BY <1>4 DEF WireInv
<1>6. state'[p] = "EXITED" /\ \A q \in Proc : q # p => state'[q] = state[q]
  BY DEF Enters, WireInv, ClientTypeOK
<1>7. QED
  BY <1>1, <1>2, <1>3, <1>5, <1>6 DEF Apart

(* What a step of the program of p, other than its start, may do.          *)
StepOf(p) == /\ Apart(p) /\ up' = [q \in Proc |-> up'[q]] /\ down' = [q \in Proc |-> down'[q]]
             /\ \A v : TalkOf(p, v) => Agrees(state'[p], up'[p], down'[p], v)

LEMMA AsksSomething ==
  ASSUME WireInv, NEW p \in Proc, NEW s, state[p] = s, s \in Still \cap WaitingInput,
         NEW m, Sends(p, m), NEW r, Enters(p, r),
         r \in Running, IsRequest(m), WaitsIn(m, r), \A v : AtRest(v, s) => Allowed(m, v)
  PROVE  StepOf(p)
<1>1. /\ Apart(p) /\ up'[p] = Append(up[p], m) /\ down'[p] = down[p] /\ state'[p] = r
      /\ up' = [q \in Proc |-> up'[q]] /\ down' = [q \in Proc |-> down'[q]]
  BY SendsThis
<1>2. ASSUME NEW v, TalkOf(p, v) PROVE Agrees(r, Append(up[p], m), down[p], v)
  <2>1. s \in Running \ Waits /\ s \in Running /\ s \in Still /\ r \in States
    BY DEF Still, Waits, Running, States
  <2>2. Agrees(s, up[p], down[p], v)
    BY <1>2 DEF TalkOf
  <2>3. NothingAsked(up[p]) /\ AtRest(v, s) /\ Leads(s, down[p], s)
    BY <2>1, <2>2, AgreesStill
  <2>4. down[p] = <<>>
    BY <2>1, <2>3, LeadsStill
  <2>5. Leads(r, down[p], r)
    BY <2>1, <2>4, LeadsNowhere
  <2>6. Allowed(m, v)
    BY <2>3
  <2>7. QED
    BY <2>1, <2>2, <2>3, <2>5, <2>6, AgreesAsk
<1>3. QED
  BY <1>1, <1>2 DEF StepOf

LEMMA EnterNameStep ==
  ASSUME WireInv, NEW p \in Proc, NEW name \in Names[p], EnterName(p, name) PROVE StepOf(p)
<1> DEFINE m == [type |-> "CONNECT", name |-> name]
           s == "CONNECTING"
           r == "WAITING_CONNECTION"
<1>1. state[p] = s /\ Sends(p, m) /\ Enters(p, r)
  BY DEF EnterName, Types
<1>2. s \in Still \cap WaitingInput /\ r \in Running
  BY DEF Still, Waits, Playing, States, Running, WaitingReply, WaitingInput
<1>3. IsRequest(m) /\ WaitsIn(m, r)
  BY DEF IsRequest, WaitsIn
<1>4. \A v : AtRest(v, s) => Allowed(m, v)
  <2>1. name \in AllNames
    BY DEF AllNames
  <2>2. \A v : AtRest(v, s) => v = "NEW"
    BY DEF AtRest, Seated, Playing
  <2>3. QED
    BY <2>1, <2>2 DEF Allowed
<1> HIDE DEF m, s, r
<1>5. QED
  BY <1>1, <1>2, <1>3, <1>4, AsksSomething

LEMMA ChooseCreateStep == ASSUME WireInv, NEW p \in Proc, ChooseCreate(p) PROVE StepOf(p)
<1> DEFINE m == [type |-> "CREATE_ROOM"]
           s == "CONNECTED"
           r == "WAITING_CREATE_ROOM_RESPONSE"
<1>1. state[p] = s /\ Sends(p, m) /\ Enters(p, r)
  BY DEF ChooseCreate, Asks, Types
<1>2. s \in Still \cap WaitingInput /\ r \in Running
  BY DEF Still, Waits, Playing, States, Running, WaitingReply, WaitingInput
<1>3. IsRequest(m) /\ WaitsIn(m, r)
  BY DEF IsRequest, WaitsIn
<1>4. \A v : AtRest(v, s) => Allowed(m, v)
  BY DEF AtRest, Allowed, Seated, Playing
<1> HIDE DEF m, s, r
<1>5. QED
  BY <1>1, <1>2, <1>3, <1>4, AsksSomething

LEMMA EnterRoomToJoinStep ==
  ASSUME WireInv, NEW p \in Proc, NEW id, EnterRoomToJoin(p, id) PROVE StepOf(p)
<1> DEFINE m == [type |-> "JOIN_ROOM", room_id |-> id, spectate |-> FALSE]
           s == "WAITING_JOIN_ROOM_INPUT"
           r == "WAITING_JOIN_ROOM_RESPONSE"
<1>1. state[p] = s /\ Sends(p, m) /\ Enters(p, r)
  BY DEF EnterRoomToJoin, Types
<1>2. s \in Still \cap WaitingInput /\ r \in Running
  BY DEF Still, Waits, Playing, States, Running, WaitingReply, WaitingInput
<1>3. IsRequest(m) /\ WaitsIn(m, r)
  BY DEF IsRequest, WaitsIn
<1>4. \A v : AtRest(v, s) => Allowed(m, v)
  BY DEF AtRest, Allowed, Seated, Playing
<1> HIDE DEF m, s, r
<1>5. QED
  BY <1>1, <1>2, <1>3, <1>4, AsksSomething

LEMMA EnterMoveStep == ASSUME WireInv, NEW p \in Proc, EnterMove(p) PROVE StepOf(p)
<1> DEFINE m == [type |-> "PLAY"]
           s == "WAITING_PLAY_INPUT"
           r == "WAITING_PLAY_ACK"
<1>1. state[p] = s /\ Sends(p, m) /\ Enters(p, r)
  BY DEF EnterMove, Asks, Types
<1>2. s \in Running \ Waits /\ r \in Running /\ s \in Running
  BY DEF Waits, Running, WaitingReply, WaitingInput
<1>3. IsRequest(m) /\ WaitsIn(m, r)
  BY DEF IsRequest, WaitsIn
<1>4. \A v : AtRest(v, s) => Allowed(m, v)
  BY DEF AtRest, Allowed, Seated, Playing
<1> HIDE DEF m
<1>5. /\ Apart(p) /\ up'[p] = Append(up[p], m) /\ down'[p] = down[p] /\ state'[p] = r
      /\ up' = [q \in Proc |-> up'[q]] /\ down' = [q \in Proc |-> down'[q]]
  BY <1>1, SendsThis
<1>6. ASSUME NEW v, TalkOf(p, v) PROVE Agrees(r, Append(up[p], m), down[p], v)
  <2>1. Agrees(s, up[p], down[p], v)
    BY <1>1, <1>6 DEF TalkOf
  <2>2. NothingAsked(up[p]) /\ AtRest(v, s) /\ Leads(s, down[p], s)
    BY <1>2, <2>1, AgreesStill
  <2>3. Leads(r, down[p], r)
    BY <2>2, LeadsMove
  <2>4. Allowed(m, v)
    BY <1>4, <2>2
  <2> HIDE DEF s, r
  <2>5. QED
    BY <1>2, <1>3, <2>1, <2>2, <2>3, <2>4, AgreesAsk
<1>7. QED
  BY <1>5, <1>6 DEF StepOf

LEMMA EnterBioStep == ASSUME WireInv, NEW p \in Proc, EnterBio(p) PROVE StepOf(p)
<1> DEFINE m == [type |-> "SET_BIOGRAPHY"]
           s == "WAITING_BIO_INPUT"
           r == "CONNECTED"
<1>1. state[p] = s /\ Sends(p, m) /\ Enters(p, r)
  BY DEF EnterBio, Types
<1>2. s \in Running \ Waits /\ r \in Running /\ s \in Running /\ s \in Still /\ r \in States
  BY DEF Still, Waits, Playing, States, Running, WaitingReply, WaitingInput
<1>3. ~IsRequest(m) /\ ~IsEnd(m) /\ \A v : Allowed(m, v)
  BY DEF IsRequest, IsEnd, Allowed
<1>4. \A v : AtRest(v, s) => AtRest(v, r)
  BY DEF AtRest, Seated, Playing
<1> HIDE DEF m, s, r
<1>5. /\ Apart(p) /\ up'[p] = Append(up[p], m) /\ down'[p] = down[p] /\ state'[p] = r
      /\ up' = [q \in Proc |-> up'[q]] /\ down' = [q \in Proc |-> down'[q]]
  BY <1>1, SendsThis
<1>6. ASSUME NEW v, TalkOf(p, v) PROVE Agrees(r, Append(up[p], m), down[p], v)
  <2>1. Agrees(s, up[p], down[p], v)
    BY <1>1, <1>6 DEF TalkOf
  <2>2. NothingAsked(up[p]) /\ AtRest(v, s) /\ Leads(s, down[p], s)
    BY <1>2, <2>1, AgreesStill
  <2>3. down[p] = <<>>
    BY <1>2, <2>2, LeadsStill
  <2>4. Leads(r, down[p], r)
    BY <1>2, <2>3, LeadsNowhere
  <2>5. AtRest(v, r)
    BY <1>4, <2>2
  <2>6. QED
    BY <1>2, <1>3, <2>1, <2>2, <2>4, <2>5, AgreesSay
<1>7. QED
  BY <1>5, <1>6 DEF StepOf

LEMMA EnterMessageStep == ASSUME WireInv, NEW p \in Proc, EnterMessage(p) PROVE StepOf(p)
<1> DEFINE m == [type |-> "SEND_MESSAGE"]
           s == state[p]
<1>1. s \in InRoom \cup {"WAITING_PLAY_INPUT"} /\ Sends(p, m) /\ state' = state
  BY DEF EnterMessage, Asks, Types
<1>2. ~IsRequest(m) /\ ~IsEnd(m) /\ \A v \in Seated : Allowed(m, v)
  BY DEF IsRequest, IsEnd, Allowed
<1> HIDE DEF m, s
<1>3. s \in Running /\ (s = "SPECTATING" \/ s \in Seated)
  BY <1>1 DEF InRoom, Seated, Playing, Running, WaitingInput
<1>4. /\ Apart(p) /\ up'[p] = Append(up[p], m) /\ down'[p] = down[p] /\ state'[p] = s
      /\ up' = [q \in Proc |-> up'[q]] /\ down' = [q \in Proc |-> down'[q]]
  <2>1. Enters(p, s)
    BY <1>1 DEF Enters, WireInv, ClientTypeOK, s
  <2>2. QED
    BY <1>1, <2>1, SendsThis
<1>5. ASSUME NEW v, TalkOf(p, v) PROVE Agrees(s, Append(up[p], m), down[p], v)
  <2>1. Agrees(s, up[p], down[p], v)
    BY <1>5 DEF TalkOf, s
  <2>2. s \in Seated
    <3>1. SUFFICES ASSUME s = "SPECTATING" PROVE FALSE
      BY <1>3
    <3>2. s \in Still /\ s \in Running \ Waits
      BY <3>1 DEF Still, States, Playing, Waits, Running, InRoom
    <3>3. AtRest(v, s)
      BY <2>1, <3>2, AgreesStill
    <3>4. QED
      BY <3>1, <3>3 DEF AtRest, Seated, Playing
  <2>3. NothingAsked(up[p]) /\ v \in Seated
    BY <2>1, <2>2, AgreesSeated
  <2>4. Allowed(m, v)
    BY <1>2, <2>3
  <2>5. PICK t \in States : Leads(s, down[p], t) /\ Fits(t, up[p], v)
    BY <1>3, <2>1, AgreesRunning
  <2>6. AtRest(v, t)
    BY <2>3, <2>5 DEF Fits
  <2>7. QED
    BY <1>2, <1>3, <2>1, <2>3, <2>4, <2>5, <2>6, AgreesSay
<1>6. QED
  BY <1>4, <1>5 DEF StepOf

(* Choosing where to go next.                                              *)
LEMMA ChooseStep ==
  ASSUME WireInv, NEW p \in Proc, ChooseJoin(p) \/ ChooseBio(p) PROVE StepOf(p)
<1> DEFINE s == "CONNECTED"
<1>1. PICK r \in {"WAITING_JOIN_ROOM_INPUT", "WAITING_BIO_INPUT"} :
        state[p] = s /\ UNCHANGED wires /\ Enters(p, r)
  BY DEF ChooseJoin, ChooseBio, Asks, Types
<1>2. s \in Running \ Waits /\ r \in Running /\ s \in Running /\ s \in Still /\ r \in States
  BY DEF Still, Waits, Playing, States, Running, WaitingReply, WaitingInput
<1>3. \A v : AtRest(v, s) => AtRest(v, r)
  BY DEF AtRest, Seated, Playing
<1> HIDE DEF s
<1>4. /\ Apart(p) /\ up'[p] = up[p] /\ down'[p] = down[p] /\ state'[p] = r
      /\ up' = [q \in Proc |-> up'[q]] /\ down' = [q \in Proc |-> down'[q]]
  BY <1>1, EntersThis
<1>5. ASSUME NEW v, TalkOf(p, v) PROVE Agrees(r, up[p], down[p], v)
  <2>1. Agrees(s, up[p], down[p], v)
    BY <1>1, <1>5 DEF TalkOf
  <2>2. NothingAsked(up[p]) /\ AtRest(v, s) /\ Leads(s, down[p], s)
    BY <1>2, <2>1, AgreesStill
  <2>3. down[p] = <<>>
    BY <1>2, <2>2, LeadsStill
  <2>4. Leads(r, down[p], r)
    BY <1>2, <2>3, LeadsNowhere
  <2>5. Fits(r, up[p], v)
    BY <1>3, <2>2 DEF Fits, NothingAsked
  <2>6. QED
    BY <1>2, <2>1, <2>4, <2>5, AgreesThink
<1>6. QED
  BY <1>4, <1>5 DEF StepOf

LEMMA CloseStep == ASSUME WireInv, NEW p \in Proc, Close(p) PROVE StepOf(p)
<1>1. state[p] \in Running /\ HangUp(p) /\ Enters(p, "EXITED")
  BY DEF Close, Asks, Types
<1>2. PICK m : IsEnd(m) /\ up'[p] = Append(up[p], m)
  BY <1>1, HangsUp
<1>3. /\ Apart(p) /\ state'[p] = "EXITED"
      /\ up' = [q \in Proc |-> up'[q]] /\ down' = [q \in Proc |-> down'[q]]
  BY <1>1, HangsUp
<1>4. \A v : TalkOf(p, v) => Agrees("EXITED", Append(up[p], m), down'[p], v)
  BY <1>1, <1>2, AgreesEnd DEF TalkOf
<1>5. QED
  BY <1>2, <1>3, <1>4 DEF StepOf

(* To ask for a room to observe one must have chosen to.                   *)
LEMMA NoSpectateStep ==
  ASSUME WireInv, NEW p \in Proc, NEW id, EnterRoomToSpectate(p, id), NEW v, TalkOf(p, v)
  PROVE  FALSE
<1> DEFINE s == "WAITING_SPECTATE_ROOM_INPUT"
<1>1. state[p] = s
  BY DEF EnterRoomToSpectate, Types
<1>2. s \in Running \ Waits /\ s \in Still
  BY DEF Still, Waits, Playing, States, Running, WaitingInput
<1>3. AtRest(v, s)
  BY <1>1, <1>2, AgreesStill DEF TalkOf
<1>4. QED
  BY <1>3 DEF AtRest, Seated, Playing

LEMMA UserStep ==
  ASSUME OnlyGames, WireInv, NEW p \in Proc, UserInput(p), \E v : TalkOf(p, v)
  PROVE  StepOf(p)
<1>1. ASSUME NEW name \in Names[p], EnterName(p, name) PROVE StepOf(p)
  BY <1>1, EnterNameStep
<1>2. ASSUME NEW id \in RoomIds, EnterRoomToJoin(p, id) \/ EnterRoomToSpectate(p, id)
      PROVE  StepOf(p)
  BY <1>2, EnterRoomToJoinStep, NoSpectateStep
<1>3. ~ChooseSpectate(p) /\ ~Leave(p)
  BY DEF OnlyGames, ChooseSpectate, Leave, Asks
<1>4. QED
  BY <1>1, <1>2, <1>3, ChooseCreateStep, ChooseStep, EnterBioStep, EnterMoveStep,
     EnterMessageStep, CloseStep DEF UserInput

(* A handler takes the client where the message was to lead it.            *)
LEMMA HandlesStep ==
  ASSUME WireInv, NEW p \in Proc, NEW type, NEW Reaction, Handles(p, type, Reaction),
         NEW h, h = Head(down[p]),
         \A x : Moves(state[p], h, x) /\ h.type = type =>
           \/ state[p] \in DOMAIN Reaction /\ Reaction[state[p]] = x
           \/ state[p] \notin DOMAIN Reaction /\ state[p] = x
  PROVE  StepOf(p)
<1>1. /\ state[p] \in Running /\ down[p] # <<>> /\ h.type = type /\ up' = up
      /\ down' = [down EXCEPT ![p] = Tail(down[p])]
      /\ state' = [state EXCEPT ![p] = IF @ \in DOMAIN Reaction THEN Reaction[@] ELSE @]
  BY DEF Handles
<1>2. down'[p] = Tail(down[p]) /\ \A q \in Proc : q # p => down'[q] = down[q]
  BY <1>1 DEF WireInv
<1>3. \A q \in Proc : q # p => state'[q] = state[q]
  BY <1>1 DEF WireInv, ClientTypeOK
<1>4. state'[p] = IF state[p] \in DOMAIN Reaction THEN Reaction[state[p]] ELSE state[p]
  BY <1>1 DEF WireInv, ClientTypeOK
<1>5. down' = [q \in Proc |-> down'[q]] /\ up' = [q \in Proc |-> up'[q]]
  BY <1>1 DEF WireInv
<1>6. \A x : Moves(state[p], Head(down[p]), x) => state'[p] = x
  BY <1>1, <1>4
<1>7. \A v : TalkOf(p, v) => Agrees(state'[p], up[p], Tail(down[p]), v)
  BY <1>1, <1>6, AgreesReceive DEF TalkOf
<1>8. QED
  BY <1>1, <1>2, <1>3, <1>5, <1>7 DEF StepOf, Apart

LEMMA ReceiveStep == ASSUME WireInv, NEW p \in Proc, Receive(p) PROVE StepOf(p)
<1>0. PICK h : h = Head(down[p])
  OBVIOUS
<1>1. CASE HandleConnectionSuccessful(p)
  BY <1>0, <1>1, HandlesStep DEF HandleConnectionSuccessful, Moves
<1>2. CASE HandleConnectionRefused(p)
  BY <1>0, <1>2, HandlesStep DEF HandleConnectionRefused, Moves
<1>3. CASE HandleRoomCreationSuccessful(p)
  BY <1>0, <1>3, HandlesStep DEF HandleRoomCreationSuccessful, Moves
<1>4. CASE HandleJoinRoomSuccessful(p)
  BY <1>0, <1>4, HandlesStep DEF HandleJoinRoomSuccessful, Moves
<1>5. CASE HandleJoinRoomRefused(p)
  BY <1>0, <1>5, HandlesStep DEF HandleJoinRoomRefused, Moves
<1>6. CASE HandlePlayed(p)
  BY <1>0, <1>6, HandlesStep DEF HandlePlayed, Moves
<1>7. CASE HandleGameStart(p)
  BY <1>0, <1>7, HandlesStep DEF HandleGameStart, Moves
<1>8. CASE HandleGameStopped(p)
  BY <1>0, <1>8, HandlesStep DEF HandleGameStopped, Moves
<1>9. CASE HandleMessage(p)
  BY <1>0, <1>9, HandlesStep DEF HandleMessage, Moves
<1>10. CASE HandleInvalidPlay(p)
  BY <1>0, <1>10, HandlesStep DEF HandleInvalidPlay, Moves
<1>11. QED
  BY <1>1, <1>2, <1>3, <1>4, <1>5, <1>6, <1>7, <1>8, <1>9, <1>10 DEF Receive

LEMMA StartStep == ASSUME WireInv, NEW p \in Proc, Start(p) PROVE StepOf(p)
<1> DEFINE s == "NOT_STARTED"
           r == "CONNECTING"
           none == <<>>
<1>1. state[p] = s /\ UNCHANGED wires /\ Enters(p, r)
  BY DEF Start, Enters
<1>2. r \in States /\ r \in Running /\ s # "EXITED" /\ AtRest("NEW", r) /\ r # s
  BY DEF States, Running, WaitingInput, AtRest
<1>3. /\ Apart(p) /\ up'[p] = up[p] /\ down'[p] = down[p] /\ state'[p] = r
      /\ up' = [q \in Proc |-> up'[q]] /\ down' = [q \in Proc |-> down'[q]]
  BY <1>1, EntersThis
<1>4. ASSUME NEW v, TalkOf(p, v) PROVE Agrees(r, up[p], down[p], v)
  <2>1. up[p] = none /\ down[p] = none /\ v = "NEW" /\ Sent(s, none, v)
    BY <1>1, <1>4 DEF TalkOf, Agrees
  <2>2. Len(none) = 0
    OBVIOUS
  <2> HIDE DEF s, r, none
  <2>3. Sent(r, none, v) /\ Fits(r, none, v)
    BY <1>2, <2>1, <2>2 DEF Sent, Fits
  <2>4. Leads(r, none, r)
    BY <1>2, LeadsNowhere DEF none
  <2>5. Agrees(r, none, none, v)
    BY <1>2, <2>3, <2>4 DEF Agrees, s
  <2>6. QED
    BY <2>1, <2>5
<1>5. QED
  BY <1>3, <1>4 DEF StepOf

LEMMA ResetStep == ASSUME WireInv, NEW p \in Proc, ResetArrives(p), UNCHANGED clientVars PROVE StepOf(p)
<1>1. /\ EndsGone(up[p]) /\ up' = [up EXCEPT ![p] = <<RST>>] /\ down' = down /\ state' = state
  BY DEF ResetArrives, Reset, EndsGone, clientVars
<1>2. up'[p] = <<RST>> /\ \A q \in Proc : q # p => up'[q] = up[q]
  BY <1>1 DEF WireInv
<1>3. up' = [q \in Proc |-> up'[q]] /\ down' = [q \in Proc |-> down'[q]]
  BY <1>1 DEF WireInv
<1>4. \A v : TalkOf(p, v) => Agrees(state[p], <<RST>>, down[p], v)
  BY <1>1, AgreesReset DEF TalkOf
<1>5. QED
  BY <1>1, <1>2, <1>3, <1>4 DEF StepOf, Apart

(***************************************************************************)
(* Rooms and the people in them, whatever arrays they are kept in: n rooms *)
(* rs, and for each process its socket f, its name nm and the code of the  *)
(* room it is in, pl.                                                      *)
(***************************************************************************)
Held(rs, n, i, j) == i \in 0 .. n - 1 /\ j \in {0, 1} /\ j < rs[i].nb_players

LiveRoom(r) ==
  /\ r.id \in Codes /\ r.nb_players \in {1, 2} /\ r.nb_spectators = 0
  /\ r.is_started \in BOOLEAN /\ (r.is_started <=> r.nb_players = 2)
  /\ r.turn \in {0, 1} /\ (~r.is_started => r.turn = 0)

RoomsOrderly(rs, n) ==
  /\ n \in Nat
  /\ \A i \in 0 .. n - 1 : LiveRoom(rs[i])
  /\ \A i, k \in 0 .. n - 1 : rs[i].id = rs[k].id => i = k

(* A name has one seat.                                                    *)
SeatsDiffer(rs, n) ==
  \A i, j, k, l :
    Held(rs, n, i, j) /\ Held(rs, n, k, l) /\ rs[i].players[j].name = rs[k].players[l].name
      => i = k /\ j = l
SeatsNamed(rs, n) ==
  \A i, j : Held(rs, n, i, j) =>
    rs[i].players[j].name \in AllNames /\ rs[i].players[j].name # Unnamed
NamesOrderly(rs, n) == SeatsDiffer(rs, n) /\ SeatsNamed(rs, n)

(* Whose socket a seat has is in that room and has that name.              *)
SeatsOrderly(rs, n, f, nm, pl) ==
  \A i, j : Held(rs, n, i, j) =>
    \/ rs[i].players[j].id = -1
    \/ \E p \in Proc : /\ f[p] = rs[i].players[j].id /\ f[p] # 0
                       /\ nm[p] = rs[i].players[j].name /\ pl[p] = rs[i].id

(* Who is in a room has a seat, and who is in none has no name of a seat.  *)
PlacesOrderly(rs, n, f, nm, pl) ==
  /\ \A p \in Proc : pl[p] # 0 => \E i, j : Held(rs, n, i, j) /\ rs[i].players[j].id = f[p]
  /\ \A p \in Proc : nm[p] # Unnamed /\ pl[p] = 0 =>
       \A i, j : Held(rs, n, i, j) => rs[i].players[j].name # nm[p]
  /\ \A p \in Proc : nm[p] = Unnamed => pl[p] = 0
  /\ \A p \in Proc : nm[p] # Unnamed => nm[p] \in AllNames

Orderly(rs, n, f, nm, pl) ==
  /\ RoomsOrderly(rs, n) /\ NamesOrderly(rs, n)
  /\ SeatsOrderly(rs, n, f, nm, pl) /\ PlacesOrderly(rs, n, f, nm, pl)

(* One socket and one name each.                                           *)
Distinct(f, nm) ==
  /\ \A p \in Proc : f[p] \in Nat /\ (f[p] = 0 => nm[p] = Unnamed)
  /\ \A p, q \in Proc : f[p] = f[q] /\ f[p] # 0 => p = q
  /\ \A p, q \in Proc : nm[p] = nm[q] /\ nm[p] # Unnamed => p = q

SeatView(r, j) == IF ~r.is_started THEN "IN_ROOM"
                  ELSE IF r.turn = j THEN "WAITING_PLAY_INPUT" ELSE "IN_GAME"

HasView(rs, n, f, nm, pl, p, v) ==
  \/ v = "NEW" /\ nm[p] = Unnamed
  \/ v = "FREE" /\ nm[p] # Unnamed /\ pl[p] = 0
  \/ \E i, j : Held(rs, n, i, j) /\ rs[i].players[j].id = f[p] /\ v = SeatView(rs[i], j)

LEMMA CodesNotZero == \A x \in Codes : x # 0
BY ServerAssumption

LEMMA SeatViews == \A r, j : SeatView(r, j) \in Seated
BY DEF SeatView, Seated, Playing

(* Who holds a seat is known by its name and in its room.                  *)
LEMMA Seating ==
  ASSUME NEW rs, NEW n, NEW f, NEW nm, NEW pl, Orderly(rs, n, f, nm, pl), Distinct(f, nm),
         NEW p \in Proc, NEW i, NEW j, Held(rs, n, i, j), rs[i].players[j].id = f[p]
  PROVE  f[p] # 0 /\ nm[p] = rs[i].players[j].name /\ pl[p] = rs[i].id /\ pl[p] # 0 /\ nm[p] # Unnamed
<1>1. f[p] # -1
  BY DEF Distinct
<1>2. PICK q \in Proc : /\ f[q] = f[p] /\ f[q] # 0
                        /\ nm[q] = rs[i].players[j].name /\ pl[q] = rs[i].id
  BY <1>1 DEF Orderly, SeatsOrderly
<1>3. q = p
  BY <1>2 DEF Distinct
<1>4. rs[i].id \in Codes
  BY DEF Orderly, RoomsOrderly, LiveRoom, Held
<1>5. QED
  BY <1>2, <1>3, <1>4, CodesNotZero DEF Orderly, NamesOrderly, SeatsDiffer, SeatsNamed

LEMMA OneSeat ==
  ASSUME NEW rs, NEW n, NEW f, NEW nm, NEW pl, Orderly(rs, n, f, nm, pl), Distinct(f, nm),
         NEW p \in Proc, NEW i, NEW j, Held(rs, n, i, j), rs[i].players[j].id = f[p],
         NEW k, NEW l, Held(rs, n, k, l), rs[k].players[l].id = f[p]
  PROVE  k = i /\ l = j
<1>1. nm[p] = rs[i].players[j].name
  BY Seating
<1>2. nm[p] = rs[k].players[l].name
  BY Seating
<1>3. rs[i].players[j].name = rs[k].players[l].name
  BY <1>1, <1>2
<1>4. NamesOrderly(rs, n)
  BY DEF Orderly
<1>5. QED
  BY <1>3, <1>4 DEF NamesOrderly, SeatsDiffer, SeatsNamed

LEMMA ViewExists ==
  ASSUME NEW rs, NEW n, NEW f, NEW nm, NEW pl, Orderly(rs, n, f, nm, pl), NEW p \in Proc
  PROVE  \E v : HasView(rs, n, f, nm, pl, p, v)
<1>1. CASE nm[p] = Unnamed
  BY <1>1 DEF HasView
<1>2. CASE nm[p] # Unnamed /\ pl[p] = 0
  BY <1>2 DEF HasView
<1>3. CASE pl[p] # 0
  BY <1>3 DEF HasView, Orderly, PlacesOrderly
<1>4. QED
  BY <1>1, <1>2, <1>3

(* What each view says.                                                    *)
LEMMA ViewNew ==
  ASSUME NEW rs, NEW n, NEW f, NEW nm, NEW pl, Orderly(rs, n, f, nm, pl), Distinct(f, nm),
         NEW p \in Proc, HasView(rs, n, f, nm, pl, p, "NEW")
  PROVE  nm[p] = Unnamed /\ pl[p] = 0
<1>1. "NEW" \notin Seated
  BY DEF Seated, Playing
<1>2. nm[p] = Unnamed
  BY <1>1, SeatViews DEF HasView
<1>3. QED
  BY <1>2 DEF Orderly, PlacesOrderly

LEMMA ViewFree ==
  ASSUME NEW rs, NEW n, NEW f, NEW nm, NEW pl, NEW p, HasView(rs, n, f, nm, pl, p, "FREE")
  PROVE  nm[p] # Unnamed /\ pl[p] = 0
<1>1. "FREE" \notin Seated /\ "FREE" # "NEW"
  BY DEF Seated, Playing
<1>2. QED
  BY <1>1, SeatViews DEF HasView

LEMMA ViewSeated ==
  ASSUME NEW rs, NEW n, NEW f, NEW nm, NEW pl, NEW p, NEW v \in Seated,
         HasView(rs, n, f, nm, pl, p, v)
  PROVE  \E i, j : Held(rs, n, i, j) /\ rs[i].players[j].id = f[p] /\ v = SeatView(rs[i], j)
<1>1. v # "NEW" /\ v # "FREE"
  BY DEF Seated, Playing
<1>2. QED
  BY <1>1 DEF HasView

(***************************************************************************)
(* The changes the server makes.                                           *)
(***************************************************************************)
(* Seats keep their names.                                                 *)
SameNames(rs, n, rs2) ==
  \A i, j : /\ Held(rs2, n, i, j) <=> Held(rs, n, i, j)
            /\ Held(rs, n, i, j) => /\ rs2[i].players[j].name = rs[i].players[j].name
                                    /\ rs2[i].id = rs[i].id

LEMMA NamesStay ==
  ASSUME NEW rs, NEW n, NEW rs2, NamesOrderly(rs, n), SameNames(rs, n, rs2)
  PROVE  NamesOrderly(rs2, n)
BY DEF NamesOrderly, SeatsDiffer, SeatsNamed, SameNames

(* Somebody is accepted.                                                   *)
LEMMA OrderlyAccept ==
  ASSUME NEW rs, NEW n, NEW f, NEW nm, NEW pl, Orderly(rs, n, f, nm, pl), Distinct(f, nm),
         NEW p \in Proc, NEW f2, f[p] = 0, \A q \in Proc : f[q] # f2[p], f2[p] # -1,
         \A q \in Proc : q # p => f2[q] = f[q]
  PROVE  /\ Orderly(rs, n, f2, nm, pl)
         /\ \A q \in Proc : \A v : HasView(rs, n, f2, nm, pl, q, v) => HasView(rs, n, f, nm, pl, q, v)
<1>1. nm[p] = Unnamed /\ pl[p] = 0
  BY DEF Distinct, Orderly, PlacesOrderly
<1>2. SeatsOrderly(rs, n, f2, nm, pl)
  BY DEF Orderly, SeatsOrderly
<1>3. PlacesOrderly(rs, n, f2, nm, pl)
  BY <1>1 DEF Orderly, PlacesOrderly
<1>4. \A i, j : Held(rs, n, i, j) => rs[i].players[j].id # f2[p]
  BY DEF Orderly, SeatsOrderly
<1>5. ASSUME NEW q \in Proc, NEW v, HasView(rs, n, f2, nm, pl, q, v)
      PROVE  HasView(rs, n, f, nm, pl, q, v)
  BY <1>4, <1>5 DEF HasView
<1>6. QED
  BY <1>2, <1>3, <1>5 DEF Orderly

(* Somebody is given a name that nobody and no seat has.                   *)
LEMMA OrderlyNamed ==
  ASSUME NEW rs, NEW n, NEW f, NEW nm, NEW pl, Orderly(rs, n, f, nm, pl), Distinct(f, nm),
         NEW p \in Proc, NEW nm2, nm[p] = Unnamed, nm2[p] \in AllNames, nm2[p] # Unnamed,
         \A i, j : Held(rs, n, i, j) => rs[i].players[j].name # nm2[p],
         \A q \in Proc : q # p => nm2[q] = nm[q]
  PROVE  /\ Orderly(rs, n, f, nm2, pl)
         /\ \A q \in Proc : q # p =>
              \A v : HasView(rs, n, f, nm2, pl, q, v) => HasView(rs, n, f, nm, pl, q, v)
         /\ \A v : HasView(rs, n, f, nm2, pl, p, v) => v = "FREE"
<1>1. pl[p] = 0
  BY DEF Orderly, PlacesOrderly
<1>2. SeatsOrderly(rs, n, f, nm2, pl)
  <2>1. \A i, j : Held(rs, n, i, j) => rs[i].players[j].name # nm[p]
    BY DEF Orderly, NamesOrderly, SeatsDiffer, SeatsNamed
  <2>2. QED
    BY <2>1 DEF Orderly, SeatsOrderly
<1>3. PlacesOrderly(rs, n, f, nm2, pl)
  BY <1>1 DEF Orderly, PlacesOrderly
<1>4. \A i, j : Held(rs, n, i, j) => rs[i].players[j].id # f[p]
  BY <1>1, Seating
<1>5. \A v : HasView(rs, n, f, nm2, pl, p, v) => v = "FREE"
  BY <1>1, <1>4 DEF HasView
<1>6. ASSUME NEW q \in Proc, q # p, NEW v, HasView(rs, n, f, nm2, pl, q, v)
      PROVE  HasView(rs, n, f, nm, pl, q, v)
  BY <1>6 DEF HasView
<1>7. QED
  BY <1>2, <1>3, <1>5, <1>6 DEF Orderly

(* Which of the rooms has started, and whose turn it is, stays.            *)
SameTurns(rs, n, rs2) ==
  \A k \in 0 .. n - 1 : /\ rs2[k].is_started = rs[k].is_started
                        /\ rs2[k].turn = rs[k].turn

LEMMA SameTurnsViews ==
  ASSUME NEW rs, NEW n, NEW rs2, SameTurns(rs, n, rs2), NEW k \in 0 .. n - 1, NEW l
  PROVE  SeatView(rs2[k], l) = SeatView(rs[k], l)
BY DEF SameTurns, SeatView

(* What coming back needs of p, and what it brings.                        *)
Returns(rs, n, f, nm, pl, p, rs2, nm2, pl2, i, j) ==
  /\ Held(rs, n, i, j) /\ RoomsOrderly(rs2, n) /\ SameNames(rs, n, rs2)
  /\ SameTurns(rs, n, rs2) /\ nm[p] = Unnamed /\ f[p] # 0
  /\ nm2[p] = rs[i].players[j].name /\ (\A q \in Proc : nm[q] # nm2[p])
  /\ pl2[p] = rs[i].id /\ (\A q \in Proc : q # p => nm2[q] = nm[q] /\ pl2[q] = pl[q])
  /\ rs2[i].players[j].id = f[p]
  /\ \A k, l : Held(rs, n, k, l) /\ ~(k = i /\ l = j) =>
       rs2[k].players[l].id = rs[k].players[l].id
Returned(rs, n, f, nm, pl, p, rs2, nm2, pl2, i, j) ==
  /\ Orderly(rs2, n, f, nm2, pl2)
  /\ \A q \in Proc : q # p =>
       \A v : HasView(rs2, n, f, nm2, pl2, q, v) => HasView(rs, n, f, nm, pl, q, v)
  /\ \A v : HasView(rs2, n, f, nm2, pl2, p, v) => v = SeatView(rs[i], j)

(* Somebody comes back to the seat (i, j).                                 *)
LEMMA OrderlyRejoin ==
  ASSUME NEW rs, NEW n, NEW f, NEW nm, NEW pl, Orderly(rs, n, f, nm, pl), Distinct(f, nm),
         NEW p \in Proc, NEW rs2, NEW nm2, NEW pl2, NEW i, NEW j,
         Returns(rs, n, f, nm, pl, p, rs2, nm2, pl2, i, j)
  PROVE  Returned(rs, n, f, nm, pl, p, rs2, nm2, pl2, i, j)
<1>a. /\ Held(rs, n, i, j) /\ RoomsOrderly(rs2, n) /\ SameNames(rs, n, rs2)
      /\ SameTurns(rs, n, rs2) /\ nm[p] = Unnamed /\ f[p] # 0
      /\ nm2[p] = rs[i].players[j].name /\ (\A q \in Proc : nm[q] # nm2[p])
      /\ pl2[p] = rs[i].id /\ (\A q \in Proc : q # p => nm2[q] = nm[q] /\ pl2[q] = pl[q])
      /\ rs2[i].players[j].id = f[p]
      /\ \A k, l : Held(rs, n, k, l) /\ ~(k = i /\ l = j) =>
           rs2[k].players[l].id = rs[k].players[l].id
  BY DEF Returns
<1> USE <1>a
<1>1. NamesOrderly(rs2, n)
  BY NamesStay DEF Orderly
<1>2. rs[i].players[j].name # Unnamed /\ rs[i].players[j].name \in AllNames
  BY DEF Orderly, NamesOrderly, SeatsDiffer, SeatsNamed
<1>3. rs[i].id # 0
  BY CodesNotZero DEF Orderly, RoomsOrderly, LiveRoom, Held
<1>4. \A k, l : Held(rs2, n, k, l) <=> Held(rs, n, k, l)
  BY DEF SameNames
<1>5. ASSUME NEW q \in Proc, NEW k, NEW l, Held(rs, n, k, l), rs[k].players[l].id = f[q]
      PROVE  q # p /\ ~(k = i /\ l = j)
  <2>1. nm[q] = rs[k].players[l].name /\ nm[q] # Unnamed
    BY <1>5, Seating
  <2>2. QED
    BY <2>1
<1>6. SeatsOrderly(rs2, n, f, nm2, pl2)
  <2>1. SUFFICES ASSUME NEW k, NEW l, Held(rs, n, k, l), rs2[k].players[l].id # -1
        PROVE  \E q \in Proc : /\ f[q] = rs2[k].players[l].id /\ f[q] # 0
                               /\ nm2[q] = rs2[k].players[l].name /\ pl2[q] = rs2[k].id
    BY <1>4 DEF SeatsOrderly
  <2>2. rs2[k].players[l].name = rs[k].players[l].name /\ rs2[k].id = rs[k].id
    BY <2>1 DEF SameNames
  <2>3. CASE k = i /\ l = j
    BY <2>2, <2>3
  <2>4. CASE ~(k = i /\ l = j)
    <3>1. rs2[k].players[l].id = rs[k].players[l].id
      BY <2>1, <2>4
    <3>2. PICK q \in Proc : /\ f[q] = rs[k].players[l].id /\ f[q] # 0
                            /\ nm[q] = rs[k].players[l].name /\ pl[q] = rs[k].id
      BY <2>1, <3>1 DEF Orderly, SeatsOrderly
    <3>3. q # p
      BY <1>5, <2>1, <3>2
    <3>4. QED
      BY <2>2, <3>1, <3>2, <3>3
  <2>5. QED
    BY <2>3, <2>4
<1>7. PlacesOrderly(rs2, n, f, nm2, pl2)
  <2>1. ASSUME NEW q \in Proc, pl2[q] # 0
        PROVE  \E k, l : Held(rs2, n, k, l) /\ rs2[k].players[l].id = f[q]
    <3>1. CASE q = p
      BY <1>4, <3>1
    <3>2. CASE q # p
      <4>1. PICK k, l : Held(rs, n, k, l) /\ rs[k].players[l].id = f[q]
        BY <2>1, <3>2 DEF Orderly, PlacesOrderly
      <4>2. rs2[k].players[l].id = f[q]
        BY <1>5, <4>1
      <4>3. QED
        BY <1>4, <4>1, <4>2
    <3>3. QED
      BY <3>1, <3>2
  <2>2. ASSUME NEW q \in Proc, nm2[q] # Unnamed, pl2[q] = 0, NEW k, NEW l, Held(rs2, n, k, l)
        PROVE  rs2[k].players[l].name # nm2[q]
    <3>1. q # p
      BY <1>3, <2>2
    <3>2. Held(rs, n, k, l)
      BY <1>4, <2>2
    <3>3. rs[k].players[l].name # nm[q]
      BY <2>2, <3>1, <3>2 DEF Orderly, PlacesOrderly
    <3>4. QED
      BY <3>1, <3>2, <3>3 DEF SameNames
  <2>3. \A q \in Proc : /\ nm2[q] = Unnamed => pl2[q] = 0
                        /\ nm2[q] # Unnamed => nm2[q] \in AllNames
    BY <1>2 DEF Orderly, PlacesOrderly
  <2>4. QED
    BY <2>1, <2>2, <2>3 DEF PlacesOrderly
<1>8. ASSUME NEW q \in Proc, q # p, NEW v, HasView(rs2, n, f, nm2, pl2, q, v)
      PROVE  HasView(rs, n, f, nm, pl, q, v)
  <2>1. CASE \E k, l : Held(rs2, n, k, l) /\ rs2[k].players[l].id = f[q] /\ v = SeatView(rs2[k], l)
    <3>1. PICK k, l : Held(rs2, n, k, l) /\ rs2[k].players[l].id = f[q] /\ v = SeatView(rs2[k], l)
      BY <2>1
    <3>2. Held(rs, n, k, l)
      BY <1>4, <3>1
    <3>3. ~(k = i /\ l = j)
      BY <1>8, <3>1 DEF Distinct
    <3>4. rs[k].players[l].id = f[q]
      BY <3>1, <3>2, <3>3
    <3>5. v = SeatView(rs[k], l)
      BY <3>1, <3>2, SameTurnsViews DEF Held
    <3>6. QED
      BY <3>2, <3>4, <3>5 DEF HasView
  <2>2. QED
    BY <1>8, <2>1 DEF HasView
<1>9. ASSUME NEW v, HasView(rs2, n, f, nm2, pl2, p, v) PROVE v = SeatView(rs[i], j)
  <2>1. PICK k, l : Held(rs2, n, k, l) /\ rs2[k].players[l].id = f[p] /\ v = SeatView(rs2[k], l)
    BY <1>2, <1>3, <1>9 DEF HasView
  <2>2. Held(rs, n, k, l)
    BY <1>4, <2>1
  <2>3. k = i /\ l = j
    BY <1>5, <2>1, <2>2
  <2>4. QED
    BY <2>1, <2>2, <2>3, SameTurnsViews DEF Held
<1>10. QED
  BY <1>1, <1>6, <1>7, <1>8, <1>9 DEF Orderly, Returned

(* Views that may have changed only with the room.                         *)
Keeps(rs, n, f, nm, pl, rs2, q, v) ==
  \/ HasView(rs, n, f, nm, pl, q, v) /\ (v = "NEW" \/ v = "FREE")
  \/ \E k, l : Held(rs, n, k, l) /\ rs[k].players[l].id = f[q] /\ v = SeatView(rs2[k], l)

(* There is one more seat, (a, b); the others stay as they are.            *)
SeatAdded(rs, n, rs2, n2, a, b) ==
  \A k, l : Held(rs2, n2, k, l) <=> Held(rs, n, k, l) \/ (k = a /\ l = b)
SeatsStay(rs, n, rs2) ==
  \A k, l : Held(rs, n, k, l) => /\ rs2[k].players[l].id = rs[k].players[l].id
                                /\ rs2[k].players[l].name = rs[k].players[l].name
                                /\ rs2[k].id = rs[k].id

(* What taking the new seat (a, b) needs of p, and what it brings.         *)
Sits(rs, n, f, nm, pl, p, rs2, n2, pl2, a, b) ==
  /\ RoomsOrderly(rs2, n2) /\ f[p] # 0 /\ nm[p] # Unnamed /\ pl[p] = 0
  /\ pl2[p] = rs2[a].id /\ (\A q \in Proc : q # p => pl2[q] = pl[q])
  /\ SeatAdded(rs, n, rs2, n2, a, b) /\ SeatsStay(rs, n, rs2) /\ ~Held(rs, n, a, b)
  /\ rs2[a].players[b].id = f[p] /\ rs2[a].players[b].name = nm[p]
SitsThere(rs, n, f, nm, pl, p, rs2, n2, pl2, a, b) ==
  /\ Orderly(rs2, n2, f, nm, pl2)
  /\ \A q \in Proc : q # p =>
       \A v : HasView(rs2, n2, f, nm, pl2, q, v) => Keeps(rs, n, f, nm, pl, rs2, q, v)
  /\ \A v : HasView(rs2, n2, f, nm, pl2, p, v) => v = SeatView(rs2[a], b)

(* Somebody who is in no room takes the new seat (a, b).                   *)
LEMMA OrderlySeated ==
  ASSUME NEW rs, NEW n, NEW f, NEW nm, NEW pl, Orderly(rs, n, f, nm, pl), Distinct(f, nm),
         NEW p \in Proc, NEW rs2, NEW n2, NEW pl2, NEW a, NEW b,
         Sits(rs, n, f, nm, pl, p, rs2, n2, pl2, a, b)
  PROVE  SitsThere(rs, n, f, nm, pl, p, rs2, n2, pl2, a, b)
<1>a. /\ RoomsOrderly(rs2, n2) /\ f[p] # 0 /\ nm[p] # Unnamed /\ pl[p] = 0
      /\ pl2[p] = rs2[a].id /\ (\A q \in Proc : q # p => pl2[q] = pl[q])
      /\ SeatAdded(rs, n, rs2, n2, a, b) /\ SeatsStay(rs, n, rs2) /\ ~Held(rs, n, a, b)
      /\ rs2[a].players[b].id = f[p] /\ rs2[a].players[b].name = nm[p]
  BY DEF Sits
<1> USE <1>a
<1>1. \A k, l : Held(rs, n, k, l) => rs[k].players[l].name # nm[p]
  BY DEF Orderly, PlacesOrderly
<1>2. nm[p] \in AllNames
  BY DEF Orderly, PlacesOrderly
<1>3. /\ Held(rs2, n2, a, b)
      /\ \A k, l : Held(rs2, n2, k, l) => Held(rs, n, k, l) \/ (k = a /\ l = b)
  BY DEF SeatAdded
<1>3c. \A k, l : Held(rs, n, k, l) =>
         /\ rs2[k].players[l].id = rs[k].players[l].id
         /\ rs2[k].players[l].name = rs[k].players[l].name
         /\ rs2[k].id = rs[k].id
  BY DEF SeatsStay
<1>3a. rs2[a].id # 0
  BY <1>3, CodesNotZero DEF RoomsOrderly, LiveRoom, Held
<1>3b. \A k, l : Held(rs, n, k, l) => Held(rs2, n2, k, l)
  BY DEF SeatAdded
<1> HIDE DEF SeatAdded
<1>4a. SeatsDiffer(rs2, n2)
  <2>1. SUFFICES ASSUME NEW i, NEW j, NEW k, NEW l, Held(rs2, n2, i, j), Held(rs2, n2, k, l),
               rs2[i].players[j].name = rs2[k].players[l].name
        PROVE  i = k /\ j = l
    BY DEF SeatsDiffer
  <2>2. CASE Held(rs, n, i, j) /\ Held(rs, n, k, l)
    <3>1. rs[i].players[j].name = rs[k].players[l].name
      BY <1>3c, <2>1, <2>2
    <3>2. QED
      BY <2>2, <3>1 DEF Orderly, NamesOrderly, SeatsDiffer
  <2>3. CASE ~Held(rs, n, i, j)
    BY <1>1, <1>3, <1>3c, <2>1, <2>3
  <2>4. CASE ~Held(rs, n, k, l)
    BY <1>1, <1>3, <1>3c, <2>1, <2>4
  <2>5. QED
    BY <2>2, <2>3, <2>4
<1>4b. SeatsNamed(rs2, n2)
  <2>2. ASSUME NEW i, NEW j, Held(rs2, n2, i, j)
        PROVE  rs2[i].players[j].name \in AllNames /\ rs2[i].players[j].name # Unnamed
    <3>1. CASE Held(rs, n, i, j)
      BY <1>3c, <3>1 DEF Orderly, NamesOrderly, SeatsNamed
    <3>2. CASE ~Held(rs, n, i, j)
      BY <1>2, <1>3, <2>2, <3>2
    <3>3. QED
      BY <3>1, <3>2
  <2>3. QED
    BY <2>2 DEF SeatsNamed
<1>4. NamesOrderly(rs2, n2)
  BY <1>4a, <1>4b DEF NamesOrderly
<1>5. ASSUME NEW q \in Proc, NEW k, NEW l, Held(rs, n, k, l), rs[k].players[l].id = f[q]
      PROVE  q # p
  BY <1>5, Seating
<1>6. SeatsOrderly(rs2, n2, f, nm, pl2)
  <2>1. SUFFICES ASSUME NEW k, NEW l, Held(rs2, n2, k, l), rs2[k].players[l].id # -1
        PROVE  \E q \in Proc : /\ f[q] = rs2[k].players[l].id /\ f[q] # 0
                               /\ nm[q] = rs2[k].players[l].name /\ pl2[q] = rs2[k].id
    BY DEF SeatsOrderly
  <2>2. CASE Held(rs, n, k, l)
    <3>1. /\ rs2[k].players[l].id = rs[k].players[l].id
          /\ rs2[k].players[l].name = rs[k].players[l].name /\ rs2[k].id = rs[k].id
      BY <1>3c, <2>2
    <3>2. PICK q \in Proc : /\ f[q] = rs[k].players[l].id /\ f[q] # 0
                            /\ nm[q] = rs[k].players[l].name /\ pl[q] = rs[k].id
      BY <2>1, <2>2, <3>1 DEF Orderly, SeatsOrderly
    <3>3. q # p
      BY <1>1, <2>2, <3>2
    <3>4. QED
      BY <3>1, <3>2, <3>3
  <2>3. CASE ~Held(rs, n, k, l)
    <3>1. k = a /\ l = b
      BY <1>3, <2>1, <2>3
    <3>2. QED
      BY <3>1
  <2>4. QED
    BY <2>2, <2>3
<1>7. PlacesOrderly(rs2, n2, f, nm, pl2)
  <2>1. ASSUME NEW q \in Proc, pl2[q] # 0
        PROVE  \E k, l : Held(rs2, n2, k, l) /\ rs2[k].players[l].id = f[q]
    <3>1. CASE q = p
      BY <1>3, <3>1
    <3>2. CASE q # p
      <4>1. PICK k, l : Held(rs, n, k, l) /\ rs[k].players[l].id = f[q]
        BY <2>1, <3>2 DEF Orderly, PlacesOrderly
      <4>2. Held(rs2, n2, k, l)
        BY <1>3b, <4>1
      <4>3. rs2[k].players[l].id = f[q]
        BY <1>3c, <4>1
      <4>4. QED
        BY <4>2, <4>3
    <3>3. QED
      BY <3>1, <3>2
  <2>2. ASSUME NEW q \in Proc, nm[q] # Unnamed, pl2[q] = 0, NEW k, NEW l, Held(rs2, n2, k, l)
        PROVE  rs2[k].players[l].name # nm[q]
    <3>1. q # p
      BY <1>3a, <2>2
    <3>2. CASE Held(rs, n, k, l)
      <4>1. rs[k].players[l].name # nm[q]
        BY <2>2, <3>1, <3>2 DEF Orderly, PlacesOrderly
      <4>2. QED
        BY <1>3c, <3>2, <4>1
    <3>3. CASE ~Held(rs, n, k, l)
      <4>1. rs2[k].players[l].name = nm[p]
        BY <1>3, <2>2, <3>3
      <4>2. nm[q] # nm[p]
        BY <3>1 DEF Distinct
      <4>3. QED
        BY <4>1, <4>2
    <3>4. QED
      BY <3>2, <3>3
  <2>3. \A q \in Proc : /\ nm[q] = Unnamed => pl2[q] = 0
                        /\ nm[q] # Unnamed => nm[q] \in AllNames
    BY DEF Orderly, PlacesOrderly
  <2>4. QED
    BY <2>1, <2>2, <2>3 DEF PlacesOrderly
<1>8. ASSUME NEW q \in Proc, q # p, NEW v, HasView(rs2, n2, f, nm, pl2, q, v)
      PROVE  Keeps(rs, n, f, nm, pl, rs2, q, v)
  <2>1. CASE \E k, l : Held(rs2, n2, k, l) /\ rs2[k].players[l].id = f[q] /\ v = SeatView(rs2[k], l)
    <3>1. PICK k, l : Held(rs2, n2, k, l) /\ rs2[k].players[l].id = f[q] /\ v = SeatView(rs2[k], l)
      BY <2>1
    <3>2. ~(k = a /\ l = b)
      BY <1>8, <3>1 DEF Distinct
    <3>3. Held(rs, n, k, l)
      BY <1>3, <3>1, <3>2
    <3>4. rs[k].players[l].id = f[q]
      BY <1>3c, <3>1, <3>3
    <3>5. QED
      BY <3>1, <3>3, <3>4 DEF Keeps
  <2>2. QED
    BY <1>8, <2>1 DEF HasView, Keeps
<1>9. ASSUME NEW v, HasView(rs2, n2, f, nm, pl2, p, v) PROVE v = SeatView(rs2[a], b)
  <2>1. PICK k, l : Held(rs2, n2, k, l) /\ rs2[k].players[l].id = f[p] /\ v = SeatView(rs2[k], l)
    BY <1>3a, <1>9 DEF HasView
  <2>2. ~Held(rs, n, k, l)
    BY <1>3c, <1>5, <2>1
  <2>3. k = a /\ l = b
    BY <1>3, <2>1, <2>2
  <2>4. QED
    BY <2>1, <2>3
<1>10. QED
  BY <1>4, <1>6, <1>7, <1>8, <1>9 DEF Orderly, SitsThere

(* The same socket sits in each seat.                                      *)
SameIds(rs, n, rs2) ==
  \A k, l : Held(rs, n, k, l) => rs2[k].players[l].id = rs[k].players[l].id
(* Everybody stays in place, though a room may have changed otherwise.     *)
Remains(rs, n, f, nm, pl, rs2) ==
  /\ Orderly(rs2, n, f, nm, pl)
  /\ \A q \in Proc : \A v : HasView(rs2, n, f, nm, pl, q, v) =>
       Keeps(rs, n, f, nm, pl, rs2, q, v)

(* The seats stay as they are.                                             *)
LEMMA OrderlyTurned ==
  ASSUME NEW rs, NEW n, NEW f, NEW nm, NEW pl, Orderly(rs, n, f, nm, pl),
         NEW rs2, RoomsOrderly(rs2, n), SameNames(rs, n, rs2), SameIds(rs, n, rs2)
  PROVE  Remains(rs, n, f, nm, pl, rs2)
<1> USE DEF SameIds
<1>1. NamesOrderly(rs2, n)
  BY NamesStay DEF Orderly
<1>2. SeatsOrderly(rs2, n, f, nm, pl)
  BY DEF Orderly, SeatsOrderly, SameNames
<1>3. PlacesOrderly(rs2, n, f, nm, pl)
  BY DEF Orderly, PlacesOrderly, SameNames
<1>4. ASSUME NEW q \in Proc, NEW v, HasView(rs2, n, f, nm, pl, q, v)
      PROVE  Keeps(rs, n, f, nm, pl, rs2, q, v)
  BY <1>4 DEF HasView, Keeps, SameNames
<1>5. QED
  BY <1>1, <1>2, <1>3, <1>4 DEF Orderly, Remains

(* Somebody disconnects, and the seat with that socket is vacated.         *)
LEMMA OrderlyLeft ==
  ASSUME NEW rs, NEW n, NEW f, NEW nm, NEW pl, Orderly(rs, n, f, nm, pl), Distinct(f, nm),
         NEW p \in Proc, NEW rs2, NEW f2, NEW nm2, NEW pl2,
         RoomsOrderly(rs2, n), SameNames(rs, n, rs2), SameTurns(rs, n, rs2),
         f[p] # 0, f2[p] = 0, nm2[p] = Unnamed, pl2[p] = 0,
         \A q \in Proc : q # p => f2[q] = f[q] /\ nm2[q] = nm[q] /\ pl2[q] = pl[q],
         \A k, l : Held(rs, n, k, l) =>
           /\ rs[k].players[l].id = f[p] => rs2[k].players[l].id = -1
           /\ rs[k].players[l].id # f[p] => rs2[k].players[l].id = rs[k].players[l].id
  PROVE  /\ Orderly(rs2, n, f2, nm2, pl2)
         /\ \A q \in Proc : q # p =>
              \A v : HasView(rs2, n, f2, nm2, pl2, q, v) => HasView(rs, n, f, nm, pl, q, v)
<1>1. NamesOrderly(rs2, n)
  BY NamesStay DEF Orderly
<1>2. \A k, l : Held(rs2, n, k, l) <=> Held(rs, n, k, l)
  BY DEF SameNames
<1>3. \A q \in Proc : q # p => f[q] # f[p]
  BY DEF Distinct
<1>4. SeatsOrderly(rs2, n, f2, nm2, pl2)
  <2>1. SUFFICES ASSUME NEW k, NEW l, Held(rs, n, k, l), rs2[k].players[l].id # -1
        PROVE  \E q \in Proc : /\ f2[q] = rs2[k].players[l].id /\ f2[q] # 0
                               /\ nm2[q] = rs2[k].players[l].name /\ pl2[q] = rs2[k].id
    BY <1>2 DEF SeatsOrderly
  <2>2. rs2[k].players[l].name = rs[k].players[l].name /\ rs2[k].id = rs[k].id
    BY <2>1 DEF SameNames
  <2>3. rs[k].players[l].id # f[p] /\ rs2[k].players[l].id = rs[k].players[l].id
    BY <2>1
  <2>4. PICK q \in Proc : /\ f[q] = rs[k].players[l].id /\ f[q] # 0
                          /\ nm[q] = rs[k].players[l].name /\ pl[q] = rs[k].id
    BY <2>1, <2>3 DEF Orderly, SeatsOrderly
  <2>5. q # p
    BY <2>3, <2>4
  <2>6. QED
    BY <2>2, <2>3, <2>4, <2>5
<1>5. PlacesOrderly(rs2, n, f2, nm2, pl2)
  <2>1. ASSUME NEW q \in Proc, pl2[q] # 0
        PROVE  \E k, l : Held(rs2, n, k, l) /\ rs2[k].players[l].id = f2[q]
    <3>1. q # p
      BY <2>1
    <3>2. PICK k, l : Held(rs, n, k, l) /\ rs[k].players[l].id = f[q]
      BY <2>1, <3>1 DEF Orderly, PlacesOrderly
    <3>3. rs2[k].players[l].id = f2[q]
      BY <1>3, <3>1, <3>2
    <3>4. QED
      BY <1>2, <3>2, <3>3
  <2>2. ASSUME NEW q \in Proc, nm2[q] # Unnamed, pl2[q] = 0, NEW k, NEW l, Held(rs2, n, k, l)
        PROVE  rs2[k].players[l].name # nm2[q]
    <3>1. q # p /\ Held(rs, n, k, l)
      BY <1>2, <2>2
    <3>2. rs[k].players[l].name # nm[q]
      BY <2>2, <3>1 DEF Orderly, PlacesOrderly
    <3>3. QED
      BY <3>1, <3>2 DEF SameNames
  <2>3. \A q \in Proc : /\ nm2[q] = Unnamed => pl2[q] = 0
                        /\ nm2[q] # Unnamed => nm2[q] \in AllNames
    BY DEF Orderly, PlacesOrderly
  <2>4. QED
    BY <2>1, <2>2, <2>3 DEF PlacesOrderly
<1>6. ASSUME NEW q \in Proc, q # p, NEW v, HasView(rs2, n, f2, nm2, pl2, q, v)
      PROVE  HasView(rs, n, f, nm, pl, q, v)
  <2>1. CASE \E k, l : Held(rs2, n, k, l) /\ rs2[k].players[l].id = f2[q] /\ v = SeatView(rs2[k], l)
    <3>1. PICK k, l : Held(rs2, n, k, l) /\ rs2[k].players[l].id = f2[q] /\ v = SeatView(rs2[k], l)
      BY <2>1
    <3>2. Held(rs, n, k, l) /\ f2[q] = f[q] /\ f[q] # -1
      BY <1>2, <1>6, <3>1 DEF Distinct
    <3>3. rs[k].players[l].id = f[q]
      BY <3>1, <3>2
    <3>4. v = SeatView(rs[k], l)
      BY <3>1, <3>2, SameTurnsViews DEF Held
    <3>5. QED
      BY <3>2, <3>3, <3>4 DEF HasView
  <2>2. QED
    BY <1>6, <2>1 DEF HasView
<1>7. QED
  BY <1>1, <1>4, <1>5, <1>6 DEF Orderly

(***************************************************************************)
(* What the server writes.                                                 *)
(***************************************************************************)
Gathers(f, p, out, l) ==
  /\ f[0] = <<>> /\ \A k \in 1 .. l : f[k] = f[k - 1] \o MessageTo(p, out[k])
  /\ MessagesTo(p, out) = f[l]

LEMMA Gathered ==
  ASSUME NEW p, NEW out, NEW l \in Nat, Len(out) = l
  PROVE  \E f : Gathers(f, p, out, l)
<1> DEFINE S == {out[k].msg : k \in 1 .. l}
           X == Seq(S)
           F == [e \in X \X (1 .. l) |-> e[1] \o MessageTo(p, out[e[2]])]
           none == <<>>
<1>1. none \in X
  OBVIOUS
<1>2. \A k \in 1 .. l : MessageTo(p, out[k]) \in X
  <2>1. ASSUME NEW k \in 1 .. l PROVE MessageTo(p, out[k]) \in X
    <3>1. out[k].msg \in S
      OBVIOUS
    <3> HIDE DEF S
    <3>2. <<out[k].msg>> \in X
      BY <3>1
    <3>3. QED
      BY <1>1, <3>2 DEF MessageTo
  <2>2. QED
    BY <2>1
<1> HIDE DEF S
<1>3. \A h \in X : \A k \in 1 .. l : h \o MessageTo(p, out[k]) \in X
  BY <1>2
<1>4. IsStep(F, X, l)
  BY <1>3 DEF IsStep
<1> HIDE DEF F, none, X
<1>5. PICK g : IsRun(g, none, F, X, l)
  BY <1>1, <1>4, Recursion
<1>6. g \in [0 .. l -> X] /\ g[0] = none /\ \A k \in 1 .. l : g[k] = F[<<g[k - 1], k>>]
  BY <1>5 DEF IsRun
<1>7. ASSUME NEW k \in 1 .. l PROVE g[k] = g[k - 1] \o MessageTo(p, out[k])
  <2>1. g[k - 1] \in X
    BY <1>6
  <2>2. F[<<g[k - 1], k>>] = g[k - 1] \o MessageTo(p, out[k])
    BY <2>1 DEF F
  <2>3. QED
    BY <1>6, <2>2
<1>8. g = [n \in 0 .. l |-> IF n = 0 THEN <<>> ELSE g[n - 1] \o MessageTo(p, out[n])]
  <2>1. \A n \in 0 .. l : g[n] = IF n = 0 THEN <<>> ELSE g[n - 1] \o MessageTo(p, out[n])
    <3>1. \A n \in 0 .. l : n # 0 => n \in 1 .. l
      OBVIOUS
    <3>2. QED
      BY <1>6, <1>7, <3>1 DEF none
  <2>2. QED
    BY <1>6, <2>1
<1>9. PICK f : f = CHOOSE e : e = [n \in 0 .. l |-> IF n = 0 THEN <<>>
                                                    ELSE e[n - 1] \o MessageTo(p, out[n])]
  OBVIOUS
<1>10. f = [n \in 0 .. l |-> IF n = 0 THEN <<>> ELSE f[n - 1] \o MessageTo(p, out[n])]
  BY <1>8, <1>9
<1>11. MessagesTo(p, out) = f[l]
  BY <1>9 DEF MessagesTo
<1>12. f[0] = <<>>
  BY <1>10
<1>12a. ASSUME NEW k \in 1 .. l PROVE f[k] = f[k - 1] \o MessageTo(p, out[k])
  <2>1. k \in 0 .. l /\ k # 0
    OBVIOUS
  <2>2. QED
    BY <1>10, <2>1
<1>13. QED
  BY <1>11, <1>12, <1>12a DEF Gathers

LEMMA NoMessages == \A p : MessagesTo(p, <<>>) = <<>>
<1> DEFINE out == <<>>
<1>1. Len(out) = 0
  OBVIOUS
<1> HIDE DEF out
<1>2. ASSUME NEW p PROVE MessagesTo(p, out) = <<>>
  <2>1. PICK f : Gathers(f, p, out, 0)
    BY <1>1, Gathered
  <2>2. QED
    BY <2>1 DEF Gathers
<1>3. QED
  BY <1>2 DEF out

LEMMA MessageToIs == \A p, e : MessageTo(p, e) = <<>> \/ MessageTo(p, e) = <<e.msg>>
BY DEF MessageTo

LEMMA OneMessage ==
  ASSUME NEW p, NEW out, Len(out) = 1 PROVE MessagesTo(p, out) = MessageTo(p, out[1])
<1>1. PICK f : Gathers(f, p, out, 1)
  BY Gathered
<1>2. f[1] = <<>> \o MessageTo(p, out[1]) /\ MessagesTo(p, out) = f[1]
  <2>1. 1 \in 1 .. 1 /\ 1 - 1 = 0
    OBVIOUS
  <2>2. f[1] = f[0] \o MessageTo(p, out[1])
    BY <1>1, <2>1 DEF Gathers
  <2>3. QED
    BY <1>1, <2>2 DEF Gathers
<1>3. QED
  BY <1>2, MessageToIs

LEMMA TwoMessages ==
  ASSUME NEW p, NEW out, Len(out) = 2
  PROVE  MessagesTo(p, out) = MessageTo(p, out[1]) \o MessageTo(p, out[2])
<1>1. PICK f : Gathers(f, p, out, 2)
  BY Gathered
<1>2. f[1] = <<>> \o MessageTo(p, out[1]) /\ f[2] = f[1] \o MessageTo(p, out[2])
  <2>1. 1 \in 1 .. 2 /\ 1 - 1 = 0 /\ 2 \in 1 .. 2 /\ 2 - 1 = 1
    OBVIOUS
  <2>2. f[1] = f[0] \o MessageTo(p, out[1]) /\ f[2] = f[1] \o MessageTo(p, out[2])
    BY <1>1, <2>1 DEF Gathers
  <2>3. QED
    BY <1>1, <2>2 DEF Gathers
<1>3. MessagesTo(p, out) = f[2]
  BY <1>1 DEF Gathers
<1>4. f[1] = MessageTo(p, out[1])
  BY <1>2, MessageToIs
<1>5. QED
  BY <1>2, <1>3, <1>4

LEMMA ThreeMessages ==
  ASSUME NEW p, NEW out, Len(out) = 3
  PROVE  MessagesTo(p, out) = (MessageTo(p, out[1]) \o MessageTo(p, out[2])) \o MessageTo(p, out[3])
<1>1. PICK f : Gathers(f, p, out, 3)
  BY Gathered
<1>2. /\ f[1] = <<>> \o MessageTo(p, out[1]) /\ f[2] = f[1] \o MessageTo(p, out[2])
      /\ f[3] = f[2] \o MessageTo(p, out[3])
  <2>1. /\ 1 \in 1 .. 3 /\ 1 - 1 = 0 /\ 2 \in 1 .. 3 /\ 2 - 1 = 1
        /\ 3 \in 1 .. 3 /\ 3 - 1 = 2
    OBVIOUS
  <2>2. /\ f[1] = f[0] \o MessageTo(p, out[1]) /\ f[2] = f[1] \o MessageTo(p, out[2])
        /\ f[3] = f[2] \o MessageTo(p, out[3])
    BY <1>1, <2>1 DEF Gathers
  <2>3. QED
    BY <1>1, <2>2 DEF Gathers
<1>3. MessagesTo(p, out) = f[3]
  BY <1>1 DEF Gathers
<1>4. f[1] = MessageTo(p, out[1])
  BY <1>2, MessageToIs
<1>5. QED
  BY <1>2, <1>3, <1>4

(* Who gets the message of one entry of a list.                            *)
LEMMA Addressed ==
  ASSUME NEW p, NEW sock, NEW m
  PROVE  /\ fd[p] # 0 /\ sock = fd[p] => MessageTo(p, To(sock, m)) = <<m>>
         /\ fd[p] = 0 \/ sock # fd[p] => MessageTo(p, To(sock, m)) = <<>>
BY DEF MessageTo, To

(* What a process has sent and is sent after a message of `reader`'s was   *)
(* handled and ms was written to it.                                       *)
Told(q, reader, ms) ==
  /\ up'[q] = Provoked(IF q = reader THEN Tail(up[q]) ELSE up[q], ms)
  /\ down'[q] = Heard(up[q], down[q], ms)

LEMMA Delivered ==
  ASSUME NEW reader, NEW out, Emit(reader, out), status = "up", status' = "up"
  PROVE  /\ \A q \in Proc : Told(q, reader, MessagesTo(q, out))
         /\ up' = [q \in Proc |-> up'[q]] /\ down' = [q \in Proc |-> down'[q]]
<1>1. Deliver(reader, out)
  BY DEF Emit
<1>2. \A q \in Proc :
        /\ up'[q] = Provoked(IF q = reader THEN Tail(up[q]) ELSE up[q], MessagesTo(q, out))
        /\ down'[q] = Written(down[q], q, MessagesTo(q, out))
  BY <1>1 DEF Deliver
<1>3. \A q, d, ms : Written(d, q, ms) = Heard(up[q], d, ms)
  BY DEF Written, Heard, Gone, EndsGone
<1>4. QED
  BY <1>1, <1>2, <1>3 DEF Deliver, Told

(* Nothing is said to somebody.                                            *)
LEMMA AgreesSpared ==
  ASSUME NEW s, NEW u, NEW d, NEW v, Agrees(s, u, d, v)
  PROVE  Agrees(s, Provoked(u, <<>>), Heard(u, d, <<>>), v)
<1> DEFINE none == <<>>
<1>1. Provoked(u, <<>>) = u
  BY DEF Provoked
<1>2. Len(none) = 0
  OBVIOUS
<1>3. s = "NOT_STARTED" => d \o none = <<>>
  BY DEF Agrees
<1> HIDE DEF none
<1>4. s = "NOT_STARTED" => Heard(u, d, none) = <<>>
  BY <1>3 DEF Heard, Agrees, none
<1>5. ASSUME s \in Running PROVE \E t \in States : Leads(s, Heard(u, d, none), t) /\ Fits(t, u, v)
  <2>1. PICK t \in States : Leads(s, d, t) /\ Fits(t, u, v)
    BY <1>5 DEF Agrees
  <2>2. Leads(t, none, t)
    BY LeadsNowhere DEF none
  <2>3. Leads(s, d \o none, t)
    BY <2>1, <2>2, LeadsOn
  <2>4. QED
    BY <2>1, <2>3 DEF Heard
<1>6. Agrees(s, u, Heard(u, d, none), v)
  BY <1>4, <1>5 DEF Agrees
<1>7. QED
  BY <1>1, <1>6 DEF none

(***************************************************************************)
(* The names and the rooms the server has the processes under.             *)
(***************************************************************************)
SlotOf(p) == CHOOSE c \in Connected : clients[c].sock = fd[p]
names  == [p \in Proc |-> IF fd[p] = 0 THEN Unnamed ELSE clients[SlotOf(p)].name]
places == [p \in Proc |-> IF fd[p] = 0 THEN 0 ELSE clients[SlotOf(p)].room_id]

KnownInv ==
  /\ \A p \in Proc : fd[p] = 0 => names[p] = Unnamed /\ places[p] = 0
  /\ \A p \in Proc : fd[p] # 0 => \E c \in Connected : clients[c].sock = fd[p]
  /\ \A p \in Proc : \A c \in Connected : clients[c].sock = fd[p] =>
       fd[p] # 0 /\ names[p] = clients[c].name /\ places[p] = clients[c].room_id

LEMMA Known == SocketsInv => KnownInv
<1> SUFFICES ASSUME SocketsInv PROVE KnownInv
  OBVIOUS
<1>1. \A p \in Proc : fd[p] = 0 => names[p] = Unnamed /\ places[p] = 0
  BY DEF names, places
<1>2. ASSUME NEW p \in Proc, NEW c \in Connected, clients[c].sock = fd[p]
      PROVE  fd[p] # 0 /\ names[p] = clients[c].name /\ places[p] = clients[c].room_id
  <2>1. fd[p] # 0
    BY <1>2 DEF SocketsInv, SlotsInv
  <2>2. SlotOf(p) \in Connected /\ clients[SlotOf(p)].sock = fd[p]
    BY <1>2 DEF SlotOf
  <2>3. SlotOf(p) = c
    BY <1>2, <2>2 DEF SocketsInv, SlotsInv
  <2>4. QED
    BY <2>1, <2>3 DEF names, places
<1>3. QED
  BY <1>1, <1>2 DEF KnownInv, SocketsInv, SlotsInv

LEMMA KnownNext == SocketsInv' => KnownInv'
BY Known, PTL

LEMMA Functions ==
  /\ names = [p \in Proc |-> names[p]] /\ places = [p \in Proc |-> places[p]]
  /\ names' = [p \in Proc |-> names'[p]] /\ places' = [p \in Proc |-> places'[p]]
BY DEF names, places

LEMMA SameNames2 ==
  (\A p \in Proc : names'[p] = names[p]) => names' = names
BY Functions

LEMMA SamePlaces ==
  (\A p \in Proc : places'[p] = places[p]) => places' = places
BY Functions

LEMMA DistinctNow ==
  ASSUME SocketsInv, UniqueNames PROVE Distinct(fd, names)
<1>1. KnownInv
  BY Known
<1>2a. \A p \in Proc : fd[p] \in Nat
  BY DEF SocketsInv, FdInv
<1>2. \A p \in Proc : fd[p] \in Nat /\ (fd[p] = 0 => names[p] = Unnamed)
  BY <1>1, <1>2a DEF KnownInv
<1>3. ASSUME NEW p \in Proc, NEW q \in Proc, names[p] = names[q], names[p] # Unnamed PROVE p = q
  <2>1. fd[p] # 0 /\ fd[q] # 0
    BY <1>1, <1>3 DEF KnownInv
  <2>2. PICK c \in Connected : clients[c].sock = fd[p]
    BY <1>1, <2>1 DEF KnownInv
  <2>3. PICK d \in Connected : clients[d].sock = fd[q]
    BY <1>1, <2>1 DEF KnownInv
  <2>4. names[p] = clients[c].name /\ names[q] = clients[d].name
    BY <1>1, <2>2, <2>3 DEF KnownInv
  <2>5. c = d
    BY <1>3, <2>4 DEF UniqueNames, Unnamed
  <2>6. QED
    BY <2>1, <2>2, <2>3, <2>5 DEF SocketsInv, SlotsInv
<1>4. QED
  BY <1>2, <1>3 DEF Distinct, SocketsInv, SlotsInv

(* One slot of the array is written, and keeps its socket.                 *)
LEMMA SlotWritten ==
  ASSUME SocketsInv, SocketsInv', NEW c \in Connected, NEW p \in Proc, fd[p] = clients[c].sock,
         fd' = fd, nb_clients' = nb_clients, clients'[c].sock = clients[c].sock,
         \A d \in Connected : d # c => clients'[d] = clients[d]
  PROVE  /\ names'[p] = clients'[c].name /\ places'[p] = clients'[c].room_id
         /\ \A q \in Proc : q # p => names'[q] = names[q] /\ places'[q] = places[q]
<1>1. KnownInv /\ KnownInv' /\ Connected' = Connected
  BY Known, KnownNext DEF Connected
<1>2. names'[p] = clients'[c].name /\ places'[p] = clients'[c].room_id
  BY <1>1 DEF KnownInv
<1>3. ASSUME NEW q \in Proc, q # p PROVE names'[q] = names[q] /\ places'[q] = places[q]
  <2>1. CASE fd[q] = 0
    BY <1>1, <2>1 DEF KnownInv
  <2>2. CASE fd[q] # 0
    <3>1. PICK d \in Connected : clients[d].sock = fd[q]
      BY <1>1, <2>2 DEF KnownInv
    <3>2. fd[q] # fd[p]
      BY <1>3, <2>2 DEF SocketsInv, SlotsInv
    <3>3. d # c /\ clients'[d] = clients[d]
      BY <3>1, <3>2
    <3>4. QED
      BY <1>1, <3>1, <3>3 DEF KnownInv
  <2>3. QED
    BY <2>1, <2>2
<1>4. QED
  BY <1>2, <1>3

LEMMA SlotsKept ==
  ASSUME UNCHANGED <<clients, nb_clients, fd>> PROVE names' = names /\ places' = places
BY DEF names, places, SlotOf, Connected

(* Somebody is accepted.                                                   *)
LEMMA SlotAdded ==
  ASSUME SocketsInv, SocketsInv', Accept
  PROVE  /\ names' = names /\ places' = places
         /\ \E p \in Proc : /\ fd[p] = 0 /\ \A q \in Proc : fd[q] # fd'[p]
                            /\ fd'[p] # -1 /\ \A q \in Proc : q # p => fd'[q] = fd[q]
<1> DEFINE p == Head(backlog)
<1>1. KnownInv /\ KnownInv'
  BY Known, KnownNext
<1>2. PICK s \in 1 .. MAX_CLIENTS : /\ \A q \in Proc : fd[q] # s
                                  /\ fd' = [fd EXCEPT ![p] = s]
                                  /\ clients'[nb_clients].sock = s
  BY NewSocket
<1>3. backlog \in Seq(Proc) /\ backlog # <<>> /\ \A k \in 1 .. Len(backlog) : fd[backlog[k]] = 0
  BY DEF SocketsInv, BacklogInv, Accept
<1>4. p = backlog[1] /\ 1 \in 1 .. Len(backlog)
  BY <1>3
<1>4a. p \in Proc
  BY <1>3, <1>4
<1>4b. fd[p] = 0
  BY <1>3, <1>4
<1> HIDE DEF p
<1>5. fd'[p] = s /\ \A q \in Proc : q # p => fd'[q] = fd[q]
  BY <1>2, <1>4a DEF SocketsInv, FdInv
<1>6. s # -1 /\ s # 0
  BY <1>2
<1>7. nb_clients \in Connected' /\ \A d \in Connected : d \in Connected' /\ clients'[d] = clients[d]
  <2>1. /\ nb_clients \in Nat /\ nb_clients' = nb_clients + 1
        /\ Connected = 0 .. nb_clients - 1 /\ Connected' = 0 .. nb_clients' - 1
    BY Counters, AcceptAppends DEF SocketsInv, Connected
  <2>2. \A d \in Connected : clients'[d] = clients[d]
    BY AcceptAppends DEF SocketsInv
  <2>3. QED
    BY <2>1, <2>2
<1>8. clients'[nb_clients].name = Unnamed /\ clients'[nb_clients].room_id = 0
  <2>1. clients'[nb_clients].name = Unnamed /\ nb_clients \in ClientSlots
    BY AcceptAppends DEF SocketsInv
  <2> DEFINE new == [sock |-> Min({w \in Sockets : ~Open(w)}), name |-> "", room_id |-> 0,
                     biography |-> ""]
  <2>2. clients' = [clients EXCEPT ![nb_clients] = new]
    BY DEF Accept
  <2>3. new.room_id = 0
    OBVIOUS
  <2> HIDE DEF new
  <2>4. clients'[nb_clients] = new
    BY <2>1, <2>2 DEF SocketsInv, ArrayInv
  <2>5. QED
    BY <2>1, <2>3, <2>4
<1>9. names'[p] = names[p] /\ places'[p] = places[p]
  <2>1. names[p] = Unnamed /\ places[p] = 0
    BY <1>1, <1>4a, <1>4b DEF KnownInv
  <2>2. clients'[nb_clients].sock = fd'[p]
    BY <1>2, <1>5
  <2>3. names'[p] = Unnamed /\ places'[p] = 0
    BY <1>1, <1>4a, <1>7, <1>8, <2>2 DEF KnownInv
  <2>4. QED
    BY <2>1, <2>3
<1>10. ASSUME NEW q \in Proc, q # p PROVE names'[q] = names[q] /\ places'[q] = places[q]
  <2>1. fd'[q] = fd[q]
    BY <1>5, <1>10
  <2>2. CASE fd[q] = 0
    BY <1>1, <2>1, <2>2 DEF KnownInv
  <2>3. CASE fd[q] # 0
    <3>1. PICK d \in Connected : clients[d].sock = fd[q]
      BY <1>1, <2>3 DEF KnownInv
    <3>2. d \in Connected' /\ clients'[d] = clients[d]
      BY <1>7, <3>1
    <3>3. QED
      BY <1>1, <2>1, <3>1, <3>2 DEF KnownInv
  <2>4. QED
    BY <2>2, <2>3
<1>11. \A q \in Proc : names'[q] = names[q] /\ places'[q] = places[q]
  BY <1>9, <1>10
<1>12. names' = names /\ places' = places
  BY <1>11, SameNames2, SamePlaces
<1>13. QED
  BY <1>2, <1>4a, <1>4b, <1>5, <1>6, <1>12

(* Somebody disconnects.                                                   *)
LEMMA SlotRemoved ==
  ASSUME SocketsInv, SocketsInv', NEW c \in ClientSlots, Disconnect(c),
         NEW p \in Proc, fd[p] = clients[c].sock
  PROVE  /\ fd'[p] = 0 /\ names'[p] = Unnamed /\ places'[p] = 0
         /\ \A q \in Proc : q # p => /\ fd'[q] = fd[q]
                                    /\ names'[q] = names[q] /\ places'[q] = places[q]
<1>1. KnownInv /\ KnownInv' /\ c \in Connected
  BY Known, KnownNext DEF Disconnect, Reads
<1>2. p = Process(c) /\ fd' = [fd EXCEPT ![p] = 0]
  BY <1>1, ProcessOfSlot DEF Disconnect
<1>3. fd'[p] = 0 /\ \A q \in Proc : q # p => fd'[q] = fd[q]
  BY <1>2 DEF SocketsInv, FdInv
<1>4. names'[p] = Unnamed /\ places'[p] = 0
  BY <1>1, <1>3 DEF KnownInv
<1>5. ASSUME NEW q \in Proc, q # p PROVE names'[q] = names[q] /\ places'[q] = places[q]
  <2>1. fd'[q] = fd[q]
    BY <1>3, <1>5
  <2>2. CASE fd[q] = 0
    BY <1>1, <2>1, <2>2 DEF KnownInv
  <2>3. CASE fd[q] # 0
    <3>1. PICK k \in Connected' : clients'[k].sock = fd'[q]
      BY <1>1, <2>1, <2>3 DEF KnownInv
    <3>2. Shifted(c, k) \in Connected /\ clients'[k] = clients[Shifted(c, k)]
      BY <3>1, DisconnectShifts DEF SocketsInv
    <3>3. PICK d \in Connected : d = Shifted(c, k) /\ clients'[k] = clients[d]
      BY <3>2
    <3>4. names'[q] = clients[d].name /\ places'[q] = clients[d].room_id
      BY <1>1, <3>1, <3>3 DEF KnownInv
    <3>5. names[q] = clients[d].name /\ places[q] = clients[d].room_id
      BY <1>1, <2>1, <3>1, <3>3 DEF KnownInv
    <3>6. QED
      BY <3>4, <3>5
  <2>4. QED
    BY <2>2, <2>3
<1>6. QED
  BY <1>3, <1>4, <1>5

(***************************************************************************)
(* The array of rooms, and what is known of everybody while the server     *)
(* runs.                                                                   *)
(***************************************************************************)
IsSeat(s) == s = [id |-> s.id, name |-> s.name, client_index |-> s.client_index]
IsRoom(r) ==
  /\ r = [id |-> r.id, nb_players |-> r.nb_players, nb_spectators |-> r.nb_spectators,
          players |-> r.players, is_started |-> r.is_started, turn |-> r.turn]
  /\ r.players = [k \in Seats |-> r.players[k]]
  /\ \A k \in Seats : IsSeat(r.players[k])

RoomArrayInv ==
  /\ nb_rooms \in 0 .. MAX_ROOMS
  /\ rooms = [i \in RoomSlots |-> rooms[i]]
  /\ \A i \in RoomSlots : IsRoom(rooms[i])

View(p, v) == HasView(rooms, nb_rooms, fd, names, places, p, v)
Tracked    == \A p \in Proc : \A v : View(p, v) => TalkOf(p, v)
OrderInv   == Orderly(rooms, nb_rooms, fd, names, places)

LiveInv == status = "up" => WireInv /\ RoomArrayInv /\ OrderInv /\ Tracked
TalkInv == SocketsInv /\ UniqueNames /\ LiveInv

(* What a step must bring about for q to be where the server has it at v.  *)
Heeds(q, v) == Agrees(state'[q], up'[q], down'[q], v)
Wired       == up = [q \in Proc |-> up[q]] /\ down = [q \in Proc |-> down[q]]

(* The client p in slot c is at v, and m is the message of its that is     *)
(* handled.                                                                *)
Reader(c, p, m, v) ==
  /\ c \in Connected /\ c \in ClientSlots
  /\ p \in Proc /\ p = Process(c) /\ fd[p] = clients[c].sock /\ fd[p] # 0
  /\ names[p] = clients[c].name /\ places[p] = clients[c].room_id
  /\ up[p] # <<>> /\ m = Head(up[p]) /\ m = Message(c)
  /\ View(p, v) /\ TalkOf(p, v) /\ \A x : View(p, x) => Allowed(m, x)

LEMMA Reading ==
  ASSUME TalkInv, NEW c, NEW type, Reads(c, type)
  PROVE  status = "up" /\ \E p, m, v : Reader(c, p, m, v) /\ m.type = type
<1>1. /\ status = "up" /\ c \in Connected /\ up[Process(c)] # <<>>
      /\ Message(c).type = type /\ Message(c) = Head(up[Process(c)])
  BY DEF Reads, Message
<1>2. SocketsInv /\ WireInv /\ OrderInv /\ Tracked /\ KnownInv
  BY <1>1, Known DEF TalkInv, LiveInv
<1>3. PICK p \in Proc : p = Process(c) /\ fd[p] = clients[c].sock /\ fd[p] # 0
  BY <1>1, <1>2, ProcessOfSlot
<1>4. names[p] = clients[c].name /\ places[p] = clients[c].room_id
  BY <1>1, <1>2, <1>3 DEF KnownInv
<1>5. PICK v : View(p, v)
  BY <1>2, ViewExists DEF OrderInv, View
<1>6. TalkOf(p, v)
  BY <1>2, <1>5 DEF Tracked
<1>8. ASSUME NEW x, View(p, x) PROVE Allowed(Head(up[p]), x)
  <2>1. Sent(state[p], up[p], x)
    BY <1>2, <1>8 DEF Tracked, TalkOf, Agrees
  <2>2. QED
    BY <1>1, <1>3, <2>1, SentRead
<1>9. c \in ClientSlots
  BY <1>1, <1>2, ConnectedSlots DEF SocketsInv
<1>10. PICK m : m = Head(up[p])
  OBVIOUS
<1>11. Reader(c, p, m, v)
  BY <1>1, <1>3, <1>4, <1>5, <1>6, <1>8, <1>9, <1>10 DEF Reader
<1>12. QED
  BY <1>1, <1>3, <1>10, <1>11

LEMMA Ordered ==
  ASSUME TalkInv, status = "up"
  PROVE  /\ Orderly(rooms, nb_rooms, fd, names, places) /\ Distinct(fd, names)
         /\ RoomArrayInv /\ WireInv /\ SocketsInv
BY DistinctNow DEF TalkInv, LiveInv, OrderInv

(* Nobody but the sender is told anything.                                 *)
LEMMA Spared ==
  ASSUME NEW p \in Proc, NEW q \in Proc, q # p, UNCHANGED clientVars, Told(q, p, <<>>),
         NEW v, TalkOf(q, v)
  PROVE  Heeds(q, v)
<1>1. state' = state
  BY DEF clientVars
<1>2. up'[q] = Provoked(up[q], <<>>) /\ down'[q] = Heard(up[q], down[q], <<>>)
  BY DEF Told
<1>3. QED
  BY <1>1, <1>2, AgreesSpared DEF TalkOf, Heeds

(* A request is answered.                                                  *)
LEMMA Answering ==
  ASSUME NEW c, NEW p, NEW m, NEW v, Reader(c, p, m, v), UNCHANGED clientVars,
         IsRequest(m), NEW a, WaitsIn(m, a),
         NEW ms, NEW t \in States, Leads(a, ms, t), NEW w, AtRest(w, t), Told(p, p, ms)
  PROVE  Heeds(p, w)
<1>1. /\ Agrees(state[p], up[p], down[p], v) /\ up[p] # <<>> /\ m = Head(up[p])
      /\ state' = state
  BY DEF Reader, TalkOf, clientVars
<1>2. up'[p] = Provoked(Tail(up[p]), ms) /\ down'[p] = Heard(up[p], down[p], ms)
  BY DEF Told
<1>3. QED
  BY <1>1, <1>2, AgreesAnswered DEF Heeds

(* What is not a request is taken note of, and the sender is told nothing. *)
LEMMA Taking ==
  ASSUME NEW c, NEW p, NEW m, NEW v, Reader(c, p, m, v), UNCHANGED clientVars,
         ~IsRequest(m), Told(p, p, <<>>)
  PROVE  Heeds(p, v)
<1>1. /\ Agrees(state[p], up[p], down[p], v) /\ up[p] # <<>> /\ m = Head(up[p])
      /\ state' = state
  BY DEF Reader, TalkOf, clientVars
<1>2. up'[p] = Provoked(Tail(up[p]), <<>>) /\ down'[p] = Heard(up[p], down[p], <<>>)
  BY DEF Told
<1>3. Agrees(state[p], Tail(up[p]), down[p], v)
  BY <1>1, AgreesTaken
<1>4. Agrees(state[p], Provoked(Tail(up[p]), <<>>), Heard(Tail(up[p]), down[p], <<>>), v)
  BY <1>3, AgreesSpared
<1>5. Agrees(state[p], Tail(up[p]), Heard(up[p], down[p], <<>>), v)
  <2>1. Agrees(state[p], up[p], Heard(up[p], down[p], <<>>), v)
    <3>1. Agrees(state[p], Provoked(up[p], <<>>), Heard(up[p], down[p], <<>>), v)
      BY <1>1, AgreesSpared
    <3>2. Provoked(up[p], <<>>) = up[p]
      BY DEF Provoked
    <3>3. QED
      BY <3>1, <3>2
  <2>2. QED
    BY <1>1, <2>1, AgreesTaken
<1>6. Provoked(Tail(up[p]), <<>>) = Tail(up[p])
  BY DEF Provoked
<1>7. QED
  BY <1>1, <1>2, <1>5, <1>6 DEF Heeds

(* Somebody in a room is told m, which takes it from v to w.               *)
LEMMA Telling ==
  ASSUME NEW p \in Proc, NEW q \in Proc, q # p, UNCHANGED clientVars,
         NEW v \in Seated, TalkOf(q, v), NEW m, NEW w, Tells(v, m, w), Told(q, p, <<m>>)
  PROVE  Heeds(q, w)
<1>1. state' = state
  BY DEF clientVars
<1>2. up'[q] = Provoked(up[q], <<m>>) /\ down'[q] = Heard(up[q], down[q], <<m>>)
  BY DEF Told
<1>3. Agrees(state[q], up[q], down[q], v)
  BY DEF TalkOf
<1>4. Agrees(state[q], Provoked(up[q], <<m>>), Heard(up[q], down[q], <<m>>), w)
  BY <1>3, AgreesTold
<1>5. QED
  BY <1>1, <1>2, <1>4 DEF Heeds

(* A reply to the sender of a request alone.                               *)
LEMMA Replying ==
  ASSUME NEW c, NEW p, NEW m, NEW v, Reader(c, p, m, v), UNCHANGED clientVars,
         SocketsInv, status = "up", status' = "up", NEW r, Emit(p, <<To(clients[c].sock, r)>>),
         IsRequest(m), NEW a \in States, WaitsIn(m, a),
         NEW t \in States, Moves(a, r, t), NEW w, AtRest(w, t)
  PROVE  /\ Heeds(p, w) /\ Wired'
         /\ \A q \in Proc : q # p => \A x : TalkOf(q, x) => Heeds(q, x)
<1> DEFINE e   == To(clients[c].sock, r)
           out == <<e>>
<1>1. Len(out) = 1 /\ out[1] = e
  OBVIOUS
<1>2. p \in Proc /\ fd[p] = clients[c].sock /\ fd[p] # 0
  BY DEF Reader
<1>3. Emit(p, out)
  OBVIOUS
<1> HIDE DEF out
<1>4. \A q \in Proc : MessagesTo(q, out) = MessageTo(q, e)
  BY <1>1, OneMessage
<1>5. MessageTo(p, e) = <<r>>
  BY <1>2, Addressed
<1>6. ASSUME NEW q \in Proc, q # p PROVE MessageTo(q, e) = <<>>
  <2>1. fd[q] = 0 \/ fd[q] # clients[c].sock
    BY <1>2, <1>6 DEF SocketsInv, SlotsInv
  <2>2. QED
    BY <2>1, Addressed
<1>7. Wired' /\ \A q \in Proc : Told(q, p, MessagesTo(q, out))
  BY <1>3, Delivered DEF Wired
<1>8. Told(p, p, <<r>>)
  BY <1>2, <1>4, <1>5, <1>7
<1>9. Leads(a, <<r>>, t)
  BY LeadsStraight
<1>10. Heeds(p, w)
  BY <1>8, <1>9, Answering
<1>11. ASSUME NEW q \in Proc, q # p, NEW x, TalkOf(q, x) PROVE Heeds(q, x)
  <2>1. Told(q, p, <<>>)
    BY <1>4, <1>6, <1>7, <1>11
  <2>2. QED
    BY <1>2, <1>11, <2>1, Spared
<1>12. QED
  BY <1>7, <1>10, <1>11

=============================================================================
