-------------------------------- MODULE Lobby --------------------------------
(***************************************************************************)
(* What the server promises about rooms, whatever arrays it keeps them in: *)
(* a room has a code and one or two players, known by their names; the     *)
(* game starts when the second one enters; players move in turn; nobody    *)
(* plays in two rooms; a room is opened and closed on its own.             *)
(***************************************************************************)
EXTENDS Naturals, Sequences

CONSTANTS Names, Codes

VARIABLE open   \* the rooms that exist

Room(id, players, turn) == [id |-> id, players |-> players, turn |-> turn]

InRoom(name, r) == \E k \in 1 .. Len(r.players) : r.players[k] = name
Free(name)      == \A r \in open : ~InRoom(name, r)

LobbyInit == open = {}

Create(name, id) ==
  /\ Free(name) /\ \A r \in open : r.id # id
  /\ open' = open \cup {Room(id, <<name>>, 0)}

Join(name, r) ==
  /\ r \in open /\ Len(r.players) = 1 /\ Free(name)
  /\ open' = (open \ {r}) \cup {Room(r.id, Append(r.players, name), 0)}

Move(r) ==
  /\ r \in open /\ Len(r.players) = 2
  /\ open' = (open \ {r}) \cup {Room(r.id, r.players, 1 - r.turn)}

Close(r) == r \in open /\ open' = open \ {r}

LobbyNext == \/ \E name \in Names, id \in Codes : Create(name, id)
             \/ \E r \in open : Move(r) \/ Close(r) \/ \E name \in Names : Join(name, r)

LobbySpec == LobbyInit /\ [][LobbyNext]_open
=============================================================================
