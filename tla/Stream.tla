-------------------------------- MODULE Stream --------------------------------
(***************************************************************************)
(* A TCP connection as its reader sees it: bytes in order, of which recv   *)
(* returns as many as have arrived, at most what was asked for.  How many  *)
(* bytes have arrived is not kept: any number of those in flight may have  *)
(* when recv is called, and `arrived` says only whether select reports the *)
(* socket as readable.                                                     *)
(***************************************************************************)
EXTENDS Codec

END == -1      \* the end of the stream: its sender is gone

(* Nothing follows END.                                                    *)
Ended(s)   == s # <<>> /\ s[Len(s)] = END
Flowing(s) == IF Ended(s) THEN Front(s) ELSE s

(* What recv(.., size) may return, the stream being readable.              *)
Received(s, size) ==
  {SubSeq(s, 1, k) : k \in (IF size = 0 \/ Head(s) = END THEN {0}
                            ELSE 1 .. Min({size, Len(Flowing(s))}))}

(* What is left of the stream.                                             *)
Rest(s, got) == SubSeq(s, Len(got) + 1, Len(s))

(* Whether more than what was read has arrived.                            *)
MoreArrived(rest) == IF rest = <<>> THEN {FALSE} ELSE BOOLEAN

(* A short read: something came, but less than was asked for.              *)
IsShort(got, size) == got # <<>> /\ Len(got) < size

(* A buffer after bytes were put at its start.                             *)
Put(buf, bytes) ==
  [k \in DOMAIN buf |-> IF k < Len(bytes) THEN bytes[k + 1] ELSE buf[k]]

(* Mutant: a length and a type are read at once.                           *)
LengthBytesAndType == 3

(* What the first recv of a message asks for.                              *)
LengthBytes == 2

(* buffer[n] = 0                                                           *)
Terminate(buf, n) == [buf EXCEPT ![n] = 0]
=============================================================================
