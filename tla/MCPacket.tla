------------------------------ MODULE MCPacket ------------------------------
(* An instance of Packet for TLC: the program's constants divided down until     *)
(* every guard that holds of them still holds, and the two tight ones are tight.  *)
EXTENDS Packet

\* One token, two with a remainder lost, and one that a member cannot pay for.
RawLengths == {4, 7, 14}

Lines == [k \in 1..5 |-> 3 * k]
Mixed == <<2, 3, 6, 8, 9, 12, 13>>
Short == <<1>>
Replies == {Lines, Mixed, Short}
=============================================================================
