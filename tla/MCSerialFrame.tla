----------------------------- MODULE MCSerialFrame -----------------------------
(***************************************************************************)
(* Instances of SerialFrame for TLC: bytes of three bits, of which the     *)
(* lower four values are escaped, as the 16 lower values of the code are.  *)
(***************************************************************************)
EXTENDS SerialFrame

\* No payload, and one that looks like a special character; the longest header
\* that is accepted and one that is not, with all their bytes escaped.
MCShort == { [type |-> 6 * Base + End, data |-> <<>>],
             [type |-> 4 * Base + 5, data |-> <<Start>>] }
MCLong == { [type |-> 5, data |-> <<7, 0>>],
            [type |-> 5, data |-> <<7, 0, 3>>],
            [type |-> 5, data |-> <<1, 2, 3, 1>>] }
MCMessages == MCShort \cup MCLong

\* The checksum of the first is the first byte of the second.
MCStale == { [type |-> 6, data |-> <<>>], [type |-> 6 * Base + 7, data |-> <<>>] }

\* Its frame is accepted as another one when its start is lost and noise, a start
\* character and the byte 5, comes instead.
MCShifted == { [type |-> 4 * Base, data |-> <<Start>>] }
=============================================================================
