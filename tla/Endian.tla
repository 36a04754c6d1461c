-------------------------------- MODULE Endian --------------------------------
(***************************************************************************)
(* sl::endian (src/endian/endian.hpp) on hosts of either byte order.  An   *)
(* unsigned integer is the function from digit positions, the least        *)
(* significant one first, to its digits.                                   *)
(***************************************************************************)
EXTENDS Naturals

CONSTANTS
    Width,  \* sizeof the integer
    Base    \* values of a byte

ASSUME EndianAssumption ==
    /\ Width \in Nat \ {0}
    /\ Base \in Nat \ {0, 1}

Hosts == {"little", "big"}

Integer == [1..Width -> 0..(Base - 1)]

Swap(d) == [i \in 1..Width |-> d[Width + 1 - i]]

\* The bytes of an integer in a host's memory, lowest address first, and the
\* integer that bytes in memory are.
Store(d, host) == IF host = "little" THEN d ELSE Swap(d)
Load(bytes, host) == IF host = "little" THEN bytes ELSE Swap(bytes)

\* Mutant: the conversion is left out.
to_little_left_out(d, host) == d

to_little(d, host) == IF host = "little" THEN d ELSE Swap(d)

from_little(d, host) == IF host = "little" THEN d ELSE Swap(d)
=============================================================================
