--------------------------- MODULE AspsmsProvider ---------------------------
(***************************************************************************)
(* The number under which Aspsms knows a recipient: AspsmsProvider.ToInt    *)
(* folds the sixteen bytes of the message's reference into an int, each     *)
(* moved half a byte further than the one before.  C# takes a shift         *)
(* distance modulo the width of the int and drops what does not fit into    *)
(* it, and so does the sum.                                                *)
(*                                                                         *)
(* Half a byte has 16 values in the program; an int has eight halves.       *)
(***************************************************************************)
EXTENDS Naturals

CONSTANT Half       \* bound: the values of half a byte

ASSUME HalfAssumption == Half \in Nat \ {0, 1}

ByteValues == 0..Half * Half - 1

(* The values of some halves of a byte.                                    *)
Power[halves \in 0..8] == IF halves = 0 THEN 1 ELSE Half * Power[halves - 1]

IntRange == Power[8]

Positions == 0..15

(* Plausible fault: a distance beyond the width shifts everything out.     *)
ShiftLeft_NotWrapped(byte, halves) ==
  IF halves >= 8 THEN 0 ELSE (byte * Power[halves]) % IntRange

(* byte << distance, for a distance of so many halves of a byte.           *)
ShiftLeft(byte, halves) == (byte * Power[halves % 8]) % IntRange

(* The loop over the bytes, with the sum so far.                           *)
ToInt(guid) ==
  LET sum[n \in 0..16] ==
        IF n = 0 THEN 0
        ELSE (sum[n - 1] + ShiftLeft(guid[n - 1], n - 1)) % IntRange
  IN  sum[16]

(* References to vary: all bytes alike, and rising ones.                   *)
Guids ==
  {[i \in Positions |-> (a * i + b) % (Half * Half)] :
     a \in {0, 1}, b \in ByteValues}

(* Whether byte i of a reference may become v without another number.      *)
Same(guid, i, v) ==
  \/ v = guid[i]
  \/ i \in {7, 15} /\ v % Half = guid[i] % Half

(* Of two references that differ in one byte, Aspsms gets two numbers,      *)
(* unless the byte is the eighth or the last and only its upper half        *)
(* differs; and it gets one number for two references in which bytes eight  *)
(* places apart have changed places.                                       *)
SeparatedByToInt(guid) ==
  /\ \A i \in Positions, v \in ByteValues :
       ToInt([guid EXCEPT ![i] = v]) = ToInt(guid) <=> Same(guid, i, v)
  /\ \A i \in 0..7 :
       ToInt([guid EXCEPT ![i] = guid[i + 8], ![i + 8] = guid[i]]) = ToInt(guid)
=============================================================================
