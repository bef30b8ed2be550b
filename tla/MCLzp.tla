-------------------------------- MODULE MCLzp --------------------------------
(***************************************************************************)
(* TLC instance of Lzp: a table of four entries whose hash shifts by one   *)
(* bit, so that contexts collide as they do in the code, masks of Group    *)
(* bits, and every input of up to MaxLen bytes.                            *)
(***************************************************************************)
EXTENDS Lzp, Bitwise

CONSTANT MaxLen

MCHASH(h, c) == ((2 * h) ^^ c) % 4
MCMask == 0 .. 2 ^ Group - 1
MCBit(m, k) == (m \div 2 ^ k) % 2 = 1
MCSetBit(m, k) == IF MCBit(m, k) THEN m ELSE m + 2 ^ k
MCInputs == UNION {[1 .. n -> Byte] : n \in 0 .. MaxLen}
=============================================================================
