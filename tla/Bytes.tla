--------------------------------- MODULE Bytes ---------------------------------
(***************************************************************************)
(* Byte strings as the emitter (emit.rs) and the linker (link.rs) write    *)
(* them.  A byte is 0 .. B-1 and an address two bytes, low one first.      *)
(* Offsets count from 0 as in the code, so offset p is element p + 1.      *)
(***************************************************************************)
EXTENDS Integers, Sequences

CONSTANT B  \* values of a byte (256)

(* A name X_Suffix is X with one fault in it: mutation runs put it in      *)
(* place of X to show that a property would notice.                        *)

Byte == 0 .. B - 1
Le_BigEndian(n) == <<(n \div B) % B, n % B>>
Le(n) == <<n % B, (n \div B) % B>>
MaxAddress == B * B - 1

(* The address stored at offset p.                                         *)
Address(b, p) == b[p + 1] + B * b[p + 2]

(* copy_from_slice at offset p.                                            *)
Overwrite(b, p, new) ==
  [i \in 1 .. Len(b) |-> IF i \in p + 1 .. p + Len(new) THEN new[i - p] ELSE b[i]]
==============================================================================
