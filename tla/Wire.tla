------------------------------- MODULE Wire --------------------------------
(***************************************************************************)
(* Packet fields as src/src/headers.h lays them out: bytes in the order in *)
(* which they are on the wire.  The program (controller.c) never converts  *)
(* a field with bpf_ntohs or bpf_ntohl, so what it computes with a field   *)
(* depends on the byte order of the build: "-target bpf" in                *)
(* common/common.mk selects that of the machine it is compiled on.         *)
(*                                                                         *)
(* A byte has B values.  B is 256 in the build and small in the checked    *)
(* instances; nothing else about a field is scaled: a 16-bit field is two  *)
(* bytes and a 32-bit field four.                                          *)
(***************************************************************************)
EXTENDS Integers

CONSTANT B, Xor(_, _)

Byte == 0 .. B - 1

ASSUME BAssumption == B \in Nat /\ B >= 2

\* C's ^ on two bytes.
ASSUME XorAssumption == \A a, b \in Byte : Xor(a, b) \in Byte

U16 == [1 .. 2 -> Byte]
U32 == [1 .. 4 -> Byte]

ByteOrder == {"big", "little"}

\* Byte j of a word (1 is the first on the wire) weighs less than byte i.
LessSignificant(order, j, i) == IF order = "big" THEN j > i ELSE j < i

\* w + 1 and w - 1 as __u32, that is, modulo B^4.
Inc(order, w) ==
  [i \in 1 .. 4 |->
     IF \A j \in 1 .. 4 : LessSignificant(order, j, i) => w[j] = B - 1
     THEN IF w[i] = B - 1 THEN 0 ELSE w[i] + 1
     ELSE w[i]]

Dec(order, w) ==
  [i \in 1 .. 4 |->
     IF \A j \in 1 .. 4 : LessSignificant(order, j, i) => w[j] = 0
     THEN IF w[i] = 0 THEN B - 1 ELSE w[i] - 1
     ELSE w[i]]

\* The number a __u32 load of w yields.
Value(order, w) ==
  LET v == IF order = "big" THEN w ELSE [i \in 1 .. 4 |-> w[5 - i]]
  IN  ((v[1] * B + v[2]) * B + v[3]) * B + v[4]

\* The __u32 whose upper 16 bits are hi and whose lower 16 bits are lo, where
\* hi and lo are __u16 fields.
Halves(order, hi, lo) ==
  LET first  == IF order = "big" THEN hi ELSE lo
      second == IF order = "big" THEN lo ELSE hi
  IN  [i \in 1 .. 4 |-> IF i <= 2 THEN first[i] ELSE second[i - 2]]

Xor32(a, b) == [i \in 1 .. 4 |-> Xor(a[i], b[i])]
=============================================================================
