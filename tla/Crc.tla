---------------------------------- MODULE Crc ----------------------------------
(***************************************************************************)
(* func_crc: two tables of 256 bytes, typed in twice (func_crc.c and crc.c *)
(* have the same), against what they tabulate, the division by the         *)
(* polynomial A001 bit by bit; and the packages whose CRC is typed in,     *)
(* too. One behaviour computes the CRC of one message, a byte in a step.   *)
(***************************************************************************)
EXTENDS Integers, Sequences

CONSTANT Message   \* the messages: those of TypedIn and others

ASSUME CrcAssumption == Message \subseteq Seq(0..255)

\* C's ^ on numbers of 1, 2, 4, 8 and 16 bits, each from that of the halves.
XorBit(a, b) == (a + b) % 2
Xor2(a, b) == 2 * XorBit(a \div 2, b \div 2) + XorBit(a % 2, b % 2)
Xor4(a, b) == 4 * Xor2(a \div 4, b \div 4) + Xor2(a % 4, b % 4)
Xor8(a, b) == 16 * Xor4(a \div 16, b \div 16) + Xor4(a % 16, b % 16)
Xor16(a, b) == 256 * Xor8(a \div 256, b \div 256) + Xor8(a % 256, b % 256)

\* The tables are written down 16 entries to a line: the lines of crcl are
\* lines A and B.
LineA == <<0, 193, 129, 64, 1, 192, 128, 65, 1, 192, 128, 65, 0, 193, 129, 64>>
LineB == <<1, 192, 128, 65, 0, 193, 129, 64, 0, 193, 129, 64, 1, 192, 128, 65>>
crcl_lines == <<LineA, LineB, LineB, LineA, LineB, LineA, LineA, LineB,
    LineB, LineA, LineA, LineB, LineA, LineB, LineB, LineA>>
crcl == [t \in 0..255 |-> crcl_lines[t \div 16 + 1][(t % 16) + 1]]
crch_lines == <<
  <<0, 192, 193, 1, 195, 3, 2, 194, 198, 6, 7, 199, 5, 197, 196, 4>>,
  <<204, 12, 13, 205, 15, 207, 206, 14, 10, 202, 203, 11, 201, 9, 8, 200>>,
  <<216, 24, 25, 217, 27, 219, 218, 26, 30, 222, 223, 31, 221, 29, 28, 220>>,
  <<20, 212, 213, 21, 215, 23, 22, 214, 210, 18, 19, 211, 17, 209, 208, 16>>,
  <<240, 48, 49, 241, 51, 243, 242, 50, 54, 246, 247, 55, 245, 53, 52, 244>>,
  <<60, 252, 253, 61, 255, 63, 62, 254, 250, 58, 59, 251, 57, 249, 248, 56>>,
  <<40, 232, 233, 41, 235, 43, 42, 234, 238, 46, 47, 239, 45, 237, 236, 44>>,
  <<228, 36, 37, 229, 39, 231, 230, 38, 34, 226, 227, 35, 225, 33, 32, 224>>,
  <<160, 96, 97, 161, 99, 163, 162, 98, 102, 166, 167, 103, 165, 101, 100, 164>>,
  <<108, 172, 173, 109, 175, 111, 110, 174, 170, 106, 107, 171, 105, 169, 168, 104>>,
  <<120, 184, 185, 121, 187, 123, 122, 186, 190, 126, 127, 191, 125, 189, 188, 124>>,
  <<180, 116, 117, 181, 119, 183, 182, 118, 114, 178, 179, 115, 177, 113, 112, 176>>,
  <<80, 144, 145, 81, 147, 83, 82, 146, 150, 86, 87, 151, 85, 149, 148, 84>>,
  <<156, 92, 93, 157, 95, 159, 158, 94, 90, 154, 155, 91, 153, 89, 88, 152>>,
  <<136, 72, 73, 137, 75, 139, 138, 74, 78, 142, 143, 79, 141, 77, 76, 140>>,
  <<68, 132, 133, 69, 135, 71, 70, 134, 130, 66, 67, 131, 65, 129, 128, 64>>>>
crch == [t \in 0..255 |-> crch_lines[t \div 16 + 1][(t % 16) + 1]]

VARIABLES
  message, fed,  \* the bytes, and how many of them have been taken
  T1, T2,        \* as in func_crc
  register       \* history: the 16 bits of the CRC, computed bit by bit

crcVars == <<message, fed, T1, T2, register>>

\* Mutant: the code of the answer is changed and its CRC is not.
event_right_response_data_C7 ==
  <<254, 170, 2, 1, 0, 2, 0, 13, 0, 199, 112, 0, 0, 43, 79>>

event_right_response_data ==
  <<254, 170, 2, 1, 0, 2, 0, 13, 0, 200, 112, 0, 0, 43, 79>>
event_wrong_response_data ==
  <<254, 170, 2, 1, 0, 2, 0, 13, 0, 198, 112, 0, 0, 41, 167>>
\* From byte 15 on the numbers 1 to 48 in binary coded decimal.
query_showdata ==
  <<254, 170, 2, 1, 0, 2, 0, 62, 0, 128, 114, 0, 0, 0>>
    \o [i \in 1..48 |-> 16 * (i \div 10) + (i % 10)] \o <<196, 227>>
TypedIn ==
  {event_right_response_data, event_wrong_response_data, query_showdata}
-------------------------------------------------------------------------------
CrcInit ==
  /\ message \in Message /\ fed = 0
  /\ T1 = 255 /\ T2 = 255
  /\ register = 65535

\* A step of the division by the polynomial A001, and the eight of a byte.
Shift(r) == IF r % 2 = 1 THEN Xor16(r \div 2, 40961) ELSE r \div 2
Divide2(r) == Shift(Shift(r))
Divide4(r) == Divide2(Divide2(r))
Divide(r) == Divide4(Divide4(r))

\* Mutant: the tables are mistaken for each other.
TakeByte_Swapped(b) ==
  LET t == Xor8(T1, b) IN T1' = Xor8(T2, crch[t]) /\ T2' = crcl[t]

\* A round of the loop of func_crc.
TakeByte(b) ==
  LET t == Xor8(T1, b) IN T1' = Xor8(T2, crcl[t]) /\ T2' = crch[t]

Feed ==
  /\ fed < Len(message) /\ fed' = fed + 1
  /\ TakeByte(message[fed + 1])
  /\ register' = Divide(Xor16(register, message[fed + 1]))
  /\ UNCHANGED message

CrcNext == Feed

CrcSpec == CrcInit /\ [][CrcNext]_crcVars
-------------------------------------------------------------------------------
(***************************************************************************)
(* What func_crc computes, in whichever program, is the CRC: every entry   *)
(* of the two tables is right, and none is used for the other.             *)
(***************************************************************************)
TablesAreRight == T1 + 256 * T2 = register

(***************************************************************************)
(* The answers to the controller and the query for show data carry the CRC *)
(* of their own bytes, so that who checks it accepts them. Of the bytes of *)
(* such a package and its CRC, in this order, the CRC is 0.                *)
(***************************************************************************)
TypedInIsAccepted ==
  message \in TypedIn =>
    /\ fed = Len(message) - 2 =>
         T1 = message[Len(message) - 1] /\ T2 = message[Len(message)]
    /\ fed = Len(message) => T1 = 0 /\ T2 = 0
===============================================================================
