------------------------------ MODULE UnsentFile ------------------------------
(***************************************************************************)
(* How events that could not be sent are kept: pthread_datato_server puts  *)
(* a newline behind each package, and send_remain_eventto_server reads the *)
(* file line by line. The bytes of a package may be newlines, too. What    *)
(* tells a package from a part of one is its length, which is 40 bytes and *)
(* 57 for each event: a line of such a length is sent as it is, and others *)
(* are put together in line_comp until they have such a length. A package  *)
(* and its newline are two writes, and the daemon may be stopped at any    *)
(* step: the file is kept, and sent when the daemon runs again.            *)
(*                                                                         *)
(* A byte is its place in the file, a line the places of its first and its *)
(* last byte. The file is read when nobody appends to it, see ServerLink.  *)
(***************************************************************************)
EXTENDS Integers, Sequences, SequencesExt, FiniteSets, FiniteSetsExt

CONSTANTS
  Events,      \* how many events a package may have
  Within,      \* bound: the events of a package whose bytes are newlines
  MaxNewlines, \* bound: how many of a package's bytes are newlines
  MaxStored    \* bound: how many packages are stored

ASSUME UnsentAssumption ==
  /\ Events \subseteq 1..255 /\ Within \subseteq 0..254
  /\ MaxNewlines \in Nat /\ MaxStored \in Nat

PackageLen(k) == 40 + 57 * k
CompSize == 1024

VARIABLES
  stored,    \* the packages in the file: [first, last], places of their bytes
  newlines,  \* the places of all newlines, those behind packages included
  open,      \* the newline behind the last package is still to be written
  have,      \* have_event_noto_server
  cut,       \* history: the daemon was stopped between a package and its newline
  reading,   \* the file is being sent
  place,     \* the place of the last byte getline has returned
  comp,      \* the lines in line_comp
  read_count,
  sent       \* what has been sent: for each write the lines it was put from

appendVars == <<stored, newlines, open, have, cut>>
readVars == <<reading, place, comp, read_count, sent>>
unsentVars == <<appendVars, readVars>>

LineLen(l) == l[2] - l[1] + 1
FileLen ==
  IF stored = <<>> THEN 0
  ELSE Last(stored).last + IF Last(stored).last + 1 \in newlines THEN 1 ELSE 0

(***************************************************************************)
(* The bytes that fill_can_rcv_buf and func_crc fill in, and that may be   *)
(* newlines: of an event's number the lower two (numbers below 655360), of *)
(* its time the lower three, and the CRC. Of the two bytes of the length   *)
(* and the one of the number of events it is known which are newlines.     *)
(* Counted from 1.                                                         *)
(***************************************************************************)
Filled(i) == {b + 57 * i + 1 : b \in {46, 47, 50, 51, 52}}
FilledBytes(k) ==
  (UNION {Filled(i) : i \in Within \cap 0..(k - 1)})
    \cup {PackageLen(k) - 1, PackageLen(k)}
HeaderByte(k) == LET datalen == PackageLen(k) - 2
                 IN  (8 :> datalen % 256) @@ (9 :> datalen \div 256) @@ (38 :> k)
Fixed(k) == {b \in {8, 9, 38} : HeaderByte(k)[b] = 10}
-------------------------------------------------------------------------------
UnsentInit ==
  /\ stored = <<>> /\ newlines = {} /\ open = FALSE /\ have = FALSE /\ cut = FALSE
  /\ reading = FALSE /\ place = 0 /\ comp = <<>> /\ read_count = 0 /\ sent = <<>>

\* The file is closed, and what was read of it forgotten.
Forget ==
  /\ reading' = FALSE /\ place' = 0 /\ comp' = <<>> /\ read_count' = 0 /\ sent' = <<>>

\* The data thread appends a package, ...
Store ==
  /\ ~open /\ ~reading /\ Len(stored) < MaxStored
  /\ \E k \in Events :
       \E more \in UNION {kSubset(n, FilledBytes(k)) : n \in 0..MaxNewlines} :
         /\ stored' = Append(stored, [first |-> FileLen + 1,
                                      last  |-> FileLen + PackageLen(k)])
         /\ newlines' = newlines \cup {FileLen + b : b \in Fixed(k) \cup more}
  /\ open' = TRUE
  /\ UNCHANGED <<have, cut, readVars>>

\* ... and then the newline, and says that there is something to send.
EndLine ==
  /\ open
  /\ newlines' = newlines \cup {FileLen + 1}
  /\ open' = FALSE /\ have' = TRUE
  /\ UNCHANGED <<stored, cut, readVars>>

\* The daemon is stopped, anywhere, and started again, and finds the file.
StartAgain ==
  /\ stored # <<>>
  /\ open' = FALSE /\ have' = TRUE /\ cut' = (cut \/ open)
  /\ Forget
  /\ UNCHANGED <<stored, newlines>>

\* The ping thread opens the file.
OpenFile ==
  /\ have /\ ~open /\ ~reading
  /\ reading' = TRUE
  /\ UNCHANGED <<appendVars, place, comp, read_count, sent>>

\* getline: up to the next newline, or the end when there is none.
NextLine ==
  LET ends == {n \in newlines : n > place}
  IN  <<place + 1, IF ends = {} THEN FileLen ELSE Min(ends)>>

\* (n-38-2-1)%57, which in C is 0 for the same n. Mutant: without the newline.
EndsPackage_Bare(n) == (n - 40) % 57 = 0
EndsPackage(n) == (n - 41) % 57 = 0

\* Mutant: line_comp is not emptied.
ReadLine_Kept ==
  /\ reading /\ place < FileLen /\ read_count <= CompSize
  /\ LET all == Append(comp, NextLine)
         n == read_count + LineLen(NextLine)
     IN  /\ place' = NextLine[2] /\ comp' = all /\ read_count' = n
         /\ sent' = IF EndsPackage(n) THEN Append(sent, all) ELSE sent
  /\ UNCHANGED <<appendVars, reading>>

\* A line is sent, put to the others, or sent with them. A line that is sent
\* by itself leaves what is in line_comp there. memcpy asks for no room in
\* line_comp; once it has run over, what follows is not defined nor modelled.
ReadLine ==
  /\ reading /\ place < FileLen /\ read_count <= CompSize
  /\ LET l == NextLine
         all == Append(comp, l)
         n == read_count + LineLen(l)
     IN  /\ place' = l[2]
         /\ IF EndsPackage(LineLen(l))
            THEN sent' = Append(sent, <<l>>) /\ UNCHANGED <<comp, read_count>>
            ELSE IF EndsPackage(n)
            THEN sent' = Append(sent, all) /\ comp' = <<>> /\ read_count' = 0
            ELSE sent' = sent /\ comp' = all /\ read_count' = n
  /\ UNCHANGED <<appendVars, reading>>

\* The file is removed.
RemoveSent ==
  /\ reading /\ place = FileLen
  /\ stored' = <<>> /\ newlines' = {} /\ have' = FALSE /\ cut' = FALSE
  /\ Forget
  /\ UNCHANGED open

UnsentNext == Store \/ EndLine \/ StartAgain \/ OpenFile \/ ReadLine \/ RemoveSent

UnsentSpec == UnsentInit /\ [][UnsentNext]_unsentVars
-------------------------------------------------------------------------------
\* While each package has its newline, line_comp holds lines in their order
\* and does not overflow, nor does it with the line that comes next.
UnsentTypeOK ==
  /\ open \in BOOLEAN /\ have \in BOOLEAN /\ cut \in BOOLEAN /\ reading \in BOOLEAN
  /\ ~cut =>
       /\ place \in 0..FileLen /\ (place # 0 => place \in newlines)
       /\ \A i \in DOMAIN comp : comp[i][2] \in newlines /\ comp[i][2] <= place
       /\ read_count \in 0..CompSize
       /\ reading /\ place < FileLen => read_count + LineLen(NextLine) <= CompSize

\* The lines make up the package and its newline, without a gap.
MakesUp(ls, p) ==
  /\ ls[1][1] = p.first /\ Last(ls)[2] = p.last + 1
  /\ \A i \in 2..Len(ls) : ls[i][1] = ls[i - 1][2] + 1

(***************************************************************************)
(* Wherever the numbers, the times, the length, the count and the CRC of a *)
(* package contain newlines, each package of the file is sent once, whole  *)
(* and by itself, in the order they were stored, and none is left in       *)
(* line_comp when the file is removed; also of a file that an earlier life *)
(* of the daemon has left, unless that life ended between a package and    *)
(* its newline.                                                            *)
(***************************************************************************)
PackagesComeApart ==
  ~cut =>
    /\ Len(sent) <= Len(stored)
    /\ \A i \in DOMAIN sent : MakesUp(sent[i], stored[i])
    /\ reading /\ place = FileLen => comp = <<>> /\ Len(sent) = Len(stored)
===============================================================================
