---------------------------- MODULE SettingsPages ----------------------------
(***************************************************************************)
(* The pages on which a user sets the serial ports (com_show.cgi, com_set  *)
(* .cgi), the switches of the cabinet (dev_func_show.cgi, dev_func.cgi)    *)
(* and the telephone numbers (phonenum_show.cgi, phonenum_set.cgi). One    *)
(* CGI process reads the settings file and prints a form; the form comes   *)
(* back to another, which opens the file with "w", so that it is empty,    *)
(* and writes it when it ends. Any number of users may be at it, and the   *)
(* file is the only thing the processes share.                             *)
(*                                                                         *)
(* A line, and a field of a form, is an integer: what stands on it. 15     *)
(* stands for the stop bits 1.5, 0 also for no telephone number.           *)
(***************************************************************************)
EXTENDS Integers, Sequences, SequencesExt, FiniteSets

CONSTANTS
  User,       \* who has a browser
  Page,       \* the pages looked at: a subset of {"com", "func", "phone"}
  Stored,     \* Page -> what its file holds at first
  Edits,      \* Page -> pairs <<field, value>> a user may put into a form
  Mobile,     \* the telephone numbers of eleven digits
  Leftovers,  \* what memory nobody wrote may hold
  MaxSaves,   \* bound: how many forms are sent
  MaxKills    \* bound: how many processes are killed

Absent == -1000    \* a field the form has no input for
Junk == -1001      \* a line that is no value of any field
OneAndHalf == 15
Line == Int \ {Absent}

VARIABLES
  page,      \* which of the pages this is about; never changes
  overruns,  \* whether the arrays of phonenum_show lie side by side
  lines,     \* the settings file
  form,      \* the form in each user's browser, <<>> for none
  writing,   \* what each user's running process will write, <<>> for none
  kept,      \* history: the form of the last process to have written,
             \* <<>> when the file has been truncated since
  readOpen,  \* history: a form was printed from a truncated file
  saves, kills

settingsVars ==
  <<page, overruns, lines, form, writing, kept, readOpen, saves, kills>>

Idle(u) == writing[u] = <<>>
-------------------------------------------------------------------------------
(***************************************************************************)
(* The serial ports: five lines for each of four ports.                    *)
(***************************************************************************)
ComOptions ==
  << {0, 1, 2, 3}, {6, 7, 8}, {1, OneAndHalf, 2}, {0, 1, 2},
     {9600, 19200, 38400, 57600, 115200} >>
ComField(i) == ((i - 1) % 5) + 1
StopBit == 3

\* A value that is no option writes no line, and the later ones move up.
ComLines(f) ==
  LET written[i \in 0..20] ==
        IF i = 0 THEN <<>>
        ELSE IF f[i] = Absent THEN written[i - 1] ELSE Append(written[i - 1], f[i])
  IN  written[20]

atoi(l) == IF l = OneAndHalf THEN 1 ELSE l

\* Mutant: the stop bits 1.5 have been forgotten.
ComInput_NoHalf(i, l) ==
  IF atoi(l) \in ComOptions[ComField(i)] /\ l # OneAndHalf THEN atoi(l) ELSE Absent

\* A line that is none of the cases of the switch prints no SELECT, or one
\* without options.
ComInput(i, l) ==
  LET n == IF ComField(i) = StopBit THEN l ELSE atoi(l)
  IN  IF n \in ComOptions[ComField(i)] THEN n ELSE Absent

(***************************************************************************)
(* The switches: fifteen bits on two lines, the temperatures of the fan    *)
(* and of the heater, and the directions of four power supplies. Fields 5, *)
(* 6 and 7 are the supply of the terminal server and the front and the     *)
(* back door: dev_func stores them in bits 4, 5 and 6, dev_func_show looks *)
(* for them in bits 6, 4 and 5.                                            *)
(***************************************************************************)
Switches == 1..15
Mask == <<1, 2, 4, 8, 16, 32, 64, 128>>
Bit(b, n) == (n \div Mask[b + 1]) % 2

On(v, b) == IF v = 1 THEN Mask[b + 1] ELSE 0
Byte0(f) == On(f[1], 0) + On(f[2], 1) + On(f[3], 2) + On(f[4], 3)
            + On(f[5], 4) + On(f[6], 5) + On(f[7], 6) + On(f[8], 7)
Byte1(f) == On(f[9], 0) + On(f[10], 1) + On(f[11], 2) + On(f[12], 3)
            + On(f[13], 4) + On(f[14], 5) + On(f[15], 6)

\* Mutant: the last switch is left out.
FuncLines_OneShort(f) == <<Byte0(f), Byte1(f) - On(f[15], 6)>> \o SubSeq(f, 16, 21)

FuncLines(f) == <<Byte0(f), Byte1(f)>> \o SubSeq(f, 16, 21)

ShownBit == [i \in Switches |->
  CASE i = 5 -> 6 [] i = 6 -> 4 [] i = 7 -> 5 [] OTHER -> i - 1]

\* No direction is selected when the line is none: the browser takes the first.
FuncInput(i, ls) ==
  CASE i \in 1..8   -> Bit(ShownBit[i], ls[1] % 256)
    [] i \in 9..15  -> Bit(ShownBit[i] - 8, ls[2] % 256)
    [] i \in 16..17 -> ls[i - 13]
    [] OTHER        -> IF ls[i - 13] \in 0..4 THEN ls[i - 13] ELSE 1

(***************************************************************************)
(* The telephone numbers: a line with its newline and the terminating zero *)
(* has one byte more than the array it is copied to when the number has    *)
(* eleven digits. Where the arrays lie side by side the zero is the first  *)
(* byte of the number before.                                              *)
(***************************************************************************)
PhoneInput(i, ls) ==
  IF overruns /\ i < 5 /\ ls[i + 1] \in Mobile THEN 0 ELSE ls[i]
-------------------------------------------------------------------------------
Fields(p) == CASE p = "com" -> 1..20 [] p = "func" -> 1..21 [] OTHER -> 1..5
NLines(p) == CASE p = "com" -> 20 [] p = "func" -> 8 [] OTHER -> 5

\* What the inputs of a page let a user choose or type.
Values(p, i) ==
  CASE p = "com" -> ComOptions[ComField(i)]
    [] p = "func" /\ i \in Switches -> {0, 1}
    [] p = "func" /\ i \in 18..21 -> 0..4
    [] OTHER -> Line

ASSUME SettingsAssumption ==
  /\ Page \subseteq {"com", "func", "phone"}
  /\ \A p \in Page : Stored[p] \in Seq(Line) /\ Len(Stored[p]) = NLines(p)
  /\ "com" \in Page => \A i \in 1..20 : Stored["com"][i] \in ComOptions[ComField(i)]
  /\ \A p \in Page : \A e \in Edits[p] : e[1] \in Fields(p) /\ e[2] \in Values(p, e[1])
  /\ Leftovers \subseteq Line
  /\ MaxSaves \in Nat /\ MaxKills \in Nat

Lines(f) ==
  CASE page = "com" -> ComLines(f) [] page = "func" -> FuncLines(f) [] OTHER -> f

\* At the end of the file getline leaves the line as it is: the last one, or
\* what the memory it has just been given holds.
Gets(garbage) ==
  [i \in 1..NLines(page) |->
     IF i <= Len(lines) THEN lines[i]
     ELSE IF lines = <<>> THEN garbage ELSE Last(lines)]

\* Mutant: lines are printed as they are.
Show_Raw(garbage) == Gets(garbage)

Show(garbage) ==
  LET ls == Gets(garbage)
  IN  [i \in Fields(page) |->
         CASE page = "com" -> ComInput(i, ls[i])
           [] page = "func" -> FuncInput(i, ls)
           [] OTHER -> PhoneInput(i, ls)]

Complete(f) == \A i \in DOMAIN f : f[i] # Absent

\* How many bytes a line has, with its newline.
Width(l) ==
  CASE l = OneAndHalf -> 4 [] l \in Mobile -> 12
    [] l < 0 -> 3 [] l < 10 -> 2 [] l < 100 -> 3 [] l < 1000 -> 4
    [] l < 10000 -> 5 [] l < 100000 -> 6 [] OTHER -> 7
Bytes(ls) == FoldSeq(LAMBDA l, n : n + Width(l), 0, ls)

\* A process writes at the beginning of the file: what another has written
\* there meanwhile, and is longer, stays behind it. A line cut in two reads
\* as 0 or as nothing known.
Overlay(new, old) ==
  LET before(i) == Bytes(SubSeq(old, 1, i))
      rest == {i \in 1..Len(old) : before(i - 1) >= Bytes(new)}
      cut == {i \in 1..Len(old) :
                before(i - 1) < Bytes(new) /\ Bytes(new) < before(i)}
      tail == SubSeq(old, Len(old) - Cardinality(rest) + 1, Len(old))
  IN  IF cut = {} THEN {new \o tail}
      ELSE {new \o <<c>> \o tail : c \in {0, Junk}}
-------------------------------------------------------------------------------
SettingsInit ==
  /\ page \in Page
  /\ overruns \in (IF page = "phone" THEN BOOLEAN ELSE {FALSE})
  /\ lines = Stored[page]
  /\ form = [u \in User |-> <<>>]
  /\ writing = [u \in User |-> <<>>]
  /\ kept = <<>> /\ readOpen = FALSE
  /\ saves = 0 /\ kills = 0

\* A user opens the page: com_show, dev_func_show or phonenum_show.
OpenPage(u) ==
  /\ Idle(u) /\ form[u] = <<>>
  /\ saves < MaxSaves
  /\ \E g \in Leftovers : form' = [form EXCEPT ![u] = Show(g)]
  /\ readOpen' = (readOpen \/ lines = <<>>)
  /\ UNCHANGED <<page, overruns, lines, writing, kept, saves, kills>>

\* The form comes back, with at most one field changed, to com_set, dev_func
\* or phonenum_set, which truncates the file and lets stdio keep the lines.
Submit(u) ==
  /\ form[u] # <<>>
  /\ saves < MaxSaves /\ saves' = saves + 1
  /\ \E f \in {form[u]} \cup
               {[form[u] EXCEPT ![e[1]] = e[2]] :
                  e \in {e \in Edits[page] : form[u][e[1]] # Absent}} :
       writing' = [writing EXCEPT ![u] = f]
  /\ lines' = <<>> /\ kept' = <<>>
  /\ form' = [form EXCEPT ![u] = <<>>]
  /\ UNCHANGED <<page, overruns, readOpen, kills>>

\* The process ends, and the lines get to the file.
Finish(u) ==
  /\ ~Idle(u)
  /\ lines' \in Overlay(Lines(writing[u]), lines)
  /\ kept' = writing[u]
  /\ writing' = [writing EXCEPT ![u] = <<>>]
  /\ UNCHANGED <<page, overruns, form, readOpen, saves, kills>>

\* The web server or the power ends it first.
Kill(u) ==
  /\ ~Idle(u)
  /\ kills < MaxKills /\ kills' = kills + 1
  /\ writing' = [writing EXCEPT ![u] = <<>>]
  /\ UNCHANGED <<page, overruns, lines, form, kept, readOpen, saves>>

SettingsNext ==
  \E u \in User : OpenPage(u) \/ Submit(u) \/ Finish(u) \/ Kill(u)

SettingsSpec == SettingsInit /\ [][SettingsNext]_settingsVars
-------------------------------------------------------------------------------
\* Every form and every line is there in full, or not at all.
SettingsTypeOK ==
  /\ page \in Page /\ overruns \in BOOLEAN /\ readOpen \in BOOLEAN
  /\ lines \in Seq(Int)
  /\ \A f \in {form[u] : u \in User} \cup {writing[u] : u \in User} \cup {kept} :
       f # <<>> => f \in [Fields(page) -> Int]
  /\ saves \in 0..MaxSaves /\ kills \in 0..MaxKills

(***************************************************************************)
(* However many saves overlap, the process that writes last decides what   *)
(* the page shows from then on: every field of its form, nothing of any    *)
(* other, as long as no field was absent from it. Two groups of fields are *)
(* excepted: the three switches that dev_func and dev_func_show do not     *)
(* agree on, and a number before one that overran its array.               *)
(***************************************************************************)
LastSaveWins ==
  kept # <<>> /\ Complete(kept) =>
    \A g \in Leftovers : \A i \in Fields(page) :
      \/ Show(g)[i] = kept[i]
      \/ page = "func" /\ i \in 5..7
      \/ page = "phone" /\ overruns /\ Show(g)[i] = 0 /\ kept[i + 1] \in Mobile

(***************************************************************************)
(* Fields get lost only on the page of the serial ports, and only when its *)
(* form has been printed while the file was truncated: com_show leaves     *)
(* inputs out, com_set the lines of those. The other pages always show     *)
(* every input, so that the next save makes their file whole again.        *)
(***************************************************************************)
LostOnlyByOpenRead ==
  kept # <<>> /\ ~Complete(kept) => page = "com" /\ readOpen

(***************************************************************************)
(* What both programs say: bit 5 is the front door, and so on. A switch    *)
(* that was stored is shown under the name it was stored for.              *)
(***************************************************************************)
SwitchesStayPut ==
  page = "func" /\ kept # <<>> =>
    \A g \in Leftovers : \A i \in Switches : Show(g)[i] = kept[i]
===============================================================================
