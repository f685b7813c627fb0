------------------------------ MODULE EventTable ------------------------------
(***************************************************************************)
(* The table of events: the daemon inserts, db_query.cgi shows and         *)
(* net_dbdownload.cgi offers as a file what the command line shell of      *)
(* SQLite prints. All of them open the same database, and all users share  *)
(* one data.html and one dbdownload.csv: the CGI writes the file and sends *)
(* the browser to it.                                                      *)
(*                                                                         *)
(* The database locks as its rollback journal does: any number of readers, *)
(* or one writer; nobody sets a busy timeout. Rows are the numbers 1..rows *)
(* in the order of their insertion; which of them a query selects is SQL.  *)
(***************************************************************************)
EXTENDS Integers, Sequences, SequencesExt, FiniteSets

CONSTANTS
  Asking,     \* who runs db_query.cgi
  Loading,    \* who runs net_dbdownload.cgi
  MaxRows,    \* bound: how many events there are
  MaxAsked    \* bound: how often a CGI is run

ASSUME TableAssumption ==
  /\ MaxRows \in Nat /\ MaxAsked \in Nat /\ Asking \cap Loading = {}

Client == Asking \cup Loading
Hole == 0      \* bytes nobody has written
Basic == -1    \* what basic.html,
Foot == -2     \* the end of the table
Script == -3   \* and script.html put into data.html

VARIABLES
  rows,      \* how many rows are committed
  daemon,    \* "up", "writing" while it has the lock, or "down"
  html,      \* data.html: rows, and the fixed parts by name
  csv,       \* dbdownload.csv: rows and holes
  at,        \* where each client's CGI is
  snapshot,  \* how many rows its shell reads
  position,  \* how many of them it has written
  got,       \* the file each browser was sent to, as it found it
  before,    \* history: the rows there were when the client asked
  alone,     \* history: no other client of the kind has been at work meanwhile
  refused,   \* history: the shell found the database locked
  asked

tableVars == <<rows, daemon, html, csv, at, snapshot, position, got,
               before, alone, refused, asked>>

Readers == {c \in Client : at[c] = "select"}
Kin(c) == IF c \in Asking THEN Asking ELSE Loading
-------------------------------------------------------------------------------
TableInit ==
  /\ rows = 0 /\ daemon = "up" /\ html = <<>> /\ csv = <<>>
  /\ at = [c \in Client |-> "idle"]
  /\ snapshot = [c \in Client |-> 0] /\ position = [c \in Client |-> 0]
  /\ got = [c \in Client |-> <<>>]
  /\ before = [c \in Client |-> 0]
  /\ alone = [c \in Client |-> TRUE] /\ refused = [c \in Client |-> FALSE]
  /\ asked = 0

\* The insert of store_event_intodatabase: with a reader in the database the
\* commit is refused, and the daemon closes it and exits.
InsertBegin ==
  /\ daemon = "up" /\ rows < MaxRows
  /\ daemon' = IF Readers = {} THEN "writing" ELSE "down"
  /\ UNCHANGED <<rows, html, csv, at, snapshot, position, got,
                 before, alone, refused, asked>>

InsertEnd ==
  /\ daemon = "writing"
  /\ rows' = rows + 1 /\ daemon' = "up"
  /\ UNCHANGED <<html, csv, at, snapshot, position, got,
                 before, alone, refused, asked>>

\* The daemon is started again.
Restart ==
  /\ daemon = "down" /\ daemon' = "up"
  /\ UNCHANGED <<rows, html, csv, at, snapshot, position, got,
                 before, alone, refused, asked>>

\* What db_query begins data.html with: cp basic.html. Mutant: a cat to its end.
FreshPage_Behind == Append(html, Basic)
FreshPage == <<Basic>>

\* db_query copies basic.html over data.html; the shell of net_dbdownload
\* truncates dbdownload.csv.
Ask(c) ==
  /\ at[c] = "idle"
  /\ asked < MaxAsked /\ asked' = asked + 1
  /\ at' = [at EXCEPT ![c] = "open"]
  /\ html' = IF c \in Asking THEN FreshPage ELSE html
  /\ csv' = IF c \in Loading THEN <<>> ELSE csv
  /\ got' = [got EXCEPT ![c] = <<>>]
  /\ before' = [before EXCEPT ![c] = rows]
  /\ refused' = [refused EXCEPT ![c] = FALSE]
  /\ LET busy == {o \in Kin(c) \ {c} : at[o] # "idle"}
     IN  alone' = [o \in Client |-> CASE o = c -> busy = {}
                                      [] o \in busy -> FALSE
                                      [] OTHER -> alone[o]]
  /\ UNCHANGED <<rows, daemon, snapshot, position>>

\* Mutant: it reads what is not committed, whoever has the lock.
Select_Dirty(c) ==
  /\ at[c] = "open"
  /\ at' = [at EXCEPT ![c] = "select"]
  /\ snapshot' = [snapshot EXCEPT ![c] = rows + 1]
  /\ position' = [position EXCEPT ![c] = 0]
  /\ UNCHANGED <<rows, daemon, html, csv, got, before, alone, refused, asked>>

\* The select takes the lock of a reader, or prints that it is locked.
Select(c) ==
  /\ at[c] = "open"
  /\ \/ /\ daemon # "writing"
        /\ at' = [at EXCEPT ![c] = "select"]
        /\ snapshot' = [snapshot EXCEPT ![c] = rows]
        /\ position' = [position EXCEPT ![c] = 0]
        /\ refused' = refused
     \/ /\ daemon = "writing"
        /\ at' = [at EXCEPT ![c] = "tail"]
        /\ refused' = [refused EXCEPT ![c] = TRUE]
        /\ UNCHANGED <<snapshot, position>>
  /\ UNCHANGED <<rows, daemon, html, csv, got, before, alone, asked>>
\* Mutant: the shell appends to dbdownload.csv, too.
Put_Append(f, i, v) == Append(f, v)

\* A row is put behind the others of data.html (>>), but at the shell's own
\* position in dbdownload.csv (>), which another may have truncated.
Put(f, i, v) ==
  [j \in 1..(IF Len(f) < i THEN i ELSE Len(f)) |->
     IF j = i THEN v ELSE IF j <= Len(f) THEN f[j] ELSE Hole]

WriteRow(c) ==
  /\ at[c] = "select" /\ position[c] < snapshot[c]
  /\ LET n == position[c] + 1 IN
       /\ position' = [position EXCEPT ![c] = n]
       /\ html' = IF c \in Asking THEN Append(html, n) ELSE html
       /\ csv' = IF c \in Loading THEN Put(csv, n, n) ELSE csv
  /\ UNCHANGED <<rows, daemon, at, snapshot, got, before, alone, refused, asked>>

SelectEnd(c) ==
  /\ at[c] = "select" /\ position[c] = snapshot[c]
  /\ at' = [at EXCEPT ![c] = "tail"]
  /\ UNCHANGED <<rows, daemon, html, csv, snapshot, position, got,
                 before, alone, refused, asked>>

\* db_query puts the end of the table and the script behind the rows, each
\* with a shell of its own. Both CGIs send the browser to the file.
WriteFoot(c) ==
  /\ c \in Asking /\ at[c] = "tail"
  /\ at' = [at EXCEPT ![c] = "script"]
  /\ html' = Append(html, Foot)
  /\ UNCHANGED <<rows, daemon, csv, snapshot, position, got,
                 before, alone, refused, asked>>

WriteScript(c) ==
  /\ at[c] = "script"
  /\ at' = [at EXCEPT ![c] = "redirect"]
  /\ html' = Append(html, Script)
  /\ UNCHANGED <<rows, daemon, csv, snapshot, position, got,
                 before, alone, refused, asked>>

Redirect(c) ==
  /\ c \in Loading /\ at[c] = "tail"
  /\ at' = [at EXCEPT ![c] = "redirect"]
  /\ UNCHANGED <<rows, daemon, html, csv, snapshot, position, got,
                 before, alone, refused, asked>>

Fetch(c) ==
  /\ at[c] = "redirect"
  /\ at' = [at EXCEPT ![c] = "idle"]
  /\ got' = [got EXCEPT ![c] = IF c \in Asking THEN html ELSE csv]
  /\ snapshot' = [snapshot EXCEPT ![c] = 0]
  /\ position' = [position EXCEPT ![c] = 0]
  /\ UNCHANGED <<rows, daemon, html, csv, before, alone, refused, asked>>

ClientStep(c) == Ask(c) \/ Select(c) \/ WriteRow(c) \/ SelectEnd(c)
                 \/ WriteFoot(c) \/ WriteScript(c) \/ Redirect(c) \/ Fetch(c)

TableNext == InsertBegin \/ InsertEnd \/ Restart \/ \E c \in Client : ClientStep(c)

TableSpec == TableInit /\ [][TableNext]_tableVars
-------------------------------------------------------------------------------
\* The parts of data.html and dbdownload.csv are rows there were, holes and
\* the fixed parts; a reader keeps the writer out.
TableTypeOK ==
  /\ rows \in 0..MaxRows /\ daemon \in {"up", "writing", "down"}
  /\ \A i \in DOMAIN csv : csv[i] \in Hole..rows
  /\ \A i \in DOMAIN html : html[i] \in {Basic, Foot, Script} \cup 1..rows
  /\ \A c \in Client : position[c] <= snapshot[c] /\ snapshot[c] <= rows
  /\ daemon = "writing" => Readers = {}

FirstRows(n) == [i \in 1..n |-> i]
Served(c) == at[c] = "idle" /\ ~refused[c]

(***************************************************************************)
(* The page a browser is sent to, when no other query came between and the *)
(* database was not locked: the head, every row there was when the user    *)
(* asked and perhaps later ones, each once and in the order of the events, *)
(* then the end of the table and the script. So is a download of its own.  *)
(***************************************************************************)
AloneIsWhole ==
  \A c \in Client : Served(c) /\ alone[c] =>
    \/ c \in Asking /\ got[c] = <<>>
    \/ \E n \in before[c]..rows :
         got[c] = IF c \in Loading THEN FirstRows(n)
                  ELSE <<Basic>> \o FirstRows(n) \o <<Foot, Script>>

(***************************************************************************)
(* Downloads that overlap write the same rows over each other. While they  *)
(* run the file may have holes; when the last one has ended it is the      *)
(* table again, with every row there was when any of them began, unless    *)
(* one of them found the database locked.                                  *)
(***************************************************************************)
DownloadsMerge ==
  (\A c \in Loading : Served(c)) =>
    \E n \in 0..rows : csv = FirstRows(n) /\ \A c \in Loading : before[c] <= n
===============================================================================
