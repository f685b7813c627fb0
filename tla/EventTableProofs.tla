--------------------------- MODULE EventTableProofs ---------------------------
(***************************************************************************)
(* DownloadsMerge and AloneIsWhole for any number of users, rows and runs. *)
(*                                                                         *)
(* Whoever has truncated dbdownload.csv last reads, later on, at least as  *)
(* many rows as anybody who was at work then, and writes all of them: the  *)
(* holes others leave behind lie among those rows. So, unless everything   *)
(* is settled, there is a client that has not selected yet, or has been    *)
(* refused, or is filling all holes there are.                             *)
(***************************************************************************)
EXTENDS EventTable, SequenceTheorems, TLAPS

ClientsOK ==
  /\ rows \in Nat
  /\ at \in [Client -> {"idle", "open", "select", "tail", "script", "redirect"}]
  /\ snapshot \in [Client -> Nat] /\ position \in [Client -> Nat]
  /\ before \in [Client -> Nat] /\ refused \in [Client -> BOOLEAN]
  /\ \A c \in Client : /\ position[c] <= snapshot[c] /\ snapshot[c] <= rows
                       /\ before[c] <= rows
                       /\ at[c] = "script" => c \in Asking

FileOK == csv \in Seq(Nat) /\ Len(csv) <= rows

Settled ==
  /\ \A j \in 1..Len(csv) : csv[j] = j
  /\ \A c \in Loading : /\ before[c] <= Len(csv)
                        /\ at[c] = "select" => position[c] <= Len(csv)

Filling(t) ==
  /\ at[t] = "select" /\ position[t] <= Len(csv)
  /\ \A j \in 1..Len(csv) : csv[j] = j \/ (position[t] < j /\ j <= snapshot[t])
  /\ \A c \in Loading :
       /\ before[c] <= snapshot[t]
       /\ at[c] = "select" => snapshot[c] <= snapshot[t] \/ position[c] <= Len(csv)

Merging == Settled \/ \E t \in Loading : at[t] = "open" \/ refused[t] \/ Filling(t)

TableInv == ClientsOK /\ FileOK /\ Merging

LEMMA LoadingIsClient == \A c \in Loading : c \in Client /\ c \notin Asking
  BY TableAssumption DEF Client

LEMMA PutRow ==
  ASSUME NEW f \in Seq(Nat), NEW n \in Nat \ {0}
  PROVE  /\ Put(f, n, n) \in Seq(Nat)
         /\ Len(Put(f, n, n)) = IF Len(f) < n THEN n ELSE Len(f)
         /\ \A j \in 1..Len(Put(f, n, n)) :
              Put(f, n, n)[j] = IF j = n THEN n
                                ELSE IF j <= Len(f) THEN f[j] ELSE Hole
<1> DEFINE len == IF Len(f) < n THEN n ELSE Len(f)
           e(j) == IF j = n THEN n ELSE IF j <= Len(f) THEN f[j] ELSE Hole
<1>1. Put(f, n, n) = [j \in 1..len |-> e(j)]
  BY DEF Put
<1>2. len \in Nat
  OBVIOUS
<1>3. \A j \in 1..len : e(j) \in Nat
  BY DEF Hole
<1> HIDE DEF len, e
<1>4. [j \in 1..len |-> e(j)] \in Seq(Nat) /\ Len([j \in 1..len |-> e(j)]) = len
  BY <1>2, <1>3
<1>5. \A j \in 1..len : [i \in 1..len |-> e(i)][j] = e(j)
  OBVIOUS
<1> QED BY <1>1, <1>4, <1>5 DEF len, e

LEMMA InitMerging == TableInit => TableInv
<1> SUFFICES ASSUME TableInit PROVE TableInv
  OBVIOUS
<1>1. ClientsOK
  BY DEF TableInit, ClientsOK
<1>2. FileOK /\ Len(csv) = 0
  BY DEF TableInit, FileOK
<1>3. Settled
  BY <1>2, LoadingIsClient DEF TableInit, Settled
<1> QED BY <1>1, <1>2, <1>3 DEF TableInv, Merging

\* What leaves the file, and what is known of the downloads, alone.
LEMMA OthersMerging ==
  ASSUME TableInv, ClientsOK', rows <= rows', csv' = csv,
         \A c \in Loading : /\ before'[c] = before[c] /\ refused'[c] = refused[c]
                            /\ at'[c] = at[c] /\ snapshot'[c] = snapshot[c]
                            /\ position'[c] = position[c]
  PROVE  TableInv'
<1>1. FileOK'
  BY DEF TableInv, FileOK, ClientsOK
<1>2. Settled => Settled'
  BY DEF Settled
<1>3. \A t \in Loading : Filling(t) => Filling(t)'
  BY DEF Filling
<1>4. Merging'
  BY <1>2, <1>3 DEF TableInv, Merging
<1> QED BY <1>1, <1>4 DEF TableInv

LEMMA AskMerging ==
  ASSUME TableInv, NEW d \in Client, Ask(d) PROVE TableInv'
<1>1. ClientsOK'
  BY DEF TableInv, ClientsOK, Ask
<1>2. CASE d \in Loading
  <2>1. csv' = <<>> /\ at'[d] = "open"
    BY <1>2 DEF Ask, TableInv, ClientsOK
  <2>2. FileOK'
    BY <1>1, <2>1 DEF FileOK, ClientsOK
  <2> QED BY <1>1, <1>2, <2>1, <2>2 DEF TableInv, Merging
<1>3. CASE d \notin Loading
  <2>1. csv' = csv /\ rows' = rows /\ rows \in Nat
    BY <1>3 DEF Ask, TableInv, ClientsOK
  <2>2. ASSUME NEW c \in Loading
        PROVE  /\ before'[c] = before[c] /\ refused'[c] = refused[c]
               /\ at'[c] = at[c] /\ snapshot'[c] = snapshot[c]
               /\ position'[c] = position[c]
    <3>1. c \in Client /\ c # d
      BY <1>3, LoadingIsClient
    <3> QED BY <3>1 DEF Ask, TableInv, ClientsOK
  <2> QED BY <1>1, <2>1, <2>2, OthersMerging
<1> QED BY <1>2, <1>3

\* Who selects now reads every row there is, so all holes lie before it.
LEMMA SelectMerging ==
  ASSUME TableInv, NEW d \in Client, Select(d) PROVE TableInv'
<1>1. ClientsOK'
  <2>1. CASE daemon = "writing"
    <3>1. /\ at' = [at EXCEPT ![d] = "tail"]
          /\ refused' = [refused EXCEPT ![d] = TRUE]
          /\ UNCHANGED <<rows, before, snapshot, position>>
      BY <2>1 DEF Select
    <3> QED BY <3>1 DEF TableInv, ClientsOK
  <2>2. CASE daemon # "writing"
    <3>1. /\ at' = [at EXCEPT ![d] = "select"]
          /\ snapshot' = [snapshot EXCEPT ![d] = rows]
          /\ position' = [position EXCEPT ![d] = 0]
          /\ UNCHANGED <<rows, before, refused>>
      BY <2>2 DEF Select
    <3> QED BY <3>1 DEF TableInv, ClientsOK
  <2> QED BY <2>1, <2>2
<1>2. csv' = csv /\ rows' = rows /\ before' = before
  BY DEF Select
<1>3. CASE d \notin Loading
  <2>1. ASSUME NEW c \in Loading
        PROVE  /\ before'[c] = before[c] /\ refused'[c] = refused[c]
               /\ at'[c] = at[c] /\ snapshot'[c] = snapshot[c]
               /\ position'[c] = position[c]
    <3>1. c \in Client /\ c # d
      BY <1>3, LoadingIsClient
    <3> QED BY <3>1 DEF Select, TableInv, ClientsOK
  <2>2. rows <= rows'
    BY <1>2 DEF TableInv, ClientsOK
  <2> QED BY <1>1, <1>2, <2>1, <2>2, OthersMerging
<1>4. CASE d \in Loading /\ daemon = "writing"
  <2>1. refused'[d]
    BY <1>4 DEF Select, TableInv, ClientsOK
  <2> QED BY <1>1, <1>2, <1>4, <2>1 DEF TableInv, Merging, FileOK
<1>5. CASE d \in Loading /\ daemon # "writing"
  <2>1. at'[d] = "select" /\ snapshot'[d] = rows /\ position'[d] = 0
    BY <1>5 DEF Select, TableInv, ClientsOK
  <2>2. Len(csv) \in Nat /\ Len(csv) <= rows /\ rows \in Nat
    BY DEF TableInv, FileOK, ClientsOK
  <2>3. \A c \in Loading : before'[c] <= rows /\ snapshot'[c] <= rows
    BY <1>1, <1>2, LoadingIsClient DEF ClientsOK
  <2>4. Filling(d)'
    BY <1>2, <2>1, <2>2, <2>3 DEF Filling
  <2> QED BY <1>1, <1>2, <1>5, <2>4 DEF TableInv, Merging, FileOK
<1> QED BY <1>3, <1>4, <1>5

\* A row is written: it fills a hole or comes next, or leaves holes before
\* it that the one who is filling will come to.
LEMMA WriteMerging ==
  ASSUME TableInv, NEW d \in Client, WriteRow(d) PROVE TableInv'
<1> DEFINE n == position[d] + 1
<1>1. ClientsOK'
  BY DEF TableInv, ClientsOK, WriteRow
<1>2. CASE d \notin Loading
  <2>1. csv' = csv /\ rows' = rows /\ rows \in Nat
    BY <1>2 DEF WriteRow, TableInv, ClientsOK
  <2>2. ASSUME NEW c \in Loading
        PROVE  /\ before'[c] = before[c] /\ refused'[c] = refused[c]
               /\ at'[c] = at[c] /\ snapshot'[c] = snapshot[c]
               /\ position'[c] = position[c]
    <3>1. c \in Client /\ c # d
      BY <1>2, LoadingIsClient
    <3> QED BY <3>1 DEF WriteRow, TableInv, ClientsOK
  <2> QED BY <1>1, <2>1, <2>2, OthersMerging
<1>3. CASE d \in Loading
  <2>1. /\ csv' = Put(csv, n, n)
        /\ rows' = rows /\ before' = before /\ refused' = refused
        /\ at' = at /\ snapshot' = snapshot /\ at[d] = "select"
        /\ position' = [position EXCEPT ![d] = n]
        /\ position[d] < snapshot[d]
    BY <1>3 DEF WriteRow
  <2>2. /\ position[d] \in Nat /\ snapshot[d] \in Nat /\ n \in Nat \ {0}
        /\ n <= snapshot[d] /\ snapshot[d] <= rows /\ rows \in Nat
    BY <2>1 DEF TableInv, ClientsOK
  <2>3. csv \in Seq(Nat) /\ Len(csv) \in Nat /\ Len(csv) <= rows
    BY DEF TableInv, FileOK
  <2> DEFINE len == IF Len(csv) < n THEN n ELSE Len(csv)
  <2>4. /\ csv' \in Seq(Nat) /\ Len(csv') = len
        /\ \A j \in 1..len : csv'[j] = IF j = n THEN n
                                       ELSE IF j <= Len(csv) THEN csv[j] ELSE Hole
    BY <2>1, <2>2, <2>3, PutRow
  <2>5. len \in Nat /\ len <= rows /\ Len(csv) <= len /\ n <= len
    BY <2>2, <2>3
  <2>6. /\ position'[d] = n
        /\ \A c \in Loading \ {d} : position'[c] = position[c]
    BY <1>3, <2>1, LoadingIsClient DEF TableInv, ClientsOK
  <2>7. \A c \in Loading : /\ before[c] \in Nat /\ position[c] \in Nat
                           /\ snapshot[c] \in Nat /\ position[c] <= snapshot[c]
    BY LoadingIsClient DEF TableInv, ClientsOK
  <2>8. FileOK'
    BY <2>1, <2>4, <2>5 DEF FileOK
  <2> HIDE DEF n, len
  <2>9. ASSUME Settled PROVE Settled'
    <3>1. position[d] <= Len(csv)
      BY <1>3, <2>1, <2>9 DEF Settled
    <3>2. \A j \in 1..len : csv'[j] = j
      BY <2>2, <2>3, <2>4, <2>9, <3>1 DEF Settled, len, n
    <3>3. \A c \in Loading : /\ before[c] <= len
                             /\ at[c] = "select" => position'[c] <= len
      BY <2>3, <2>5, <2>6, <2>7, <2>9, <2>2 DEF Settled
    <3> QED BY <2>1, <2>4, <3>2, <3>3 DEF Settled
  <2>10. ASSUME NEW t \in Loading, Filling(t) PROVE Filling(t)'
    <3>1. n <= snapshot[t] \/ n <= Len(csv) + 1
      BY <1>3, <2>1, <2>2, <2>3, <2>7, <2>10 DEF Filling, n
    <3>2. at'[t] = "select" /\ snapshot'[t] = snapshot[t]
      BY <2>1, <2>10 DEF Filling
    <3>3. position'[t] <= len
      BY <2>2, <2>3, <2>5, <2>6, <2>7, <2>10 DEF Filling
    <3>4. ASSUME NEW j \in 1..len
          PROVE  csv'[j] = j \/ (position'[t] < j /\ j <= snapshot[t])
      <4>0. j \in Nat /\ j >= 1 /\ j <= len
        BY <2>5
      <4>1. CASE j = n
        BY <2>4, <4>1
      <4>2. CASE j # n /\ j <= Len(csv)
        <5>1. csv'[j] = csv[j]
          BY <2>4, <4>2
        <5>2. csv[j] = j \/ (position[t] < j /\ j <= snapshot[t])
          BY <2>3, <2>10, <4>0, <4>2 DEF Filling
        <5>3. position[t] < j => position'[t] < j
          BY <2>2, <2>6, <2>7, <4>0, <4>2 DEF n
        <5> QED BY <5>1, <5>2, <5>3
      <4>3. CASE j # n /\ j > Len(csv)
        <5>1. len = n /\ j < n
          BY <2>2, <2>3, <4>0, <4>3 DEF len
        <5>2. j <= snapshot[t]
          BY <2>2, <2>3, <2>7, <3>1, <4>0, <4>3, <5>1
        <5>3. t # d
          BY <2>2, <2>3, <2>10, <4>0, <4>3, <5>1 DEF Filling, n
        <5>4. position'[t] < j
          BY <2>3, <2>6, <2>7, <2>10, <4>0, <4>3, <5>3 DEF Filling
        <5> QED BY <5>2, <5>4
      <4> QED BY <2>3, <4>0, <4>1, <4>2, <4>3
    <3>5. ASSUME NEW c \in Loading
          PROVE  /\ before[c] <= snapshot[t]
                 /\ at[c] = "select" =>
                      snapshot[c] <= snapshot[t] \/ position'[c] <= len
      <4>1. CASE c = d
        BY <2>2, <2>5, <2>6, <2>10, <4>1 DEF Filling
      <4>2. CASE c # d
        BY <2>3, <2>5, <2>6, <2>7, <2>10, <4>2 DEF Filling
      <4> QED BY <4>1, <4>2
    <3> QED BY <2>1, <2>4, <3>2, <3>3, <3>4, <3>5 DEF Filling
  <2>11. Merging'
    BY <2>1, <2>9, <2>10 DEF TableInv, Merging
  <2> QED BY <1>1, <2>8, <2>11 DEF TableInv
<1> QED BY <1>2, <1>3

\* Who has written all its rows has filled all holes.
LEMMA EndMerging ==
  ASSUME TableInv, NEW d \in Client, SelectEnd(d) PROVE TableInv'
<1>1. ClientsOK'
  BY DEF TableInv, ClientsOK, SelectEnd
<1>2. /\ UNCHANGED <<rows, csv, before, refused, snapshot, position>>
      /\ at' = [at EXCEPT ![d] = "tail"] /\ at[d] = "select"
      /\ position[d] = snapshot[d]
  BY DEF SelectEnd
<1>3. \A c \in Loading : c # d => at'[c] = at[c]
  BY <1>2, LoadingIsClient DEF TableInv, ClientsOK
<1>4. at'[d] = "tail"
  BY <1>2 DEF TableInv, ClientsOK
<1>5. \A c \in Loading : /\ before[c] \in Nat /\ position[c] \in Nat
                         /\ snapshot[c] \in Nat /\ position[c] <= snapshot[c]
  BY LoadingIsClient DEF TableInv, ClientsOK
<1>6. Len(csv) \in Nat
  BY DEF TableInv, FileOK
<1>7. ASSUME Settled PROVE Settled'
  BY <1>2, <1>3, <1>4, <1>7 DEF Settled
<1>8. ASSUME NEW t \in Loading, Filling(t), t # d PROVE Filling(t)'
  BY <1>2, <1>3, <1>4, <1>8 DEF Filling
<1>9. ASSUME d \in Loading, Filling(d) PROVE Settled'
  <2>1. \A j \in 1..Len(csv) : csv[j] = j
    BY <1>2, <1>5, <1>6, <1>9 DEF Filling
  <2>2. \A c \in Loading : /\ before[c] <= Len(csv)
                           /\ at[c] = "select" => position[c] <= Len(csv)
    BY <1>2, <1>5, <1>6, <1>9 DEF Filling
  <2> QED BY <1>2, <1>3, <1>4, <2>1, <2>2 DEF Settled
<1>10. ASSUME NEW t \in Loading, at[t] = "open" PROVE at'[t] = "open"
  BY <1>2, <1>3, <1>10
<1>11. Merging'
  BY <1>2, <1>7, <1>8, <1>9, <1>10 DEF TableInv, Merging
<1> QED BY <1>1, <1>2, <1>11 DEF TableInv, FileOK

\* The way from the end of the rows to the browser.
LEMMA TailMerging ==
  ASSUME TableInv, NEW d \in Client,
         WriteFoot(d) \/ WriteScript(d) \/ Redirect(d) \/ Fetch(d)
  PROVE  TableInv'
<1>1. ClientsOK'
  <2>1. CASE WriteFoot(d) \/ WriteScript(d) \/ Redirect(d)
    BY <2>1 DEF TableInv, ClientsOK, WriteFoot, WriteScript, Redirect
  <2>2. CASE Fetch(d)
    BY <2>2 DEF TableInv, ClientsOK, Fetch
  <2> QED BY <2>1, <2>2
<1>2. /\ UNCHANGED <<rows, csv, before, refused>>
      /\ at[d] \in {"tail", "script", "redirect"}
      /\ at'[d] \in {"script", "redirect", "idle"}
  BY DEF TableInv, ClientsOK, WriteFoot, WriteScript, Redirect, Fetch
<1>3. \A c \in Loading : c # d => /\ at'[c] = at[c] /\ position'[c] = position[c]
                                  /\ snapshot'[c] = snapshot[c]
  BY LoadingIsClient
  DEF TableInv, ClientsOK, WriteFoot, WriteScript, Redirect, Fetch
<1>4. ASSUME Settled PROVE Settled'
  BY <1>2, <1>3, <1>4 DEF Settled
<1>5. ASSUME NEW t \in Loading, Filling(t) PROVE Filling(t)'
  BY <1>2, <1>3, <1>5 DEF Filling
<1>6. ASSUME NEW t \in Loading, at[t] = "open" PROVE at'[t] = "open"
  BY <1>2, <1>3, <1>6
<1>7. Merging'
  BY <1>2, <1>4, <1>5, <1>6 DEF TableInv, Merging
<1> QED BY <1>1, <1>2, <1>7 DEF TableInv, FileOK

LEMMA NextMerging == TableInv /\ [TableNext]_tableVars => TableInv'
<1> SUFFICES ASSUME TableInv, [TableNext]_tableVars PROVE TableInv'
  OBVIOUS
<1>1. CASE InsertBegin \/ InsertEnd \/ Restart \/ UNCHANGED tableVars
  <2>1. /\ UNCHANGED <<csv, at, snapshot, position, before, refused>>
        /\ rows' = rows \/ rows' = rows + 1
    BY <1>1 DEF InsertBegin, InsertEnd, Restart, tableVars
  <2>2. rows \in Nat /\ rows' \in Nat /\ rows <= rows'
    BY <2>1 DEF TableInv, ClientsOK
  <2>3. \A c \in Client : snapshot[c] \in Nat /\ before[c] \in Nat
    BY DEF TableInv, ClientsOK
  <2>4. ClientsOK'
    BY <2>1, <2>2, <2>3 DEF TableInv, ClientsOK
  <2> QED BY <2>1, <2>2, <2>4, OthersMerging
<1>2. ASSUME NEW d \in Client, ClientStep(d) PROVE TableInv'
  BY <1>2, AskMerging, SelectMerging, WriteMerging, EndMerging, TailMerging
  DEF ClientStep
<1> QED BY <1>1, <1>2 DEF TableNext

(***************************************************************************)
(* When the last of any number of overlapping downloads has ended, and     *)
(* none was refused, dbdownload.csv is the table as it was when one of     *)
(* them selected, with all rows there were when any of them began.         *)
(***************************************************************************)
THEOREM DownloadsMergeCorrect == TableSpec => []DownloadsMerge
<1>1. ASSUME TableInv PROVE DownloadsMerge
  <2> SUFFICES ASSUME \A c \in Loading : Served(c)
               PROVE  \E n \in 0..rows :
                        csv = FirstRows(n) /\ \A c \in Loading : before[c] <= n
    BY DEF DownloadsMerge
  <2>1. Settled
    BY <1>1 DEF TableInv, Merging, Filling, Served
  <2>2. Len(csv) \in 0..rows /\ csv \in Seq(Nat)
    BY <1>1 DEF TableInv, FileOK, ClientsOK
  <2>3. csv = [j \in 1..Len(csv) |-> csv[j]]
    BY <2>2
  <2>4. csv = FirstRows(Len(csv))
    BY <2>1, <2>3 DEF Settled, FirstRows
  <2> QED BY <2>1, <2>2, <2>4 DEF Settled
<1> QED BY <1>1, InitMerging, NextMerging, PTL DEF TableSpec
-------------------------------------------------------------------------------
(* The page or the file of a client that has been alone since it asked.    *)

Content(c) == IF c \in Loading THEN csv ELSE html
Begun(c, n) == IF c \in Loading THEN FirstRows(n) ELSE <<Basic>> \o FirstRows(n)
Whole(c, n) ==
  IF c \in Loading THEN FirstRows(n) ELSE <<Basic>> \o FirstRows(n) \o <<Foot, Script>>

OthersIdle(c) == \A o \in Kin(c) \ {c} : at[o] = "idle"

AtWork(c) ==
  /\ at[c] = "open" => Content(c) = Begun(c, 0)
  /\ at[c] = "select" => Content(c) = Begun(c, position[c]) /\ before[c] <= snapshot[c]
  /\ at[c] = "tail" /\ ~refused[c] =>
       \E n \in before[c]..rows : Content(c) = Begun(c, n)
  /\ at[c] = "script" /\ ~refused[c] =>
       \E n \in before[c]..rows : Content(c) = Append(Begun(c, n), Foot)
  /\ at[c] = "redirect" /\ ~refused[c] =>
       \E n \in before[c]..rows : Content(c) = Whole(c, n)

Fetched(c) ==
  \/ c \in Asking /\ got[c] = <<>>
  \/ \E n \in before[c]..rows : got[c] = Whole(c, n)

AloneInv(c) ==
  alone[c] => /\ at[c] # "idle" => OthersIdle(c) /\ AtWork(c)
              /\ at[c] = "idle" /\ ~refused[c] => Fetched(c)

AllAlone ==
  /\ ClientsOK /\ csv \in Seq(Nat)
  /\ alone \in [Client -> BOOLEAN] /\ DOMAIN got = Client
  /\ \A c \in Client : AloneInv(c)

LEMMA FirstRowsSeq ==
  ASSUME NEW n \in Nat
  PROVE  /\ FirstRows(n) \in Seq(Nat) /\ Len(FirstRows(n)) = n
         /\ \A j \in 1..n : FirstRows(n)[j] = j
  BY DEF FirstRows

LEMMA RowAppended ==
  ASSUME NEW n \in Nat
  PROVE  Append(<<Basic>> \o FirstRows(n), n + 1) = <<Basic>> \o FirstRows(n + 1)
<1>1. n + 1 \in Nat
  OBVIOUS
<1>2. Append(FirstRows(n), n + 1) = FirstRows(n + 1)
  <2> DEFINE a == Append(FirstRows(n), n + 1)
             b == FirstRows(n + 1)
  <2>1. a \in Seq(Nat) /\ Len(a) = n + 1
    BY <1>1, FirstRowsSeq
  <2>2. b \in Seq(Nat) /\ Len(b) = n + 1
    BY <1>1, FirstRowsSeq
  <2>3. \A j \in 1..(n + 1) : a[j] = b[j]
    BY <1>1, FirstRowsSeq
  <2> HIDE DEF a, b
  <2>4. a = b
    BY <2>1, <2>2, <2>3, SeqEqual
  <2> QED BY <2>4 DEF a, b
<1>3. FirstRows(n) \in Seq(Int) /\ <<Basic>> \in Seq(Int) /\ n + 1 \in Int
  BY FirstRowsSeq DEF Basic
<1>4. Append(<<Basic>> \o FirstRows(n), n + 1)
        = <<Basic>> \o Append(FirstRows(n), n + 1)
  BY <1>3
<1> QED BY <1>2, <1>4

LEMMA RowPut ==
  ASSUME NEW n \in Nat
  PROVE  Put(FirstRows(n), n + 1, n + 1) = FirstRows(n + 1)
<1>1. FirstRows(n) \in Seq(Nat) /\ Len(FirstRows(n)) = n /\ n + 1 \in Nat
  BY FirstRowsSeq
<1>2. (IF n < n + 1 THEN n + 1 ELSE n) = n + 1
  OBVIOUS
<1>3. \A j \in 1..(n + 1) : j = n + 1 \/ (j <= n /\ FirstRows(n)[j] = j)
  BY FirstRowsSeq
<1> QED BY <1>1, <1>2, <1>3 DEF Put, FirstRows

LEMMA PageEnded ==
  ASSUME NEW n \in Nat
  PROVE  Append(Append(<<Basic>> \o FirstRows(n), Foot), Script)
           = <<Basic>> \o FirstRows(n) \o <<Foot, Script>>
<1>1. <<Basic>> \o FirstRows(n) \in Seq(Int)
  BY FirstRowsSeq DEF Basic
<1>2. \A f \in Seq(Int) : Append(Append(f, Foot), Script) = f \o <<Foot, Script>>
  BY DEF Foot, Script
<1> QED BY <1>1, <1>2

LEMMA InitAlone == TableInit => AllAlone
<1> SUFFICES ASSUME TableInit PROVE AllAlone
  OBVIOUS
<1>1. ClientsOK /\ csv \in Seq(Nat)
  BY InitMerging DEF TableInv, FileOK
<1>2. alone \in [Client -> BOOLEAN] /\ DOMAIN got = Client
  BY DEF TableInit
<1>3. ASSUME NEW c \in Client PROVE AloneInv(c)
  <2>1. at[c] = "idle" /\ got[c] = <<>> /\ before[c] = 0 /\ rows = 0
    BY DEF TableInit
  <2>2. FirstRows(0) = <<>>
    BY FirstRowsSeq
  <2>3. c \in Asking \/ c \in Loading
    BY DEF Client
  <2>4. Fetched(c)
    BY <2>1, <2>2, <2>3 DEF Fetched, Whole
  <2> QED BY <2>1, <2>4 DEF AloneInv
<1> QED BY <1>1, <1>2, <1>3 DEF AllAlone

\* A client nothing has happened to: what it is to be sent is the same, or it
\* has been sent it.
LEMMA Untouched ==
  ASSUME ClientsOK, ClientsOK', NEW c \in Client, AloneInv(c),
         alone'[c] => alone[c],
         at'[c] = at[c], position'[c] = position[c], snapshot'[c] = snapshot[c],
         before'[c] = before[c], refused'[c] = refused[c], got'[c] = got[c],
         rows <= rows',
         at[c] # "idle" /\ alone'[c] /\ OthersIdle(c) =>
           OthersIdle(c)' /\ Content(c)' = Content(c)
  PROVE  AloneInv(c)'
<1> SUFFICES ASSUME alone'[c] PROVE AloneInv(c)'
  BY DEF AloneInv
<1>1. before[c] \in Nat /\ rows \in Nat /\ rows' \in Nat
  BY DEF ClientsOK
<1>2. \A n \in before[c]..rows : n \in before'[c]..rows'
  BY <1>1
<1>3. CASE at[c] = "idle"
  <2>1. Fetched(c) => Fetched(c)'
    BY <1>2 DEF Fetched, Whole
  <2> QED BY <1>3, <2>1 DEF AloneInv
<1>4. CASE at[c] # "idle"
  <2>1. AtWork(c) /\ OthersIdle(c)' /\ Content(c)' = Content(c)
    BY <1>4 DEF AloneInv
  <2>2. AtWork(c)'
    BY <1>2, <2>1 DEF AtWork, Begun, Whole
  <2> QED BY <1>4, <2>1, <2>2 DEF AloneInv
<1> QED BY <1>3, <1>4

\* A step of d, which has asked, beside which no other of its kind is alone.
LEMMA OthersAlone ==
  ASSUME AllAlone, ClientsOK', NEW d \in Client, at[d] # "idle",
         UNCHANGED <<rows, before, alone>>,
         \A c \in Client \ {d} :
           /\ at'[c] = at[c] /\ position'[c] = position[c]
           /\ snapshot'[c] = snapshot[c] /\ refused'[c] = refused[c]
           /\ got'[c] = got[c],
         d \in Asking => csv' = csv, d \notin Asking => html' = html,
         NEW c \in Client, c # d
  PROVE  AloneInv(c)'
<1>1. ASSUME at[c] # "idle", OthersIdle(c)
      PROVE  OthersIdle(c)' /\ Content(c)' = Content(c)
  <2>1. d \notin Kin(c)
    BY <1>1 DEF OthersIdle
  <2>2. Content(c)' = Content(c)
    BY <2>1, TableAssumption DEF Kin, Client, Content
  <2>3. \A o \in Kin(c) \ {c} : o \in Client /\ o # d
    BY <2>1 DEF Kin, Client
  <2>4. OthersIdle(c)'
    BY <1>1, <2>3 DEF OthersIdle, Kin
  <2> QED BY <2>2, <2>4
<1>2. rows <= rows'
  BY DEF AllAlone, ClientsOK
<1> QED BY <1>1, <1>2, Untouched DEF AllAlone

LEMMA AskAlone ==
  ASSUME AllAlone, ClientsOK', NEW d \in Client, Ask(d) PROVE AllAlone'
<1> DEFINE busy == {o \in Kin(d) \ {d} : at[o] # "idle"}
<1>1. /\ at[d] = "idle" /\ at' = [at EXCEPT ![d] = "open"]
      /\ html' = IF d \in Asking THEN FreshPage ELSE html
      /\ csv' = IF d \in Loading THEN <<>> ELSE csv
      /\ got' = [got EXCEPT ![d] = <<>>]
      /\ before' = [before EXCEPT ![d] = rows]
      /\ refused' = [refused EXCEPT ![d] = FALSE]
      /\ UNCHANGED <<rows, snapshot, position>>
  BY DEF Ask
<1>2. alone' = [o \in Client |-> CASE o = d -> busy = {} [] o \in busy -> FALSE
                                   [] OTHER -> alone[o]]
  BY DEF Ask
<1>3. /\ alone'[d] <=> busy = {}
      /\ \A o \in Client \ {d} : /\ o \in busy => ~alone'[o]
                                 /\ o \notin busy => alone'[o] = alone[o]
  BY <1>2
<1>4. alone' \in [Client -> BOOLEAN] /\ DOMAIN got' = Client
  BY <1>1, <1>2 DEF AllAlone
<1> HIDE DEF busy
<1>5. csv' \in Seq(Nat)
  BY <1>1 DEF AllAlone
<1>6. AloneInv(d)'
  <2>1. at'[d] = "open"
    BY <1>1 DEF AllAlone, ClientsOK
  <2>2. alone'[d] => OthersIdle(d)'
    BY <1>1, <1>3 DEF OthersIdle, Kin, busy, Client, AllAlone, ClientsOK
  <2>3. FirstRows(0) = <<>>
    BY FirstRowsSeq
  <2>4. <<Basic>> \o <<>> = <<Basic>>
    BY DEF Basic
  <2>5. Content(d)' = Begun(d, 0)
    <3>1. CASE d \in Loading
      BY <1>1, <2>3, <3>1 DEF Content, Begun
    <3>2. CASE d \notin Loading
      <4>1. d \in Asking
        BY <3>2 DEF Client
      <4> QED BY <1>1, <2>3, <2>4, <3>2, <4>1 DEF Content, Begun, FreshPage
    <3> QED BY <3>1, <3>2
  <2> QED BY <2>1, <2>2, <2>5 DEF AloneInv, AtWork, Begun
<1>7. ASSUME NEW c \in Client, c # d PROVE AloneInv(c)'
  <2>1. alone'[c] => alone[c]
    BY <1>3, <1>7
  <2>2. /\ at'[c] = at[c] /\ before'[c] = before[c] /\ refused'[c] = refused[c]
        /\ got'[c] = got[c]
    BY <1>1, <1>7 DEF AllAlone, ClientsOK
  <2>3. ASSUME at[c] # "idle", alone'[c], OthersIdle(c)
        PROVE  OthersIdle(c)' /\ Content(c)' = Content(c)
    <3>1. d \notin Kin(c)
      BY <1>3, <1>7, <2>3, TableAssumption DEF busy, Kin, Client
    <3>2. Content(c)' = Content(c)
      BY <1>1, <3>1, TableAssumption DEF Kin, Client, Content
    <3>3. \A o \in Kin(c) \ {c} : o \in Client /\ o # d
      BY <3>1 DEF Kin, Client
    <3>4. \A o \in Kin(c) \ {c} : at'[o] = at[o]
      BY <1>1, <3>3 DEF AllAlone, ClientsOK
    <3>5. OthersIdle(c)'
      BY <2>3, <3>4 DEF OthersIdle, Kin
    <3> QED BY <3>2, <3>5
  <2>4. rows <= rows'
    BY <1>1 DEF AllAlone, ClientsOK
  <2> QED BY <1>1, <2>1, <2>2, <2>3, <2>4, Untouched DEF AllAlone
<1> QED BY <1>4, <1>5, <1>6, <1>7 DEF AllAlone

LEMMA SelectAlone ==
  ASSUME AllAlone, ClientsOK', NEW d \in Client, Select(d) PROVE AllAlone'
<1>1. at[d] = "open" /\ UNCHANGED <<rows, html, csv, got, before, alone>>
  BY DEF Select
<1>2. \A c \in Client \ {d} : /\ at'[c] = at[c] /\ position'[c] = position[c]
                              /\ snapshot'[c] = snapshot[c]
                              /\ refused'[c] = refused[c]
  BY DEF Select, AllAlone, ClientsOK
<1>3. ASSUME alone[d] PROVE AloneInv(d)'
  <2>1. OthersIdle(d) /\ Content(d) = Begun(d, 0)
    BY <1>1, <1>3 DEF AllAlone, AloneInv, AtWork
  <2>2. OthersIdle(d)'
    BY <1>2, <2>1 DEF OthersIdle, Kin, Client
  <2>3. Content(d)' = Begun(d, 0)
    BY <1>1, <2>1 DEF Content
  <2>4. CASE daemon # "writing"
    <3>1. at'[d] = "select" /\ position'[d] = 0 /\ snapshot'[d] = rows
      BY <2>4 DEF Select, AllAlone, ClientsOK
    <3>2. before'[d] <= snapshot'[d]
      BY <1>1, <3>1 DEF AllAlone, ClientsOK
    <3> QED BY <2>2, <2>3, <3>1, <3>2 DEF AloneInv, AtWork, Begun
  <2>5. CASE daemon = "writing"
    <3>1. at'[d] = "tail" /\ refused'[d]
      BY <2>5 DEF Select, AllAlone, ClientsOK
    <3> QED BY <2>2, <3>1 DEF AloneInv, AtWork
  <2> QED BY <2>4, <2>5
<1>4. AloneInv(d)'
  BY <1>1, <1>3 DEF AloneInv
<1>5. \A c \in Client : c # d => AloneInv(c)'
  BY <1>1, <1>2, OthersAlone
<1> QED BY <1>1, <1>4, <1>5 DEF AllAlone

\* The row is the next one of its page or file.
LEMMA WriteAlone ==
  ASSUME AllAlone, ClientsOK', csv' \in Seq(Nat), NEW d \in Client, WriteRow(d)
  PROVE  AllAlone'
<1> DEFINE n == position[d]
<1>1. /\ at[d] = "select" /\ position' = [position EXCEPT ![d] = n + 1]
      /\ html' = IF d \in Asking THEN Append(html, n + 1) ELSE html
      /\ csv' = IF d \in Loading THEN Put(csv, n + 1, n + 1) ELSE csv
      /\ UNCHANGED <<rows, at, snapshot, got, before, alone, refused>>
  BY DEF WriteRow
<1>2. /\ n \in Nat /\ position'[d] = n + 1
      /\ \A c \in Client \ {d} : position'[c] = position[c]
  BY <1>1 DEF AllAlone, ClientsOK
<1> HIDE DEF n
<1>3. ASSUME alone[d] PROVE AloneInv(d)'
  <2>1. OthersIdle(d) /\ Content(d) = Begun(d, n) /\ before[d] <= snapshot[d]
    BY <1>1, <1>3 DEF AllAlone, AloneInv, AtWork, n
  <2>2. OthersIdle(d)'
    BY <1>1, <2>1 DEF OthersIdle, Kin
  <2>3. Content(d)' = Begun(d, n + 1)
    <3>1. CASE d \in Loading
      BY <1>1, <1>2, <2>1, <3>1, RowPut DEF Content, Begun
    <3>2. CASE d \notin Loading
      <4>1. d \in Asking
        BY <3>2 DEF Client
      <4> QED BY <1>1, <1>2, <2>1, <3>2, <4>1, RowAppended DEF Content, Begun
    <3> QED BY <3>1, <3>2
  <2> QED BY <1>1, <1>2, <2>1, <2>2, <2>3 DEF AloneInv, AtWork, Begun
<1>4. AloneInv(d)'
  BY <1>1, <1>3 DEF AloneInv
<1>5. ASSUME NEW c \in Client, c # d PROVE AloneInv(c)'
  <2>1. /\ d \in Asking => csv' = csv
        /\ d \notin Asking => html' = html
    BY <1>1, TableAssumption
  <2> QED BY <1>1, <1>2, <1>5, <2>1, OthersAlone
<1> QED BY <1>1, <1>4, <1>5 DEF AllAlone

LEMMA EndAlone ==
  ASSUME AllAlone, ClientsOK', NEW d \in Client, SelectEnd(d) PROVE AllAlone'
<1>1. /\ at[d] = "select" /\ position[d] = snapshot[d]
      /\ at' = [at EXCEPT ![d] = "tail"]
      /\ UNCHANGED <<rows, html, csv, snapshot, position, got, before, alone,
                     refused>>
  BY DEF SelectEnd
<1>2. /\ at'[d] = "tail"
      /\ \A c \in Client \ {d} : at'[c] = at[c]
  BY <1>1 DEF AllAlone, ClientsOK
<1>3. ASSUME alone[d] PROVE AloneInv(d)'
  <2>1. OthersIdle(d) /\ Content(d) = Begun(d, position[d]) /\ before[d] <= snapshot[d]
    BY <1>1, <1>3 DEF AllAlone, AloneInv, AtWork
  <2>2. position[d] \in before[d]..rows
    BY <1>1, <2>1 DEF AllAlone, ClientsOK
  <2>3. OthersIdle(d)'
    BY <1>2, <2>1 DEF OthersIdle, Kin, Client
  <2>4. Content(d)' = Begun(d, position[d])
    BY <1>1, <2>1 DEF Content
  <2>5. \E n \in before'[d]..rows' : Content(d)' = Begun(d, n)
    BY <1>1, <2>2, <2>4
  <2> QED BY <1>2, <2>3, <2>5 DEF AloneInv, AtWork, Begun
<1>4. AloneInv(d)'
  BY <1>1, <1>3 DEF AloneInv
<1>5. \A c \in Client : c # d => AloneInv(c)'
  BY <1>1, <1>2, OthersAlone
<1> QED BY <1>1, <1>4, <1>5 DEF AllAlone

LEMMA FootAlone ==
  ASSUME AllAlone, ClientsOK', NEW d \in Client, WriteFoot(d) PROVE AllAlone'
<1>1. /\ d \in Asking /\ d \notin Loading /\ at[d] = "tail"
      /\ at' = [at EXCEPT ![d] = "script"] /\ html' = Append(html, Foot)
      /\ UNCHANGED <<rows, csv, snapshot, position, got, before, alone, refused>>
  BY TableAssumption DEF WriteFoot
<1>2. /\ at'[d] = "script"
      /\ \A c \in Client \ {d} : at'[c] = at[c]
  BY <1>1 DEF AllAlone, ClientsOK
<1>3. ASSUME alone[d] PROVE AloneInv(d)'
  <2>1. /\ OthersIdle(d)
        /\ ~refused[d] => \E n \in before[d]..rows : html = Begun(d, n)
    BY <1>1, <1>3 DEF AllAlone, AloneInv, AtWork, Content
  <2>2. OthersIdle(d)'
    BY <1>2, <2>1 DEF OthersIdle, Kin, Client
  <2>3. ~refused'[d] =>
          \E n \in before'[d]..rows' : Content(d)' = Append(Begun(d, n), Foot)
    BY <1>1, <2>1 DEF Content
  <2> QED BY <1>1, <1>2, <2>2, <2>3 DEF AloneInv, AtWork, Begun
<1>4. AloneInv(d)'
  BY <1>1, <1>3 DEF AloneInv
<1>5. \A c \in Client : c # d => AloneInv(c)'
  BY <1>1, <1>2, OthersAlone
<1> QED BY <1>1, <1>4, <1>5 DEF AllAlone

LEMMA ScriptAlone ==
  ASSUME AllAlone, ClientsOK', NEW d \in Client, WriteScript(d) PROVE AllAlone'
<1>1. /\ at[d] = "script" /\ d \in Asking /\ d \notin Loading
      /\ at' = [at EXCEPT ![d] = "redirect"] /\ html' = Append(html, Script)
      /\ UNCHANGED <<rows, csv, snapshot, position, got, before, alone, refused>>
  BY TableAssumption DEF WriteScript, AllAlone, ClientsOK
<1>2. /\ at'[d] = "redirect"
      /\ \A c \in Client \ {d} : at'[c] = at[c]
  BY <1>1 DEF AllAlone, ClientsOK
<1>3. ASSUME alone[d] PROVE AloneInv(d)'
  <2>1. /\ OthersIdle(d)
        /\ ~refused[d] =>
             \E n \in before[d]..rows : html = Append(Begun(d, n), Foot)
    BY <1>1, <1>3 DEF AllAlone, AloneInv, AtWork, Content
  <2>2. OthersIdle(d)'
    BY <1>2, <2>1 DEF OthersIdle, Kin, Client
  <2>3. ASSUME ~refused[d]
        PROVE  \E n \in before[d]..rows : Append(html, Script) = Whole(d, n)
    <3>1. PICK n \in before[d]..rows : html = Append(Begun(d, n), Foot)
      BY <2>1, <2>3
    <3>2. n \in Nat
      BY <3>1 DEF AllAlone, ClientsOK
    <3>3. Append(html, Script) = Whole(d, n)
      BY <1>1, <3>1, <3>2, PageEnded DEF Begun, Whole
    <3> QED BY <3>3
  <2>4. ~refused'[d] => \E n \in before'[d]..rows' : Content(d)' = Whole(d, n)
    BY <1>1, <2>3 DEF Content
  <2> QED BY <1>2, <2>2, <2>4 DEF AloneInv, AtWork, Whole
<1>4. AloneInv(d)'
  BY <1>1, <1>3 DEF AloneInv
<1>5. \A c \in Client : c # d => AloneInv(c)'
  BY <1>1, <1>2, OthersAlone
<1> QED BY <1>1, <1>4, <1>5 DEF AllAlone

LEMMA RedirectAlone ==
  ASSUME AllAlone, ClientsOK', NEW d \in Client, Redirect(d) PROVE AllAlone'
<1>1. /\ at[d] = "tail" /\ d \in Loading /\ d \notin Asking
      /\ at' = [at EXCEPT ![d] = "redirect"]
      /\ UNCHANGED <<rows, html, csv, snapshot, position, got, before, alone,
                     refused>>
  BY TableAssumption DEF Redirect
<1>2. /\ at'[d] = "redirect"
      /\ \A c \in Client \ {d} : at'[c] = at[c]
  BY <1>1 DEF AllAlone, ClientsOK
<1>3. ASSUME alone[d] PROVE AloneInv(d)'
  <2>1. /\ OthersIdle(d)
        /\ ~refused[d] => \E n \in before[d]..rows : csv = FirstRows(n)
    BY <1>1, <1>3 DEF AllAlone, AloneInv, AtWork, Content, Begun
  <2>2. OthersIdle(d)'
    BY <1>2, <2>1 DEF OthersIdle, Kin, Client
  <2>3. ~refused'[d] => \E n \in before'[d]..rows' : Content(d)' = Whole(d, n)
    BY <1>1, <2>1 DEF Content, Whole
  <2> QED BY <1>2, <2>2, <2>3 DEF AloneInv, AtWork, Whole
<1>4. AloneInv(d)'
  BY <1>1, <1>3 DEF AloneInv
<1>5. \A c \in Client : c # d => AloneInv(c)'
  BY <1>1, <1>2, OthersAlone
<1> QED BY <1>1, <1>4, <1>5 DEF AllAlone

LEMMA FetchAlone ==
  ASSUME AllAlone, ClientsOK', NEW d \in Client, Fetch(d) PROVE AllAlone'
<1>1. /\ at[d] = "redirect" /\ at' = [at EXCEPT ![d] = "idle"]
      /\ got' = [got EXCEPT ![d] = IF d \in Asking THEN html ELSE csv]
      /\ snapshot' = [snapshot EXCEPT ![d] = 0]
      /\ position' = [position EXCEPT ![d] = 0]
      /\ UNCHANGED <<rows, html, csv, before, alone, refused>>
  BY DEF Fetch
<1>2. /\ at'[d] = "idle" /\ DOMAIN got' = Client
      /\ \A c \in Client \ {d} : /\ at'[c] = at[c] /\ got'[c] = got[c]
                                 /\ snapshot'[c] = snapshot[c]
                                 /\ position'[c] = position[c]
  BY <1>1 DEF AllAlone, ClientsOK
<1>3. got'[d] = Content(d)
  BY <1>1, TableAssumption DEF AllAlone, Content, Client
<1>4. ASSUME alone[d], ~refused[d] PROVE Fetched(d)'
  <2>1. \E n \in before[d]..rows : Content(d) = Whole(d, n)
    BY <1>1, <1>4 DEF AllAlone, AloneInv, AtWork
  <2> QED BY <1>1, <1>3, <2>1 DEF Fetched, Whole
<1>5. AloneInv(d)'
  BY <1>1, <1>2, <1>4 DEF AloneInv
<1>6. \A c \in Client : c # d => AloneInv(c)'
  BY <1>1, <1>2, OthersAlone
<1> QED BY <1>1, <1>2, <1>5, <1>6 DEF AllAlone

LEMMA NextAlone ==
  TableInv /\ AllAlone /\ [TableNext]_tableVars => AllAlone'
<1> SUFFICES ASSUME TableInv, AllAlone, [TableNext]_tableVars PROVE AllAlone'
  OBVIOUS
<1>1. ClientsOK' /\ csv' \in Seq(Nat)
  BY NextMerging DEF TableInv, FileOK
<1>2. CASE InsertBegin \/ InsertEnd \/ Restart \/ UNCHANGED tableVars
  <2>1. /\ UNCHANGED <<csv, html, at, snapshot, position, got, before, alone,
                       refused>>
        /\ rows' = rows \/ rows' = rows + 1
    BY <1>2 DEF InsertBegin, InsertEnd, Restart, tableVars
  <2>2. rows <= rows'
    BY <2>1 DEF AllAlone, ClientsOK
  <2>3. ASSUME NEW c \in Client PROVE AloneInv(c)'
    <3>1. OthersIdle(c) => OthersIdle(c)' /\ Content(c)' = Content(c)
      BY <2>1 DEF OthersIdle, Kin, Content
    <3> QED BY <1>1, <2>1, <2>2, <3>1, Untouched DEF AllAlone
  <2> QED BY <1>1, <2>1, <2>3 DEF AllAlone
<1>3. ASSUME NEW d \in Client, ClientStep(d) PROVE AllAlone'
  BY <1>1, <1>3, AskAlone, SelectAlone, WriteAlone, EndAlone, FootAlone,
     ScriptAlone, RedirectAlone, FetchAlone
  DEF ClientStep
<1> QED BY <1>2, <1>3 DEF TableNext

(***************************************************************************)
(* A client that had no other of its kind at work from the time it asked   *)
(* until it was served has got the whole page, or the whole file: every    *)
(* row there was when it asked, in order, and nothing else's.              *)
(***************************************************************************)
THEOREM AloneIsWholeCorrect == TableSpec => []AloneIsWhole
<1>1. ASSUME AllAlone PROVE AloneIsWhole
  <2> SUFFICES ASSUME NEW c \in Client, Served(c), alone[c]
               PROVE  \/ c \in Asking /\ got[c] = <<>>
                      \/ \E n \in before[c]..rows : got[c] = Whole(c, n)
    BY DEF AloneIsWhole, Whole
  <2> QED BY <1>1 DEF AllAlone, AloneInv, Served, Fetched
<1>2. TableInit => TableInv /\ AllAlone
  BY InitMerging, InitAlone
<1>3. TableInv /\ AllAlone /\ [TableNext]_tableVars => (TableInv /\ AllAlone)'
  BY NextMerging, NextAlone
<1> QED BY <1>1, <1>2, <1>3, PTL DEF TableSpec
-------------------------------------------------------------------------------
(* What stands in the files, and the lock.                                 *)
Locked ==
  /\ rows <= MaxRows /\ daemon \in {"up", "writing", "down"}
  /\ daemon = "writing" => Readers = {} /\ rows < MaxRows
Parts == {Basic, Foot, Script}
Contents ==
  /\ \A i \in DOMAIN csv : csv[i] <= rows
  /\ html \in Seq(Int) /\ \A i \in DOMAIN html : html[i] \in Parts \cup 1..rows
KindsInv == TableInv /\ Locked /\ Contents

LEMMA PartAppended ==
  ASSUME Contents, NEW v, v \in Parts \cup 1..rows, html' = Append(html, v),
         rows' = rows, rows \in Nat
  PROVE  html' \in Seq(Int) /\ \A i \in DOMAIN html' : html'[i] \in Parts \cup 1..rows'
<1>1. html \in Seq(Int) /\ v \in Int
  BY DEF Contents, Parts, Basic, Foot, Script
<1>2. /\ html' \in Seq(Int) /\ DOMAIN html' = 1..(Len(html) + 1) /\ Len(html) \in Nat
      /\ DOMAIN html = 1..Len(html)
      /\ \A i \in 1..Len(html) : html'[i] = html[i]
      /\ html'[Len(html) + 1] = v
  BY <1>1, AppendProperties
<1>3. ASSUME NEW i \in DOMAIN html' PROVE html'[i] \in Parts \cup 1..rows
  <2>1. i \in 1..Len(html) \/ i = Len(html) + 1
    BY <1>2
  <2> QED BY <1>2, <2>1 DEF Contents
<1> QED BY <1>2, <1>3

LEMMA ContentsStill ==
  ASSUME TableInv, Contents, UNCHANGED <<csv, html>>, rows' = rows \/ rows' = rows + 1
  PROVE  Contents'
<1>1. rows \in Nat /\ csv \in Seq(Nat) /\ \A i \in DOMAIN csv : csv[i] \in Nat
  BY DEF TableInv, ClientsOK, FileOK
<1> QED BY <1>1 DEF Contents

LEMMA WritersKinds ==
  ASSUME KindsInv, InsertBegin \/ InsertEnd \/ Restart PROVE Locked' /\ Contents'
<1>1. rows \in Nat /\ MaxRows \in Nat
  BY TableAssumption DEF KindsInv, TableInv, ClientsOK
<1>2. UNCHANGED <<csv, html, at>> /\ (rows' = rows \/ rows' = rows + 1)
  BY DEF InsertBegin, InsertEnd, Restart
<1>3. Contents'
  BY <1>2, ContentsStill DEF KindsInv
<1>4. Readers' = Readers
  BY <1>2 DEF Readers
<1>5. Locked'
  BY <1>1, <1>4 DEF KindsInv, Locked, InsertBegin, InsertEnd, Restart
<1> QED BY <1>3, <1>5

\* The database is not written while somebody reads.
LEMMA ClientsLocked ==
  ASSUME KindsInv, NEW c \in Client, ClientStep(c) PROVE Locked'
<1>1. UNCHANGED <<rows, daemon>>
  BY DEF ClientStep, Ask, Select, WriteRow, SelectEnd, WriteFoot, WriteScript,
     Redirect, Fetch
<1>2. DOMAIN at = Client
  BY DEF KindsInv, TableInv, ClientsOK
<1>3. \/ at' = at
      \/ /\ \A o \in Client \ {c} : at'[o] = at[o]
         /\ at'[c] = "select" => daemon # "writing"
  BY <1>2 DEF ClientStep, Ask, Select, WriteRow, SelectEnd, WriteFoot, WriteScript,
     Redirect, Fetch
<1>4. daemon = "writing" => Readers' = {}
  BY <1>3 DEF KindsInv, Locked, Readers
<1> QED BY <1>1, <1>4 DEF KindsInv, Locked

LEMMA ClientsContents ==
  ASSUME KindsInv, NEW c \in Client, ClientStep(c) PROVE Contents'
<1>1. /\ rows' = rows /\ rows \in Nat /\ csv \in Seq(Nat)
      /\ position[c] \in Nat /\ snapshot[c] \in Nat /\ snapshot[c] <= rows
      /\ Contents
  BY DEF ClientStep, Ask, Select, WriteRow, SelectEnd, WriteFoot, WriteScript,
     Redirect, Fetch, KindsInv, TableInv, ClientsOK, FileOK
<1>2. CASE Ask(c)
  <2>1. csv' = csv \/ csv' = <<>>
    BY <1>2 DEF Ask
  <2>2. html' = html \/ html' = <<Basic>>
    BY <1>2 DEF Ask, FreshPage
  <2>3. \A i \in DOMAIN csv' : csv'[i] <= rows'
    BY <1>1, <2>1 DEF Contents
  <2>4. CASE html' = <<Basic>>
    <3>1. html' \in Seq(Int) /\ DOMAIN html' = {1} /\ html'[1] = Basic
      BY <2>4 DEF Basic
    <3> QED BY <2>3, <3>1 DEF Contents, Parts
  <2>5. CASE html' = html
    BY <1>1, <2>3, <2>5 DEF Contents
  <2> QED BY <2>2, <2>4, <2>5
<1>3. CASE WriteRow(c)
  <2> DEFINE n == position[c] + 1
  <2>1. n \in 1..rows /\ n \in Nat \ {0}
    BY <1>1, <1>3 DEF WriteRow
  <2>2. /\ csv' = csv \/ csv' = Put(csv, n, n)
        /\ html' = html \/ html' = Append(html, n)
    BY <1>3 DEF WriteRow
  <2> HIDE DEF n
  <2>3. \A i \in DOMAIN csv' : csv'[i] <= rows'
    <3>1. CASE csv' = csv
      BY <1>1, <3>1 DEF Contents
    <3>2. CASE csv' = Put(csv, n, n)
      <4>1. /\ csv' \in Seq(Nat) /\ DOMAIN csv' = 1..Len(csv')
            /\ \A j \in 1..Len(csv') :
                 csv'[j] = IF j = n THEN n ELSE IF j <= Len(csv) THEN csv[j] ELSE Hole
        BY <1>1, <2>1, <3>2, PutRow
      <4>2. DOMAIN csv = 1..Len(csv) /\ Len(csv) \in Nat
        BY <1>1
      <4>3. ASSUME NEW j \in DOMAIN csv' PROVE csv'[j] <= rows
        <5>1. j \in Nat /\ j >= 1
          BY <4>1
        <5>2. csv'[j] = n \/ csv'[j] = Hole \/ (j \in DOMAIN csv /\ csv'[j] = csv[j])
          BY <4>1, <4>2, <5>1
        <5> QED BY <1>1, <2>1, <5>2 DEF Contents, Hole
      <4> QED BY <1>1, <4>3
    <3> QED BY <2>2, <3>1, <3>2
  <2>4. html' \in Seq(Int) /\ \A i \in DOMAIN html' : html'[i] \in Parts \cup 1..rows'
    BY <1>1, <2>1, <2>2, PartAppended DEF Contents
  <2> QED BY <2>3, <2>4 DEF Contents
<1>4. CASE WriteFoot(c) \/ WriteScript(c)
  <2>1. csv' = csv /\ (html' = Append(html, Foot) \/ html' = Append(html, Script))
    BY <1>4 DEF WriteFoot, WriteScript
  <2>2. html' \in Seq(Int) /\ \A i \in DOMAIN html' : html'[i] \in Parts \cup 1..rows'
    BY <1>1, <2>1, PartAppended DEF Parts
  <2> QED BY <1>1, <2>1, <2>2 DEF Contents
<1>5. CASE Select(c) \/ SelectEnd(c) \/ Redirect(c) \/ Fetch(c)
  <2>1. UNCHANGED <<csv, html>>
    BY <1>5 DEF Select, SelectEnd, Redirect, Fetch
  <2> QED BY <1>1, <2>1, ContentsStill DEF KindsInv
<1> QED BY <1>2, <1>3, <1>4, <1>5 DEF ClientStep

LEMMA NextKinds == KindsInv /\ [TableNext]_tableVars => KindsInv'
<1> SUFFICES ASSUME KindsInv, [TableNext]_tableVars PROVE Locked' /\ Contents'
  BY NextMerging DEF KindsInv
<1>1. CASE InsertBegin \/ InsertEnd \/ Restart
  BY <1>1, WritersKinds
<1>2. ASSUME NEW c \in Client, ClientStep(c) PROVE Locked' /\ Contents'
  BY <1>2, ClientsLocked, ClientsContents
<1>3. CASE UNCHANGED tableVars
  BY <1>3, ContentsStill DEF KindsInv, Locked, Readers, tableVars
<1> QED BY <1>1, <1>2, <1>3 DEF TableNext

LEMMA InitKinds == TableInit => KindsInv
<1> SUFFICES ASSUME TableInit PROVE Locked /\ Contents
  BY InitMerging DEF KindsInv
<1>1. Locked
  BY TableAssumption DEF TableInit, Locked
<1>2. DOMAIN csv = {} /\ DOMAIN html = {} /\ html \in Seq(Int)
  BY DEF TableInit
<1> QED BY <1>1, <1>2 DEF Contents

(***************************************************************************)
(* The page and the download hold nothing but rows that were committed,    *)
(* the fixed parts and holes, and nobody reads while the daemon writes.    *)
(***************************************************************************)
THEOREM TableTypeCorrect == TableSpec => []TableTypeOK
<1>1. ASSUME KindsInv PROVE TableTypeOK
  <2>1. rows \in 0..MaxRows
    BY <1>1, TableAssumption DEF KindsInv, TableInv, ClientsOK, Locked
  <2>2. \A i \in DOMAIN csv : csv[i] \in Hole..rows
    BY <1>1 DEF KindsInv, TableInv, FileOK, ClientsOK, Contents, Hole
  <2>3. \A c \in Client : position[c] <= snapshot[c] /\ snapshot[c] <= rows
    BY <1>1 DEF KindsInv, TableInv, ClientsOK
  <2> QED BY <1>1, <2>1, <2>2, <2>3 DEF KindsInv, Locked, Contents, Parts, TableTypeOK
<1> QED BY <1>1, InitKinds, NextKinds, PTL DEF TableSpec
===============================================================================
