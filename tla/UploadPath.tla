------------------------------- MODULE UploadPath -------------------------------
(***************************************************************************)
(* The way of an event from the controller to the server, in one life of   *)
(* the daemon: EventBuffer and ServerLink, which meet in the data thread.  *)
(* It is the "data" of both: what it copies from can_rcv_buf into its own  *)
(* buffer is the event it sends or appends to the file, and it waits at    *)
(* cond_datato_server again only when it is done with that. Event number k *)
(* of ServerLink is the package in uploads[k]; event 0 is from before.     *)
(***************************************************************************)
EXTENDS EventBuffer, ServerLink

uploadVars == <<vars, linkVars>>

UploadInit == Init /\ LinkInit

\* No signal has ended the process.
Alive == at["ping"] # "dead"

\* Whatever happens to the buffer without the data thread.
Receive ==
  /\ Alive
  /\ CanRead \/ CanStep \/ Timeout \/ PingStep \/ DataWakeSpuriously
  /\ UNCHANGED linkVars

\* The data thread: to its wait and out of it, after it has looked for the
\* file and after each event.
Await ==
  /\ at["data"] = "idle"
  /\ DataWait \/ DataDeliver
  /\ UNCHANGED linkVars

Copy == DataCopy /\ DataEvent

Deliver == DeliverStep /\ UNCHANGED vars

DataThread == Await \/ Copy \/ Deliver

\* The other threads of the connection, the server and the network.
Connection ==
  /\ \/ PingServerStep \/ ReaderStep \/ GhostLock
     \/ ServerAnswers \/ ServerAsks \/ ServerCloses \/ HostChanges
  /\ UNCHANGED vars

UploadNext == Receive \/ DataThread \/ Connection

UploadSpec == UploadInit /\ [][UploadNext]_uploadVars

(* The fairness of EventBuffer and of ServerLink, with one data thread.    *)
UploadFairSpec ==
  /\ UploadSpec
  /\ WF_uploadVars(Alive /\ CanStep /\ UNCHANGED linkVars)
  /\ WF_uploadVars(Alive /\ PingNumbers /\ UNCHANGED linkVars)
  /\ SF_uploadVars(Alive /\ LockEventno("can") /\ UNCHANGED linkVars)
  /\ SF_uploadVars(Alive /\ LockEventno("ping") /\ UNCHANGED linkVars)
  /\ WF_uploadVars(DataThread)
  /\ WF_uploadVars(PingServerStep /\ UNCHANGED vars)
  /\ WF_uploadVars(ReaderStep /\ UNCHANGED vars)
  /\ WF_uploadVars(GhostLock /\ UNCHANGED vars)
  /\ WF_uploadVars(ServerAnswers /\ UNCHANGED vars)
-----------------------------------------------------------------------------
(* A controller that was told its package has arrived may forget it: the   *)
(* package is at the server or on its way there, in the data thread's own  *)
(* buffer, in the file of unsent events or on the wire.                    *)
AnsweredIsAtServer ==
  \A p \in answered :
    \E k \in DOMAIN uploads : uploads[k][1].pkg = p /\ (Arrived(k) \/ Held(k))

\* The numbers of the events of the k-th package that was copied.
NumbersOf(k) == {uploads[k][i].no : i \in 2..Len(uploads[k])}

(* The server never sees an event number twice, whether a package reaches  *)
(* it at once or from the file: each package it gets has numbers of its    *)
(* own. (Event 0 was numbered by an earlier life of the daemon.)           *)
NumbersReachOnce ==
  \A i, j \in DOMAIN served :
    i # j /\ served[i] > 0 /\ served[j] > 0 =>
      NumbersOf(served[i]) \cap NumbersOf(served[j]) = {}
===============================================================================
