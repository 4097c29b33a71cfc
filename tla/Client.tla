-------------------------------- MODULE Client --------------------------------
(***************************************************************************)
(* The client process: it uploads its records one by one, each waiting for *)
(* an answer, then END_OF_RECODS, and then reads its top.                  *)
(*                                                                         *)
(* A connection is two FIFO streams of messages.  A message is sent and    *)
(* read whole (sendall, _recv_sized).  A client that disconnects ends      *)
(* both streams.                                                           *)
(***************************************************************************)
EXTENDS Naturals, Sequences, FiniteSets

CONSTANTS
    Clients,
    RecordCount,  \* rows of each client's INPUT_FILE
    Leavers       \* clients that may disconnect halfway (SIGTERM, crash)

ASSUME ClientAssumption == RecordCount \in [Clients -> Nat] /\ Leavers \subseteq Clients

VARIABLES
    client,      \* client[c]: [at, sent, top]
    toGateway,   \* toGateway[c]: sent by c, not read yet
    toClient,    \* toClient[c]: sent to c, not read yet
    gone         \* clients whose socket is shut down

clientVars == << client, toGateway, toClient, gone >>

Record == [type |-> "FRUIT_RECORD"]
EndOfRecords == [type |-> "END_OF_RECODS"]
Ack == [type |-> "ACK"]
FruitTop(c) == [type |-> "FRUIT_TOP", of |-> c]

NoTop == [type |-> "none"]

ClientStates == {"off", "sending", "await_ack", "await_end_ack", "await_top", "done",
                 "failed", "left"}

ClientInit ==
    /\ client = [c \in Clients |-> [at |-> "off", sent |-> 0, top |-> NoTop]]
    /\ toGateway = [c \in Clients |-> <<>>]
    /\ toClient = [c \in Clients |-> <<>>]
    /\ gone = {}

Send(c, m) == toGateway' = [toGateway EXCEPT ![c] = Append(@, m)]

MoveTo(c, at) == client' = [client EXCEPT ![c].at = at]

Connect(c) ==
    /\ client[c].at = "off"
    /\ MoveTo(c, "sending")
    /\ UNCHANGED << toGateway, toClient, gone >>

\* Mutant: the next record goes without the answer to the last.
SendAhead(c) ==
    /\ client[c].at = "sending" /\ client[c].sent < RecordCount[c]
    /\ Send(c, Record)
    /\ UNCHANGED << client, toClient, gone >>

SendRecord(c) ==
    /\ client[c].at = "sending" /\ client[c].sent < RecordCount[c]
    /\ Send(c, Record)
    /\ MoveTo(c, "await_ack")
    /\ UNCHANGED << toClient, gone >>

SendEnd(c) ==
    /\ client[c].at = "sending" /\ client[c].sent = RecordCount[c]
    /\ Send(c, EndOfRecords)
    /\ MoveTo(c, "await_end_ack")
    /\ UNCHANGED << toClient, gone >>

\* The answer to a record is read and not looked at.
ReceiveAck(c) ==
    /\ client[c].at = "await_ack" /\ toClient[c] # <<>>
    /\ toClient' = [toClient EXCEPT ![c] = Tail(@)]
    /\ client' = [client EXCEPT ![c].at = "sending", ![c].sent = @ + 1]
    /\ UNCHANGED << toGateway, gone >>

\* Neither is the answer to END_OF_RECODS.
ReceiveEndAck(c) ==
    /\ client[c].at = "await_end_ack" /\ toClient[c] # <<>>
    /\ toClient' = [toClient EXCEPT ![c] = Tail(@)]
    /\ MoveTo(c, "await_top")
    /\ UNCHANGED << toGateway, gone >>

\* recv_fruit_top: ACK first, then the check; disconnect either way.
ReceiveTop(c) ==
    /\ client[c].at = "await_top" /\ toClient[c] # <<>>
    /\ LET m == Head(toClient[c]) IN
       client' = [client EXCEPT ![c].at = IF m.type = "FRUIT_TOP" THEN "done" ELSE "failed",
                                ![c].top = m]
    /\ toClient' = [toClient EXCEPT ![c] = Tail(@)]
    /\ Send(c, Ack)
    /\ gone' = gone \cup {c}

\* handle_sigterm, or the process is killed.
Leave(c) ==
    /\ c \in Leavers /\ client[c].at \notin {"off", "done", "failed", "left"}
    /\ MoveTo(c, "left")
    /\ gone' = gone \cup {c}
    /\ UNCHANGED << toGateway, toClient >>

\* A client may never be started: Connect is apart.
Upload(c) ==
    \/ SendRecord(c) \/ SendEnd(c)
    \/ ReceiveAck(c) \/ ReceiveEndAck(c) \/ ReceiveTop(c)
================================================================================
