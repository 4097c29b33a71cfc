----------------------------- MODULE GatewayProofs -----------------------------
(***************************************************************************)
(* The gateway's client_list and its connections: for any number of        *)
(* clients, any pool and any failures, the entry that is removed is the    *)
(* one that was served, a top reaches its own client, and client, upload   *)
(* task and response process take turns.                                   *)
(*                                                                         *)
(* The argument for the removal: unless the result at hand is for nobody    *)
(* in the list, its client has an entry that the scan has not passed, so   *)
(* the scan stops at it; only the response process removes entries, and    *)
(* the main process appends behind it, so that the index is still the      *)
(* entry's when it is used.  What the workers publish does not matter.     *)
(***************************************************************************)
EXTENDS Gateway, FiniteSetTheorems, SequenceTheorems, TLAPS

Messages == {Record, EndOfRecords, Ack} \cup {FruitTop(c) : c \in Clients}

Results == [of : Clients, empty : BOOLEAN]

Positions == [at : {"idle", "scan", "await_ack", "pop", "stopped"},
              result : Results \cup {NoResult}, index : Nat]

ClientRecords == [at : ClientStates, sent : Nat, top : Messages \cup {NoTop}]

Domains ==
    /\ client \in [Clients -> ClientRecords]
    /\ toGateway \in [Clients -> Seq(Messages)]
    /\ toClient \in [Clients -> Seq(Messages)]
    /\ handler \in [Clients -> HandlerStates]
    /\ published \in [Clients -> Nat]
    /\ clientList \in Seq(Clients) /\ jobs \in Seq(Clients) /\ results \in Seq(Results)
    /\ ended \subseteq Clients /\ answered \subseteq ended /\ strays \in Nat
    /\ responder \in Positions
    /\ responder.at # "idle" => responder.result \in Results

\* A task that is not started is its client's only one.
JobsQueued ==
    /\ \A i \in DOMAIN jobs : handler[jobs[i]] = "queued"
    /\ \A i, j \in DOMAIN jobs : jobs[i] = jobs[j] => i = j

Serving == responder.at \in {"scan", "await_ack", "pop"}

\* The task of a client whose EOF is published is past it.
EofLast == \A c \in ended : handler[c] \in {"ack_end", "returned"}

InResults(c) == \E i \in DOMAIN results : results[i].of = c

\* The results in the queue and at hand are of answered clients.
ResultsAnswered ==
    /\ \A c \in Clients : InResults(c) => c \in answered
    /\ responder.at # "idle" => responder.result.of \in answered

\* Without strays a result is a top, and in one place.
ResultsOnce ==
    strays = 0 =>
        /\ \A i \in DOMAIN results : ~results[i].empty
        /\ \A i, j \in DOMAIN results : results[i].of = results[j].of => i = j
        /\ Serving => ~responder.result.empty /\ ~InResults(responder.result.of)

Pending(c) == handler[c] # "none" /\ (c \notin answered \/ InResults(c))

\* Without strays a client that still has its result to come has its entry,
\* and so has the client of the result at hand.
PendingListed ==
    strays = 0 =>
        /\ Serving => ~ForNobody
        /\ responder.at # "stopped" => \A c \in Clients : Pending(c) => c \in Entries

\* The scan has not passed the entry it looks for, and then it is at it.
AtEntry ==
    /\ responder.index + 1 <= Len(clientList)
    /\ clientList[responder.index + 1] = responder.result.of

Ahead == \E i \in responder.index + 1 .. Len(clientList) :
            clientList[i] = responder.result.of

EntryAhead ==
    /\ responder.at = "scan" => ForNobody \/ Ahead
    /\ responder.at = "await_ack" => AtEntry
    /\ responder.at = "pop" => ForNobody \/ AtEntry

\* A top on its way, or received, is the client's own.
OwnTops ==
    \A c \in Clients :
        /\ \A i \in DOMAIN toClient[c] :
               toClient[c][i].type = "FRUIT_TOP" => toClient[c][i].of = c
        /\ client[c].top.type = "FRUIT_TOP" => client[c].top.of = c

ListInv ==
    /\ Domains /\ JobsQueued /\ EofLast
    /\ ResultsAnswered /\ ResultsOnce /\ PendingListed /\ EntryAhead

-----------------------------------------------------------------------------
(* Sequences.                                                              *)

LEMMA Appended ==
    ASSUME NEW S, NEW s \in Seq(S), NEW x \in S
    PROVE  /\ Append(s, x) \in Seq(S) /\ Len(Append(s, x)) = Len(s) + 1
           /\ \A i \in 1 .. Len(s) : Append(s, x)[i] = s[i]
           /\ Append(s, x)[Len(s) + 1] = x
OBVIOUS

LEMMA Removed ==
    ASSUME NEW S, NEW s \in Seq(S), s # <<>>
    PROVE  /\ Tail(s) \in Seq(S) /\ Head(s) \in S /\ Head(s) = s[1]
           /\ Len(s) \in Nat /\ Len(s) >= 1 /\ Len(Tail(s)) = Len(s) - 1
           /\ \A i \in 1 .. Len(s) - 1 : Tail(s)[i] = s[i + 1]
OBVIOUS

LEMMA PutBack ==
    ASSUME NEW S, NEW s \in Seq(S), NEW x \in S
    PROVE  /\ << x >> \o s \in Seq(S) /\ Len(<< x >> \o s) = Len(s) + 1
           /\ (<< x >> \o s)[1] = x
           /\ \A i \in 1 .. Len(s) : (<< x >> \o s)[i + 1] = s[i]
OBVIOUS

\* What is left when the entry at k + 1 is taken out.
LEMMA TakenOut ==
    ASSUME NEW S, NEW s \in Seq(S), NEW k \in Nat, k < Len(s)
    PROVE  LET t == SubSeq(s, 1, k) \o SubSeq(s, k + 2, Len(s)) IN
           /\ t \in Seq(S) /\ Len(t) = Len(s) - 1
           /\ \A j \in 1 .. Len(s) - 1 : t[j] = s[IF j <= k THEN j ELSE j + 1]
           /\ \A i \in DOMAIN s : i # k + 1 => \E j \in DOMAIN t : t[j] = s[i]
<1> DEFINE a == SubSeq(s, 1, k)
           b == SubSeq(s, k + 2, Len(s))
           t == a \o b
           rest == Len(s) - k - 1
<1>1. Len(s) \in Nat /\ rest \in Nat /\ \A i \in 1 .. Len(s) : s[i] \in S
  OBVIOUS
<1>2. /\ a \in Seq(S) /\ Len(a) = k
      /\ \A i \in 1 .. k : a[i] = s[i]
  BY <1>1, SubSeqProperties
<1>3. /\ b \in Seq(S) /\ Len(b) = rest
      /\ \A i \in 1 .. rest : b[i] = s[k + 1 + i]
  <2>1. \A i \in k + 2 .. Len(s) : s[i] \in S
    BY <1>1
  <2>2. /\ b \in Seq(S)
        /\ Len(b) = IF k + 2 <= Len(s) THEN Len(s) - (k + 2) + 1 ELSE 0
        /\ \A i \in 1 .. Len(s) - (k + 2) + 1 : b[i] = s[k + 2 + i - 1]
    BY <1>1, <2>1, SubSeqProperties
  <2> QED BY <1>1, <2>2
<1> HIDE DEF a, b, t
<1>4. /\ t \in Seq(S) /\ Len(t) = k + rest
      /\ \A i \in 1 .. k + rest : t[i] = IF i <= k THEN a[i] ELSE b[i - k]
  <2>1. t = a \o b
    BY DEF t
  <2>2. /\ a \o b \in Seq(S) /\ Len(a \o b) = Len(a) + Len(b)
        /\ \A i \in 1 .. Len(a) + Len(b) :
               (a \o b)[i] = IF i <= Len(a) THEN a[i] ELSE b[i - Len(a)]
    BY <1>2, <1>3, ConcatProperties
  <2> QED BY <1>2, <1>3, <2>1, <2>2
<1>5. ASSUME NEW i \in DOMAIN s, i # k + 1
      PROVE  \E j \in DOMAIN t : t[j] = s[i]
  <2>1. i \in 1 .. Len(s)
    BY <1>5
  <2>2. CASE i <= k
    <3>1. i \in 1 .. k + rest /\ t[i] = a[i]
      BY <1>1, <1>4, <2>1, <2>2
    <3> QED BY <1>2, <1>4, <2>1, <2>2, <3>1
  <2>3. CASE i > k + 1
    <3>1. i - 1 \in 1 .. k + rest /\ i - 1 - k \in 1 .. rest /\ ~(i - 1 <= k)
      BY <1>1, <2>1, <2>3
    <3>2. t[i - 1] = b[i - 1 - k]
      BY <1>4, <3>1
    <3>3. b[i - 1 - k] = s[k + 1 + (i - 1 - k)] /\ k + 1 + (i - 1 - k) = i
      BY <1>3, <2>1, <3>1
    <3>4. DOMAIN t = 1 .. Len(t)
      BY <1>4, LenProperties
    <3>5. i - 1 \in DOMAIN t
      BY <1>4, <3>1, <3>4
    <3> QED BY <3>2, <3>3, <3>5
  <2>4. i <= k \/ i > k + 1
    BY <1>5, <2>1
  <2> QED BY <2>2, <2>3, <2>4
<1>6. ASSUME NEW j \in 1 .. Len(s) - 1
      PROVE  t[j] = s[IF j <= k THEN j ELSE j + 1]
  <2>1. j \in 1 .. k + rest /\ (~(j <= k) => j - k \in 1 .. rest /\ k + 1 + (j - k) = j + 1)
    BY <1>1, <1>6
  <2>2. CASE j <= k
    BY <1>1, <1>2, <1>4, <1>6, <2>1, <2>2
  <2>3. CASE ~(j <= k)
    BY <1>3, <1>4, <2>1, <2>3
  <2> QED BY <2>2, <2>3
<1>7. Len(t) = Len(s) - 1
  BY <1>1, <1>4 DEF rest
<1> QED BY <1>4, <1>5, <1>6, <1>7 DEF a, b, t

-----------------------------------------------------------------------------
(* Steps that leave the list, the results and the response process alone.  *)

LEMMA ListUntouched ==
    ASSUME ResultsAnswered, ResultsOnce, PendingListed, EntryAhead,
           UNCHANGED << clientList, results, responder, answered, strays >>,
           \A c \in Clients : handler'[c] = "none" <=> handler[c] = "none"
    PROVE  ResultsAnswered' /\ ResultsOnce' /\ PendingListed' /\ EntryAhead'
<1>1. ResultsAnswered' /\ ResultsOnce'
  BY DEF ResultsAnswered, ResultsOnce, InResults, Serving
<1>2. PendingListed'
  BY DEF PendingListed, Pending, InResults, Entries, Serving, ForNobody
<1>3. EntryAhead'
  BY DEF EntryAhead, AtEntry, Ahead, ForNobody, Entries
<1> QED BY <1>1, <1>2, <1>3

LEMMA MessageTypes == /\ {Record, EndOfRecords, Ack} \subseteq Messages
                      /\ \A c \in Clients : FruitTop(c) \in Messages
BY DEF Messages

ClientParts ==
    /\ client \in [Clients -> ClientRecords]
    /\ toGateway \in [Clients -> Seq(Messages)]
    /\ toClient \in [Clients -> Seq(Messages)]

\* The clients.
LEMMA ClientDomains ==
    ASSUME ClientParts, NEW c \in Clients, Connect(c) \/ Upload(c) \/ Leave(c)
    PROVE  ClientParts'
<1>0. /\ toClient[c] \in Seq(Messages) /\ toGateway[c] \in Seq(Messages)
      /\ client[c] \in ClientRecords
  BY DEF ClientParts
<1>1. CASE Connect(c) \/ Leave(c)
  <2>1. PICK at \in ClientStates : client' = [client EXCEPT ![c].at = at]
    BY <1>1 DEF Connect, Leave, MoveTo, ClientStates
  <2>2. [client[c] EXCEPT !.at = at] \in ClientRecords
    BY <1>0 DEF ClientRecords
  <2> QED BY <1>1, <2>1, <2>2 DEF ClientParts, Connect, Leave
<1>2. CASE SendRecord(c) \/ SendEnd(c)
  <2>1. PICK m \in Messages : toGateway' = [toGateway EXCEPT ![c] = Append(@, m)]
    BY <1>2, MessageTypes DEF SendRecord, SendEnd, Send
  <2>2. PICK at \in ClientStates : client' = [client EXCEPT ![c].at = at]
    BY <1>2 DEF SendRecord, SendEnd, MoveTo, ClientStates
  <2>3. [client[c] EXCEPT !.at = at] \in ClientRecords
    BY <1>0 DEF ClientRecords
  <2>4. toClient' = toClient /\ Append(toGateway[c], m) \in Seq(Messages)
    BY <1>0, <1>2, Appended DEF SendRecord, SendEnd
  <2> QED BY <2>1, <2>2, <2>3, <2>4 DEF ClientParts
<1>3. CASE ReceiveAck(c) \/ ReceiveEndAck(c)
  <2>1. /\ toClient' = [toClient EXCEPT ![c] = Tail(@)] /\ toGateway' = toGateway
        /\ Tail(toClient[c]) \in Seq(Messages)
    BY <1>0, <1>3, Removed DEF ReceiveAck, ReceiveEndAck
  <2>2. PICK rec \in ClientRecords : client' = [client EXCEPT ![c] = rec]
    <3> DEFINE r1 == [client[c] EXCEPT !.at = "sending", !.sent = @ + 1]
               r2 == [client[c] EXCEPT !.at = "await_top"]
    <3>1. r1 \in ClientRecords
      <4>1. client[c].sent + 1 \in Nat
        BY <1>0 DEF ClientRecords
      <4> QED BY <1>0, <4>1 DEF ClientRecords, ClientStates
    <3>2. r2 \in ClientRecords
      BY <1>0 DEF ClientRecords, ClientStates
    <3>3. \/ client' = [client EXCEPT ![c] = r1]
          \/ client' = [client EXCEPT ![c] = r2]
      BY <1>3 DEF ReceiveAck, ReceiveEndAck, MoveTo, ClientParts
    <3> QED BY <3>1, <3>2, <3>3
  <2> QED BY <2>1, <2>2 DEF ClientParts
<1>4. CASE ReceiveTop(c)
  <2>1. /\ toClient' = [toClient EXCEPT ![c] = Tail(@)]
        /\ toGateway' = [toGateway EXCEPT ![c] = Append(@, Ack)]
        /\ Head(toClient[c]) \in Messages /\ Tail(toClient[c]) \in Seq(Messages)
        /\ Append(toGateway[c], Ack) \in Seq(Messages)
    BY <1>0, <1>4, Removed, Appended, MessageTypes DEF ReceiveTop, Send
  <2>2. PICK rec \in ClientRecords : client' = [client EXCEPT ![c] = rec]
    <3> DEFINE m == Head(toClient[c])
               rec == [client[c] EXCEPT
                           !.at = IF m.type = "FRUIT_TOP" THEN "done" ELSE "failed",
                           !.top = m]
    <3>1. rec \in ClientRecords
      BY <1>0, <2>1 DEF ClientRecords, ClientStates
    <3>2. client' = [client EXCEPT ![c] = rec]
      BY <1>4 DEF ReceiveTop, ClientParts
    <3> QED BY <3>1, <3>2
  <2> QED BY <2>1, <2>2 DEF ClientParts
<1> QED BY <1>1, <1>2, <1>3, <1>4 DEF Upload

LEMMA ClientKeepsListInv ==
    ASSUME ListInv, NEW c \in Clients, Connect(c) \/ Upload(c) \/ Leave(c),
           UNCHANGED gatewayVars
    PROVE  ListInv'
<1>1. ClientParts'
  BY ClientDomains DEF ListInv, Domains, ClientParts
<1>2. Domains'
  BY <1>1 DEF ListInv, Domains, ClientParts, gatewayVars
<1>3. EofLast' /\ JobsQueued'
  BY DEF ListInv, EofLast, JobsQueued, gatewayVars
<1>4. ResultsAnswered' /\ ResultsOnce' /\ PendingListed' /\ EntryAhead'
  BY ListUntouched DEF ListInv, gatewayVars
<1> QED BY <1>2, <1>3, <1>4 DEF ListInv

\* The main process.
LEMMA AcceptKeepsListInv ==
    ASSUME ListInv, NEW c \in Clients, Accept(c)
    PROVE  ListInv'
<1> USE DEF ListInv
<1>1. /\ clientList' \in Seq(Clients) /\ Len(clientList') = Len(clientList) + 1
      /\ Len(clientList) \in Nat
      /\ \A i \in 1 .. Len(clientList) : clientList'[i] = clientList[i]
      /\ clientList'[Len(clientList) + 1] = c
  BY Appended DEF Accept, Domains
<1>2. /\ handler[c] = "none" /\ handler' = [handler EXCEPT ![c] = "queued"]
      /\ UNCHANGED << clientVars, published, ended, answered, strays, results, responder >>
  BY DEF Accept
<1>3. /\ jobs' \in Seq(Clients) /\ Len(jobs') = Len(jobs) + 1 /\ Len(jobs) \in Nat
      /\ \A i \in 1 .. Len(jobs) : jobs'[i] = jobs[i]
      /\ jobs'[Len(jobs) + 1] = c
  BY Appended DEF Accept, Domains
<1>4. Domains'
  <2>1. handler' \in [Clients -> HandlerStates]
    BY <1>2 DEF Domains, HandlerStates
  <2> QED BY <1>1, <1>2, <1>3, <2>1 DEF Domains, clientVars
<1>5. EofLast'
  <2>1. c \notin ended
    BY <1>2 DEF EofLast
  <2> QED BY <1>2, <2>1 DEF Domains, EofLast
<1>6. JobsQueued'
  <2>1. jobs \in Seq(Clients) /\ handler \in [Clients -> HandlerStates]
    BY DEF Domains
  <2>2. \A i \in DOMAIN jobs : i \in 1 .. Len(jobs) /\ jobs[i] \in Clients /\ jobs[i] # c
    BY <1>2, <2>1 DEF JobsQueued
  <2>3. \A i \in DOMAIN jobs' : \/ i \in DOMAIN jobs /\ jobs'[i] = jobs[i]
                                \/ i = Len(jobs) + 1 /\ jobs'[i] = c
    BY <1>3, <2>1
  <2>4. \A i \in DOMAIN jobs' : handler'[jobs'[i]] = "queued"
    BY <1>2, <2>1, <2>2, <2>3 DEF JobsQueued
  <2>5. \A i, j \in DOMAIN jobs' : jobs'[i] = jobs'[j] => i = j
    BY <2>2, <2>3 DEF JobsQueued
  <2> QED BY <2>4, <2>5 DEF JobsQueued
<1>7. ResultsAnswered' /\ ResultsOnce'
  BY <1>2 DEF ResultsAnswered, ResultsOnce, InResults, Serving
<1>8. c \in Entries' /\ Entries \subseteq Entries' /\ Entries' \subseteq Entries \cup {c}
  <2>1. DOMAIN clientList = 1 .. Len(clientList) /\ DOMAIN clientList' = 1 .. Len(clientList')
    BY <1>1, LenProperties DEF Domains
  <2>2. Len(clientList) + 1 \in DOMAIN clientList'
        /\ \A i \in DOMAIN clientList : i \in DOMAIN clientList'
    BY <1>1, <2>1
  <2>3. \A i \in DOMAIN clientList' : i \in DOMAIN clientList \/ i = Len(clientList) + 1
    BY <1>1, <2>1
  <2> QED BY <1>1, <2>1, <2>2, <2>3 DEF Entries
<1>9. Serving => (ForNobody' <=> ForNobody)
  <2>1. Serving => responder.result.of # c
    BY <1>2 DEF ResultsAnswered, EofLast, Domains, Serving
  <2> QED BY <1>2, <1>8, <2>1 DEF ForNobody
<1>10. PendingListed'
  <2>1. \A d \in Clients : Pending(d)' => Pending(d) \/ d = c
    BY <1>2 DEF Pending, InResults, Domains
  <2>2. Serving' <=> Serving
    BY <1>2 DEF Serving
  <2> QED BY <1>2, <1>8, <1>9, <2>1, <2>2 DEF PendingListed
<1>11. EntryAhead'
  <2>1. responder.index \in Nat /\ responder' = responder
    BY <1>2 DEF Domains, Positions
  <2>2. (Ahead => Ahead') /\ (AtEntry => AtEntry')
    BY <1>1, <2>1 DEF Ahead, AtEntry
  <2> QED BY <1>9, <2>1, <2>2 DEF EntryAhead, Serving
<1> QED BY <1>4, <1>5, <1>6, <1>7, <1>10, <1>11

\* The pool.
LEMMA StartJobKeepsListInv ==
    ASSUME ListInv, StartJob
    PROVE  ListInv'
<1> USE DEF ListInv
<1> DEFINE c == Head(jobs)
<1>1. jobs \in Seq(Clients) /\ jobs # <<>> /\ handler \in [Clients -> HandlerStates]
  BY DEF StartJob, Domains
<1>2. /\ jobs' = Tail(jobs) /\ handler' = [handler EXCEPT ![c] = "recv"]
      /\ UNCHANGED << clientVars, clientList, published, ended, answered, strays, results,
                      responder >>
  BY DEF StartJob
<1>3. /\ jobs' \in Seq(Clients) /\ c \in Clients /\ c = jobs[1]
      /\ Len(jobs) \in Nat /\ Len(jobs) >= 1 /\ Len(jobs') = Len(jobs) - 1
      /\ \A i \in 1 .. Len(jobs) - 1 : jobs'[i] = jobs[i + 1]
  BY <1>1, <1>2, Removed
<1> HIDE DEF c
<1>4. \A i \in DOMAIN jobs' : i \in Nat /\ i + 1 \in DOMAIN jobs /\ jobs'[i] = jobs[i + 1]
                              /\ i + 1 # 1
  BY <1>1, <1>3
<1>5. handler[c] = "queued" /\ 1 \in DOMAIN jobs
  BY <1>1, <1>3 DEF JobsQueued
<1>6. Domains'
  <2>1. handler' \in [Clients -> HandlerStates]
    BY <1>1, <1>2, <1>3 DEF HandlerStates
  <2> QED BY <1>2, <1>3, <2>1 DEF Domains, clientVars
<1>7. JobsQueued'
  <2>1. ASSUME NEW i \in DOMAIN jobs', NEW j \in DOMAIN jobs', jobs'[i] = jobs'[j]
        PROVE  i = j
    <3>1. jobs[i + 1] = jobs[j + 1] /\ i + 1 \in DOMAIN jobs /\ j + 1 \in DOMAIN jobs
      BY <1>4, <2>1
    <3>2. i + 1 = j + 1
      BY <3>1 DEF JobsQueued
    <3> QED BY <1>4, <2>1, <3>2
  <2>2. \A i \in DOMAIN jobs' : jobs'[i] # c /\ handler[jobs'[i]] = "queued"
    BY <1>3, <1>4, <1>5 DEF JobsQueued
  <2>3. \A i \in DOMAIN jobs' : jobs'[i] \in Clients
    BY <1>3
  <2> QED BY <1>1, <1>2, <2>1, <2>2, <2>3 DEF JobsQueued
<1>8. EofLast'
  <2>1. c \notin ended
    BY <1>5 DEF EofLast
  <2> QED BY <1>1, <1>2, <2>1 DEF EofLast, Domains
<1>9. ResultsAnswered' /\ ResultsOnce' /\ PendingListed' /\ EntryAhead'
  <2>1. \A d \in Clients : handler'[d] = "none" <=> handler[d] = "none"
    BY <1>1, <1>2, <1>5
  <2> QED BY <1>2, <2>1, ListUntouched
<1> QED BY <1>6, <1>7, <1>8, <1>9

\* The upload tasks: what they change besides the sockets.
UploadStep(c) ==
    /\ \E from \in {"recv", "ack_record", "ack_end"}, to \in HandlerStates \ {"none", "queued"} :
          /\ handler[c] = from /\ handler' = [handler EXCEPT ![c] = to]
          /\ from = "ack_end" => to = "returned"
          /\ c \in ended' => to \in {"ack_end", "returned"}
    /\ toGateway' \in [Clients -> Seq(Messages)]
    /\ toClient' \in [Clients -> Seq(Messages)]
    /\ \/ published' = published
       \/ handler[c] = "recv" /\ published' = [published EXCEPT ![c] = @ + 1]
    /\ ended \subseteq ended' /\ ended' \subseteq ended \cup {c}
    /\ UNCHANGED << client, gone, clientList, jobs, answered, strays, results, responder >>

LEMMA ReadDomain ==
    ASSUME ListInv, NEW c \in Clients, Read(c)
    PROVE  toGateway' \in [Clients -> Seq(Messages)]
<1>1. toGateway[c] \in Seq(Messages) /\ toGateway[c] # <<>>
  BY DEF ListInv, Domains, Read
<1>2. Tail(toGateway[c]) \in Seq(Messages)
  BY <1>1, Removed
<1> QED BY <1>2 DEF ListInv, Domains, Read

LEMMA ReplyDomain ==
    ASSUME ListInv, NEW c \in Clients, NEW m \in Messages, Reply(c, m)
    PROVE  toClient' \in [Clients -> Seq(Messages)]
<1>1. Append(toClient[c], m) \in Seq(Messages)
  BY Appended DEF ListInv, Domains
<1> QED BY <1>1 DEF ListInv, Domains, Reply

LEMMA UploadSteps ==
    ASSUME ListInv, NEW c \in Clients, Uploads(c)
    PROVE  UploadStep(c)
<1>0. /\ toGateway \in [Clients -> Seq(Messages)] /\ toClient \in [Clients -> Seq(Messages)]
      /\ handler[c] = "recv" \/ handler[c] = "ack_record" => c \notin ended
  BY DEF ListInv, Domains, EofLast
<1> USE DEF HandlerStates
<1>1. CASE ForwardRecord(c) \/ ForwardEof(c) \/ PublishFails(c)
  <2>1. toGateway' \in [Clients -> Seq(Messages)]
    BY <1>1, ReadDomain DEF ForwardRecord, ForwardEof, PublishFails
  <2> QED BY <1>0, <1>1, <2>1 DEF UploadStep, HandlerAt, ForwardRecord, ForwardEof, PublishFails
<1>2. CASE AckRecord(c) \/ AckEnd(c)
  <2>1. toClient' \in [Clients -> Seq(Messages)]
    BY <1>2, ReplyDomain, MessageTypes DEF AckRecord, AckEnd
  <2> QED BY <1>0, <1>2, <2>1 DEF UploadStep, HandlerAt, AckRecord, AckEnd
<1>3. CASE RequestFails(c)
  BY <1>0, <1>3 DEF UploadStep, HandlerAt, RequestFails
<1> QED BY <1>1, <1>2, <1>3 DEF Uploads, RequestHandler

LEMMA UploadsKeepListInv ==
    ASSUME ListInv, NEW c \in Clients, Uploads(c)
    PROVE  ListInv'
<1> USE DEF ListInv
<1>0. UploadStep(c) /\ handler \in [Clients -> HandlerStates] /\ published \in [Clients -> Nat]
  BY UploadSteps DEF Domains
<1>1. Domains'
  <2>1. /\ handler' \in [Clients -> HandlerStates] /\ published' \in [Clients -> Nat]
        /\ toGateway' \in [Clients -> Seq(Messages)] /\ toClient' \in [Clients -> Seq(Messages)]
    BY <1>0 DEF UploadStep
  <2>2. /\ ended' \subseteq Clients /\ answered' \subseteq ended'
        /\ UNCHANGED << client, clientList, jobs, results, strays, responder >>
    BY <1>0 DEF UploadStep, Domains
  <2> QED BY <2>1, <2>2 DEF Domains
<1>2. EofLast'
  BY <1>0 DEF UploadStep, Domains, EofLast
<1>3. JobsQueued'
  BY <1>0 DEF UploadStep, Domains, JobsQueued
<1>4. ResultsAnswered' /\ ResultsOnce' /\ PendingListed' /\ EntryAhead'
  <2>1. \A d \in Clients : handler'[d] = "none" <=> handler[d] = "none"
    BY <1>0 DEF UploadStep
  <2> QED BY <1>0, <2>1, ListUntouched DEF UploadStep
<1> QED BY <1>1, <1>2, <1>3, <1>4

-----------------------------------------------------------------------------
(* The answers and the response process.                                   *)

\* What a result that is published changes.
Published(c, empty) ==
    /\ c \in ended /\ answered' = answered \cup {c}
    /\ results' = Append(results, Result(c, empty))
    /\ strays' \in Nat /\ (strays' = 0 => strays = 0 /\ c \notin answered /\ ~empty)
    /\ UNCHANGED << clientVars, clientList, jobs, handler, published, ended, responder >>

LEMMA AnswerPublishes ==
    ASSUME ListInv, NEW c \in Clients, Answer(c) \/ AnswerAstray(c)
    PROVE  \E empty \in BOOLEAN : Published(c, empty)
<1>1. strays \in Nat /\ strays + 1 \in Nat /\ strays + 1 # 0
  BY DEF ListInv, Domains
<1>2. CASE Answer(c)
  <2>1. Published(c, FALSE)
    BY <1>1, <1>2 DEF Answer, PublishResult, Published
  <2> QED BY <2>1
<1>3. CASE AnswerAstray(c)
  <2>1. PICK empty \in BOOLEAN : PublishResult(c, empty)
    BY <1>3 DEF AnswerAstray
  <2>2. strays' = strays + 1
    BY <1>3 DEF AnswerAstray
  <2>3. Published(c, empty)
    BY <1>1, <2>1, <2>2 DEF PublishResult, Published
  <2> QED BY <2>3
<1> QED BY <1>2, <1>3

LEMMA AnswerKeepsListInv ==
    ASSUME ListInv, NEW c \in Clients, Answer(c) \/ AnswerAstray(c)
    PROVE  ListInv'
<1> USE DEF ListInv
<1>1. PICK empty \in BOOLEAN : Published(c, empty)
  BY AnswerPublishes
<1>2. /\ c \in ended /\ answered' = answered \cup {c} /\ strays' \in Nat
      /\ strays' = 0 => strays = 0 /\ c \notin answered /\ ~empty
      /\ UNCHANGED << clientVars, clientList, jobs, handler, published, ended, responder >>
  BY <1>1 DEF Published
<1>3. Result(c, empty) \in Results /\ Result(c, empty).of = c /\ Result(c, empty).empty = empty
  BY DEF Results, Result
<1>4. /\ results \in Seq(Results) /\ results' \in Seq(Results)
      /\ Len(results) \in Nat /\ Len(results') = Len(results) + 1
      /\ \A i \in 1 .. Len(results) : results'[i] = results[i]
      /\ results'[Len(results) + 1] = Result(c, empty)
  BY <1>1, <1>3, Appended DEF Published, Domains
<1>5. Domains' /\ EofLast' /\ JobsQueued'
  BY <1>2, <1>4 DEF Domains, EofLast, JobsQueued, clientVars
<1>6. \A i \in DOMAIN results' : \/ i \in DOMAIN results /\ results'[i] = results[i]
                                 \/ i = Len(results) + 1 /\ results'[i] = Result(c, empty)
  BY <1>4
<1>7. \A d \in Clients : InResults(d)' => InResults(d) \/ d = c
  BY <1>3, <1>6 DEF InResults
<1>8. Serving => responder.result \in Results /\ responder.result.of \in Clients
  BY DEF Serving, Domains, Results
<1>9. ResultsAnswered'
  BY <1>2, <1>7 DEF ResultsAnswered, Serving
<1>10. ResultsOnce'
  <2> SUFFICES ASSUME strays' = 0 PROVE ResultsOnce'
    BY DEF ResultsOnce
  <2>1. strays = 0 /\ c \notin answered /\ ~empty /\ ~InResults(c)
    BY <1>2 DEF ResultsAnswered
  <2>2. \A i \in DOMAIN results' : ~results'[i].empty
    BY <1>3, <1>6, <2>1 DEF ResultsOnce
  <2>3. \A i, j \in DOMAIN results' : results'[i].of = results'[j].of => i = j
    BY <1>3, <1>6, <2>1 DEF ResultsOnce, InResults
  <2>4. Serving' => ~responder'.result.empty /\ ~InResults(responder.result.of)'
    <3> SUFFICES ASSUME Serving'
                 PROVE  ~responder'.result.empty /\ ~InResults(responder.result.of)'
      OBVIOUS
    <3>1. responder' = responder /\ Serving
      BY <1>2 DEF Serving
    <3>2. responder.result.of # c
      BY <2>1, <3>1 DEF ResultsAnswered, Serving
    <3>3. ~responder.result.empty /\ ~InResults(responder.result.of)
      BY <2>1, <3>1 DEF ResultsOnce
    <3> QED BY <1>7, <1>8, <3>1, <3>2, <3>3
  <2> QED BY <2>2, <2>3, <2>4 DEF ResultsOnce
<1>11. PendingListed'
  <2>1. handler[c] # "none"
    BY <1>2 DEF EofLast
  <2>2. strays' = 0 => \A d \in Clients : Pending(d)' => Pending(d)
    BY <1>2, <1>7, <2>1 DEF Pending
  <2>3. (Serving' <=> Serving) /\ (ForNobody' <=> ForNobody) /\ Entries' = Entries
    BY <1>2 DEF Serving, ForNobody, Entries
  <2> QED BY <1>2, <2>2, <2>3 DEF PendingListed
<1>12. EntryAhead'
  BY <1>2 DEF EntryAhead, AtEntry, Ahead, ForNobody, Entries
<1> QED BY <1>5, <1>9, <1>10, <1>11, <1>12

\* A result in the hands of the response process is an answered client's.
LEMMA ServedIsClient ==
    ASSUME ListInv, Serving
    PROVE  /\ responder.result \in Results /\ responder.result.of \in Clients
           /\ responder.result.of \in answered /\ handler[responder.result.of] # "none"
           /\ responder.index \in Nat
BY DEF ListInv, Domains, ResultsAnswered, EofLast, Positions, Results, Serving

LEMMA TakeResultKeepsListInv ==
    ASSUME ListInv, TakeResult
    PROVE  ListInv'
<1> USE DEF ListInv
<1> DEFINE r == Head(results)
<1>1. /\ results # <<>> /\ results \in Seq(Results) /\ responder.at = "idle"
      /\ responder' = [at |-> "scan", result |-> r, index |-> 0] /\ results' = Tail(results)
      /\ UNCHANGED << requestVars, toGateway, toClient, clientList >>
  BY DEF TakeResult, Domains
<1>2. /\ results' \in Seq(Results) /\ r \in Results /\ r = results[1]
      /\ Len(results) \in Nat /\ Len(results) >= 1 /\ Len(results') = Len(results) - 1
      /\ \A i \in 1 .. Len(results) - 1 : results'[i] = results[i + 1]
  BY <1>1, Removed
<1> HIDE DEF r
<1>3. r.of \in Clients /\ 1 \in DOMAIN results
  BY <1>1, <1>2 DEF Results
<1>4. \A i \in DOMAIN results' : i \in Nat /\ i + 1 \in DOMAIN results
                                 /\ results'[i] = results[i + 1] /\ i + 1 # 1
  BY <1>1, <1>2
<1>5. InResults(r.of) /\ r.of \in answered
  <2>1. InResults(r.of)
    BY <1>2, <1>3 DEF InResults
  <2> QED BY <1>3, <2>1 DEF ResultsAnswered
<1>6. \A d \in Clients : InResults(d)' => InResults(d)
  BY <1>4 DEF InResults
<1>7. Domains'
  BY <1>1, <1>2 DEF Domains, Positions, requestVars
<1>8. EofLast' /\ JobsQueued'
  BY <1>1 DEF EofLast, JobsQueued, requestVars
<1>9. ResultsAnswered'
  BY <1>1, <1>5, <1>6 DEF ResultsAnswered, requestVars
<1>10. ResultsOnce'
  <2> SUFFICES ASSUME strays = 0
               PROVE  /\ \A i \in DOMAIN results' : ~results'[i].empty
                      /\ \A i, j \in DOMAIN results' : results'[i].of = results'[j].of => i = j
                      /\ ~r.empty /\ \A i \in DOMAIN results' : results'[i].of # r.of
    BY <1>1 DEF ResultsOnce, InResults, requestVars
  <2>1. ASSUME NEW i \in DOMAIN results', NEW j \in DOMAIN results',
               results'[i].of = results'[j].of
        PROVE  i = j
    <3>1. results[i + 1].of = results[j + 1].of /\ i + 1 \in DOMAIN results
          /\ j + 1 \in DOMAIN results
      BY <1>4, <2>1
    <3>2. i + 1 = j + 1
      BY <3>1 DEF ResultsOnce
    <3> QED BY <1>4, <2>1, <3>2
  <2>2. \A i \in DOMAIN results' : ~results'[i].empty /\ results'[i].of # r.of
    BY <1>2, <1>3, <1>4 DEF ResultsOnce
  <2>3. ~r.empty
    BY <1>2, <1>3 DEF ResultsOnce
  <2> QED BY <2>1, <2>2, <2>3
<1>11. Entries' = Entries /\ answered' = answered /\ handler' = handler /\ strays' = strays
  BY <1>1 DEF Entries, requestVars
<1>12. PendingListed'
  <2> SUFFICES ASSUME strays = 0
               PROVE  ~ForNobody' /\ \A d \in Clients : Pending(d)' => d \in Entries
    BY <1>1, <1>11 DEF PendingListed
  <2>1. \A d \in Clients : Pending(d)' => Pending(d)
    BY <1>6, <1>11 DEF Pending
  <2>2. \A d \in Clients : Pending(d) => d \in Entries
    BY <1>1 DEF PendingListed
  <2>3. Pending(r.of)
    BY <1>5 DEF Pending, EofLast, Domains
  <2>4. ~r.empty
    BY <1>2, <1>3 DEF ResultsOnce
  <2>5. ~ForNobody'
    BY <1>1, <1>3, <1>11, <2>2, <2>3, <2>4 DEF ForNobody
  <2> QED BY <2>1, <2>2, <2>5
<1>13. EntryAhead'
  <2>1. r.of \in Entries => \E i \in 1 .. Len(clientList) : clientList[i] = r.of
    <3>1. DOMAIN clientList = 1 .. Len(clientList)
      BY LenProperties DEF Domains
    <3> QED BY <3>1 DEF Entries
  <2>2. responder'.at = "scan" /\ responder'.result = r /\ responder'.index + 1 = 1
        /\ clientList' = clientList
    BY <1>1
  <2>3. ForNobody' \/ Ahead'
    BY <1>11, <2>1, <2>2 DEF ForNobody, Ahead
  <2> QED BY <2>2, <2>3 DEF EntryAhead
<1> QED BY <1>7, <1>8, <1>9, <1>10, <1>12, <1>13

\* A step of the response process with one result in hand, that leaves the list
\* and the results alone.
LEMMA ServingStep ==
    ASSUME ListInv, Serving, responder' \in Positions,
           responder'.at \in {"scan", "await_ack", "pop"},
           responder'.result = responder.result,
           toGateway' \in [Clients -> Seq(Messages)],
           toClient' \in [Clients -> Seq(Messages)],
           UNCHANGED << requestVars, clientList, results >>
    PROVE  /\ Domains' /\ JobsQueued' /\ EofLast'
           /\ ResultsAnswered' /\ ResultsOnce' /\ PendingListed'
           /\ ForNobody' <=> ForNobody
<1> USE DEF ListInv
<1>0. responder'.result \in Results
  BY ServedIsClient
<1>1. Domains' /\ JobsQueued' /\ EofLast'
  <2>1. Domains'
    BY <1>0 DEF Domains, requestVars
  <2>2. JobsQueued' /\ EofLast'
    BY DEF JobsQueued, EofLast, requestVars
  <2> QED BY <2>1, <2>2
<1>2. ForNobody' <=> ForNobody
  BY DEF ForNobody, Entries
<1>3. \A d : InResults(d)' <=> InResults(d)
  BY DEF InResults
<1>4. /\ Serving' /\ answered' = answered /\ results' = results /\ strays' = strays
      /\ responder.at \notin {"idle", "stopped"}
  BY DEF Serving, requestVars
<1>5. ResultsAnswered' /\ ResultsOnce'
  BY <1>3, <1>4 DEF ResultsAnswered, ResultsOnce
<1>6. PendingListed'
  <2>1. \A d \in Clients : Pending(d)' <=> Pending(d)
    BY <1>3 DEF Pending, requestVars
  <2> QED BY <1>2, <1>4, <2>1 DEF PendingListed, Entries
<1> QED BY <1>1, <1>2, <1>5, <1>6

LEMMA ScanKeepsListInv ==
    ASSUME ListInv, SkipClient \/ SendTop \/ ScanEnds
    PROVE  ListInv'
<1> USE DEF ListInv
<1>0. /\ responder.at = "scan" /\ responder \in Positions /\ Serving
      /\ clientList \in Seq(Clients) /\ Len(clientList) \in Nat
      /\ toGateway \in [Clients -> Seq(Messages)] /\ toClient \in [Clients -> Seq(Messages)]
  BY DEF SkipClient, SendTop, ScanEnds, Domains, Serving
<1>1. responder.index \in Nat
  BY <1>0, ServedIsClient
<1>2. CASE SkipClient
  <2>1. /\ responder' = [responder EXCEPT !.index = @ + 1]
        /\ UNCHANGED << requestVars, toGateway, toClient, clientList, results >>
        /\ ~IsFor(responder.index + 1)
    BY <1>2 DEF SkipClient
  <2>2. /\ responder' \in Positions /\ responder'.at = "scan"
        /\ responder'.result = responder.result /\ responder'.index = responder.index + 1
    <3>1. responder.index + 1 \in Nat
      BY <1>1
    <3> QED BY <1>0, <2>1, <3>1 DEF Positions
  <2>3. /\ Domains' /\ JobsQueued' /\ EofLast'
        /\ ResultsAnswered' /\ ResultsOnce' /\ PendingListed'
        /\ ForNobody' <=> ForNobody
    BY <1>0, <2>1, <2>2, ServingStep
  <2>4. ASSUME ~ForNobody
        PROVE  Ahead'
    <3>1. PICK i \in responder.index + 1 .. Len(clientList) :
               clientList[i] = responder.result.of
      BY <1>0, <2>4 DEF EntryAhead, Ahead
    <3>2. i # responder.index + 1
      BY <1>1, <2>1, <2>4, <3>1 DEF IsFor, ForNobody
    <3>3. i \in responder'.index + 1 .. Len(clientList)
      BY <1>0, <1>1, <2>2, <3>2
    <3> QED BY <2>1, <2>2, <3>1, <3>3 DEF Ahead
  <2>5. EntryAhead'
    BY <2>2, <2>3, <2>4 DEF EntryAhead
  <2> QED BY <2>3, <2>5
<1>3. CASE SendTop
  <2> DEFINE c == clientList[responder.index + 1]
  <2>1. /\ responder' = [responder EXCEPT !.at = "await_ack"]
        /\ responder.index < Len(clientList) /\ c = responder.result.of
        /\ Reply(c, FruitTop(responder.result.of))
        /\ UNCHANGED << requestVars, toGateway, clientList, results >>
    BY <1>3 DEF SendTop, IsFor
  <2>2. toClient' \in [Clients -> Seq(Messages)]
    BY <1>0, <2>1, ServedIsClient, MessageTypes, ReplyDomain
  <2>3. /\ responder' \in Positions /\ responder'.at = "await_ack"
        /\ responder'.result = responder.result /\ responder'.index = responder.index
    BY <1>0, <2>1 DEF Positions
  <2>4. /\ Domains' /\ JobsQueued' /\ EofLast'
        /\ ResultsAnswered' /\ ResultsOnce' /\ PendingListed'
    BY <1>0, <2>1, <2>2, <2>3, ServingStep
  <2>5. EntryAhead'
    <3>1. AtEntry'
      BY <1>0, <1>1, <2>1, <2>3 DEF AtEntry
    <3> QED BY <2>3, <3>1 DEF EntryAhead
  <2> QED BY <2>4, <2>5
<1>4. CASE ScanEnds
  <2>1. /\ responder' = [responder EXCEPT !.at = "pop"]
        /\ responder.index >= Len(clientList)
        /\ UNCHANGED << requestVars, toGateway, toClient, clientList, results >>
    BY <1>4 DEF ScanEnds
  <2>2. /\ responder' \in Positions /\ responder'.at = "pop"
        /\ responder'.result = responder.result
    BY <1>0, <2>1 DEF Positions
  <2>3. /\ Domains' /\ JobsQueued' /\ EofLast'
        /\ ResultsAnswered' /\ ResultsOnce' /\ PendingListed'
        /\ ForNobody' <=> ForNobody
    BY <1>0, <2>1, <2>2, ServingStep
  <2>4. ForNobody
    <3>1. ~Ahead
      BY <1>0, <1>1, <2>1 DEF Ahead
    <3> QED BY <1>0, <3>1 DEF EntryAhead
  <2>5. EntryAhead'
    BY <2>2, <2>3, <2>4 DEF EntryAhead
  <2> QED BY <2>3, <2>5
<1> QED BY <1>2, <1>3, <1>4

\* The entry of the client that acknowledged its top, or left, is the one to pop.
LEMMA ServedKeepsListInv ==
    ASSUME ListInv, ReadAck \/ SocketError
    PROVE  ListInv'
<1> USE DEF ListInv
<1>0. /\ responder \in Positions /\ Serving /\ responder.index \in Nat
      /\ responder.result.of \in Clients /\ Len(clientList) \in Nat
      /\ toGateway \in [Clients -> Seq(Messages)] /\ toClient \in [Clients -> Seq(Messages)]
  <2>1. Serving
    BY DEF ReadAck, SocketError, ServedLeft, Serving
  <2>2. responder.index \in Nat /\ responder.result.of \in Clients
    BY <2>1, ServedIsClient
  <2> QED BY <2>1, <2>2 DEF Domains
<1>1. AtEntry
  BY <1>0 DEF ReadAck, SocketError, ServedLeft, IsFor, EntryAhead, AtEntry
<1>2. /\ responder' = [responder EXCEPT !.at = "pop"]
      /\ UNCHANGED << requestVars, toClient, clientList, results >>
  BY DEF ReadAck, SocketError
<1>3. toGateway' \in [Clients -> Seq(Messages)]
  <2>1. CASE ReadAck
    BY <1>0, <1>1, <2>1, ReadDomain DEF ReadAck, AtEntry
  <2>2. CASE SocketError
    BY <1>0, <2>2 DEF SocketError
  <2> QED BY <2>1, <2>2
<1>4. /\ responder' \in Positions /\ responder'.at = "pop"
      /\ responder'.result = responder.result /\ responder'.index = responder.index
  BY <1>0, <1>2 DEF Positions
<1>5. /\ Domains' /\ JobsQueued' /\ EofLast'
      /\ ResultsAnswered' /\ ResultsOnce' /\ PendingListed'
  BY <1>0, <1>2, <1>3, <1>4, ServingStep DEF Domains
<1>6. EntryAhead'
  BY <1>1, <1>2, <1>4 DEF EntryAhead, AtEntry
<1> QED BY <1>5, <1>6

\* A response process that stopped touches nothing again.
LEMMA StopKeepsListInv ==
    ASSUME ListInv, EndOfStream \/ TopOverflows \/ PopFails
    PROVE  ListInv'
<1> USE DEF ListInv
<1> DEFINE r == responder.result
<1>1. Serving /\ StopConsuming
  BY DEF EndOfStream, TopOverflows, PopFails, Serving
<1>2. r \in Results /\ r.of \in answered /\ results \in Seq(Results)
  BY <1>1, ServedIsClient DEF Domains
<1>3. /\ responder' = [responder EXCEPT !.at = "stopped"] /\ results' = << r >> \o results
      /\ UNCHANGED << requestVars, toGateway, toClient, clientList >>
  BY <1>1 DEF StopConsuming
<1>4. /\ results' \in Seq(Results) /\ Len(results) \in Nat /\ Len(results') = Len(results) + 1
      /\ results'[1] = r /\ \A i \in 1 .. Len(results) : results'[i + 1] = results[i]
  BY <1>2, <1>3, PutBack
<1>5. responder' \in Positions /\ responder'.at = "stopped" /\ responder'.result = r
  BY <1>3 DEF Domains, Positions
<1>6. Domains' /\ EofLast' /\ JobsQueued'
  BY <1>2, <1>3, <1>4, <1>5 DEF Domains, EofLast, JobsQueued, requestVars
<1>7. \A i \in DOMAIN results' : \/ i = 1 /\ results'[i] = r
                                 \/ /\ i \in Nat /\ i - 1 \in DOMAIN results
                                    /\ results'[i] = results[i - 1]
  <2>1. ASSUME NEW i \in DOMAIN results', i # 1
        PROVE  i \in Nat /\ i - 1 \in DOMAIN results /\ results'[i] = results[i - 1]
    <3>1. i \in Nat /\ i - 1 \in 1 .. Len(results)
      BY <1>4, <2>1
    <3>2. results'[(i - 1) + 1] = results[i - 1] /\ (i - 1) + 1 = i
      BY <1>4, <3>1
    <3>3. DOMAIN results = 1 .. Len(results)
      BY <1>2, LenProperties
    <3> QED BY <3>1, <3>2, <3>3
  <2> QED BY <1>4, <2>1
<1>8. ~Serving' /\ strays' = strays /\ answered' = answered
  BY <1>3, <1>5 DEF Serving, requestVars
<1>9. ResultsAnswered'
  <2>1. \A d \in Clients : InResults(d)' => InResults(d) \/ d = r.of
    BY <1>7 DEF InResults
  <2> QED BY <1>2, <1>5, <1>8, <2>1 DEF ResultsAnswered
<1>10. ResultsOnce'
  <2> SUFFICES ASSUME strays = 0
               PROVE  /\ \A i \in DOMAIN results' : ~results'[i].empty
                      /\ \A i, j \in DOMAIN results' : results'[i].of = results'[j].of => i = j
    BY <1>8 DEF ResultsOnce
  <2>1. ~r.empty /\ ~InResults(r.of)
    BY <1>1 DEF ResultsOnce
  <2>2. \A i \in DOMAIN results' : ~results'[i].empty
    BY <1>7, <2>1 DEF ResultsOnce
  <2>3. ASSUME NEW i \in DOMAIN results', NEW j \in DOMAIN results',
               results'[i].of = results'[j].of
        PROVE  i = j
    <3>1. CASE i = 1 \/ j = 1
      <4>1. \A k \in DOMAIN results' : k # 1 => results'[k].of # r.of
        BY <1>7, <2>1 DEF InResults
      <4>2. i = 1 => results'[i].of = r.of
        BY <1>4
      <4>3. j = 1 => results'[j].of = r.of
        BY <1>4
      <4> QED BY <2>3, <3>1, <4>1, <4>2, <4>3
    <3>2. CASE i # 1 /\ j # 1
      <4>1. i - 1 = j - 1
        BY <1>7, <2>3, <3>2 DEF ResultsOnce
      <4> QED BY <1>7, <3>2, <4>1
    <3> QED BY <3>1, <3>2
  <2> QED BY <2>2, <2>3
<1>11. PendingListed' /\ EntryAhead'
  BY <1>5, <1>8 DEF PendingListed, EntryAhead
<1> QED BY <1>6, <1>9, <1>10, <1>11

\* Without strays the entry that is removed is nobody's who waits.
LEMMA PopClientKeepsListInv ==
    ASSUME ListInv, PopClient
    PROVE  ListInv'
<1> USE DEF ListInv
<1>1. /\ responder.at = "pop" /\ responder.index < Len(clientList) /\ Serving
      /\ clientList' = SubSeq(clientList, 1, responder.index)
                           \o SubSeq(clientList, responder.index + 2, Len(clientList))
      /\ responder' = Idle
      /\ UNCHANGED << requestVars, toGateway, toClient, results >>
  BY DEF PopClient, Serving
<1>2. responder.index \in Nat /\ clientList \in Seq(Clients) /\ responder.result.of \in answered
  BY <1>1, ServedIsClient DEF Domains
<1>3. /\ clientList' \in Seq(Clients)
      /\ \A i \in DOMAIN clientList : i # responder.index + 1 =>
             \E j \in DOMAIN clientList' : clientList'[j] = clientList[i]
  BY <1>1, <1>2, TakenOut
<1>4. Domains'
  <2>1. responder' \in Positions
    BY <1>1 DEF Positions, Idle
  <2>2. responder'.at = "idle"
    BY <1>1 DEF Idle
  <2> QED BY <1>1, <1>3, <2>1, <2>2 DEF Domains, requestVars
<1>5. EofLast' /\ JobsQueued'
  BY <1>1 DEF EofLast, JobsQueued, requestVars
<1>6. ~Serving' /\ responder'.at = "idle" /\ strays' = strays
  BY <1>1 DEF Serving, Idle, requestVars
<1>7. ResultsAnswered' /\ ResultsOnce'
  BY <1>1, <1>6 DEF ResultsAnswered, ResultsOnce, InResults, requestVars
<1>8. PendingListed'
  <2> SUFFICES ASSUME strays = 0, NEW d \in Clients, Pending(d)
               PROVE  d \in Entries'
    BY <1>1, <1>6 DEF PendingListed, Pending, InResults, requestVars
  <2>1. PICK i \in DOMAIN clientList : clientList[i] = d
    BY <1>1 DEF PendingListed, Entries
  <2>2. clientList[responder.index + 1] = responder.result.of
    BY <1>1 DEF PendingListed, EntryAhead, AtEntry
  <2>3. d # responder.result.of
    BY <1>1, <1>2 DEF Pending, ResultsOnce
  <2> QED BY <1>3, <2>1, <2>2, <2>3 DEF Entries
<1>9. EntryAhead'
  BY <1>1 DEF EntryAhead, Idle
<1> QED BY <1>4, <1>5, <1>7, <1>8, <1>9

LEMMA StutterKeepsListInv == ListInv /\ UNCHANGED vars => ListInv'
<1> SUFFICES ASSUME ListInv, UNCHANGED vars PROVE ListInv'
  OBVIOUS
<1>1. Domains' /\ JobsQueued' /\ EofLast'
  BY DEF ListInv, Domains, JobsQueued, EofLast, vars, clientVars, gatewayVars
<1>2. ResultsAnswered' /\ ResultsOnce' /\ PendingListed' /\ EntryAhead'
  BY ListUntouched DEF ListInv, vars, gatewayVars
<1> QED BY <1>1, <1>2 DEF ListInv

LEMMA InitListInv == Init => ListInv
<1> SUFFICES ASSUME Init PROVE ListInv
  OBVIOUS
<1> USE DEF Init, ClientInit, GatewayInit
<1>1. Domains
  <2>1. client \in [Clients -> ClientRecords]
    BY DEF ClientRecords, ClientStates
  <2>2. responder \in Positions
    BY DEF Positions, Idle
  <2>3. responder.at = "idle"
    BY DEF Idle
  <2> QED BY <2>1, <2>2, <2>3 DEF Domains, HandlerStates
<1>2. \A d : ~InResults(d)
  BY DEF InResults
<1>3. JobsQueued /\ EofLast /\ ResultsAnswered /\ ResultsOnce
  BY <1>2 DEF JobsQueued, EofLast, ResultsAnswered, ResultsOnce, Serving, Idle
<1>4. PendingListed /\ EntryAhead
  BY <1>2 DEF PendingListed, Pending, EntryAhead, Serving, Idle
<1> QED BY <1>1, <1>3, <1>4 DEF ListInv

LEMMA NextListInv == ListInv /\ [Next]_vars => ListInv'
<1> SUFFICES ASSUME ListInv, [Next]_vars PROVE ListInv'
  OBVIOUS
<1>1. CASE UNCHANGED vars
  BY <1>1, StutterKeepsListInv
<1>2. ASSUME NEW c \in Clients,
             (Connect(c) \/ Upload(c) \/ Leave(c)) /\ UNCHANGED gatewayVars
      PROVE  ListInv'
  BY <1>2, ClientKeepsListInv
<1>3. ASSUME NEW c \in Clients, Accept(c) \/ Uploads(c) \/ Answer(c) \/ AnswerAstray(c)
      PROVE  ListInv'
  BY <1>3, AcceptKeepsListInv, UploadsKeepListInv, AnswerKeepsListInv
<1>4. CASE StartJob
  BY <1>4, StartJobKeepsListInv
<1>5. CASE Responder
  BY <1>5, TakeResultKeepsListInv, ScanKeepsListInv, ServedKeepsListInv, StopKeepsListInv,
     PopClientKeepsListInv DEF Responder
<1> QED BY <1>1, <1>2, <1>3, <1>4, <1>5 DEF Next

-----------------------------------------------------------------------------
LEMMA SpecListInv == Spec => []ListInv
BY InitListInv, NextListInv, PTL DEF Spec

\* Only the response process takes entries out, and it takes out the one of the
\* client it served, unless it served nobody.
LEMMA RemovesServed ==
    ASSUME ListInv, [Next]_vars, NEW c \in Entries \ Entries'
    PROVE  c = responder.result.of \/ ForNobody
<1> USE DEF ListInv
<1>1. CASE clientList' = clientList
  BY <1>1 DEF Entries
<1>2. ASSUME NEW d \in Clients, Accept(d)
      PROVE  FALSE
  <2>1. /\ Len(clientList) \in Nat /\ Len(clientList') = Len(clientList) + 1
        /\ clientList \in Seq(Clients) /\ clientList' \in Seq(Clients)
        /\ \A i \in 1 .. Len(clientList) : clientList'[i] = clientList[i]
    BY <1>2, Appended DEF Accept, Domains
  <2>2. DOMAIN clientList = 1 .. Len(clientList) /\ DOMAIN clientList' = 1 .. Len(clientList')
    BY <2>1, LenProperties
  <2>3. \A i \in DOMAIN clientList : i \in DOMAIN clientList' /\ clientList'[i] = clientList[i]
    BY <2>1, <2>2
  <2> QED BY <2>3 DEF Entries
<1>3. CASE PopClient
  <2>1. /\ responder.index \in Nat /\ clientList \in Seq(Clients) /\ Serving
    BY <1>3, ServedIsClient DEF PopClient, Serving, Domains
  <2>2. \A i \in DOMAIN clientList : i # responder.index + 1 =>
             \E j \in DOMAIN clientList' : clientList'[j] = clientList[i]
    BY <1>3, <2>1, TakenOut DEF PopClient
  <2>3. ForNobody \/ clientList[responder.index + 1] = responder.result.of
    BY <1>3 DEF PopClient, EntryAhead, AtEntry
  <2> QED BY <2>2, <2>3 DEF Entries
<1>4. CASE UNCHANGED vars
  BY <1>1, <1>4 DEF vars, gatewayVars
<1>5. ASSUME NEW d \in Clients,
             \/ (Connect(d) \/ Upload(d) \/ Leave(d)) /\ UNCHANGED gatewayVars
             \/ Uploads(d) \/ Answer(d) \/ AnswerAstray(d)
      PROVE  clientList' = clientList
  BY <1>5 DEF gatewayVars, Uploads, RequestHandler, ForwardRecord, ForwardEof, AckRecord,
     AckEnd, RequestFails, PublishFails, HandlerAt, Answer, AnswerAstray, PublishResult
<1>6. CASE StartJob
  BY <1>1, <1>6 DEF StartJob
<1>7. ASSUME Responder, ~PopClient
      PROVE  clientList' = clientList
  BY <1>7 DEF Responder, TakeResult, SkipClient, SendTop, ScanEnds, ReadAck, SocketError,
     EndOfStream, TopOverflows, PopFails, StopConsuming
<1> QED BY <1>1, <1>2, <1>3, <1>4, <1>5, <1>6, <1>7 DEF Next

\* The index found by the scan still is the served client's when it is used,
\* whatever the workers publish: only a result for nobody removes another entry.
THEOREM OnlyServedRemovedHolds == Spec => OnlyServedRemoved
<1>1. ListInv /\ [Next]_vars =>
        [\A c \in Entries \ Entries' : c = responder.result.of \/ ForNobody]_vars
  BY RemovesServed
<1> QED BY <1>1, SpecListInv, PTL DEF Spec, OnlyServedRemoved

-----------------------------------------------------------------------------
(* Tops.                                                                   *)

LEMMA InitOwnTops == Init => OwnTops
BY DEF Init, ClientInit, OwnTops, NoTop

\* What is received was on its way.
LEMMA ClientKeepsOwnTops ==
    ASSUME ListInv, OwnTops, NEW c \in Clients, Connect(c) \/ Upload(c) \/ Leave(c)
    PROVE  OwnTops'
<1>0. client \in [Clients -> ClientRecords] /\ toClient \in [Clients -> Seq(Messages)]
  BY DEF ListInv, Domains
<1>1. CASE Connect(c) \/ Leave(c) \/ SendRecord(c) \/ SendEnd(c)
  <2>1. \A d \in Clients : client'[d].top = client[d].top /\ toClient'[d] = toClient[d]
    <3>1. \E at : client' = [client EXCEPT ![c].at = at]
      BY <1>1 DEF Connect, Leave, SendRecord, SendEnd, MoveTo
    <3>2. toClient' = toClient
      BY <1>1 DEF Connect, Leave, SendRecord, SendEnd
    <3> QED BY <1>0, <3>1, <3>2 DEF ClientRecords
  <2> QED BY <2>1 DEF OwnTops
<1>2. CASE ReceiveAck(c) \/ ReceiveEndAck(c) \/ ReceiveTop(c)
  <2>1. /\ toClient[c] # <<>> /\ toClient[c] \in Seq(Messages)
        /\ toClient' = [toClient EXCEPT ![c] = Tail(@)]
    BY <1>0, <1>2 DEF ReceiveAck, ReceiveEndAck, ReceiveTop
  <2>2. /\ Tail(toClient[c]) \in Seq(Messages) /\ Head(toClient[c]) = toClient[c][1]
        /\ Len(toClient[c]) \in Nat /\ Len(toClient[c]) >= 1
        /\ Len(Tail(toClient[c])) = Len(toClient[c]) - 1
        /\ \A i \in 1 .. Len(toClient[c]) - 1 : Tail(toClient[c])[i] = toClient[c][i + 1]
    BY <2>1, Removed
  <2>3. /\ 1 \in DOMAIN toClient[c]
        /\ \A i \in DOMAIN Tail(toClient[c]) : /\ i + 1 \in DOMAIN toClient[c]
                                               /\ Tail(toClient[c])[i] = toClient[c][i + 1]
    BY <2>1, <2>2
  <2>4. \A d \in Clients : \A i \in DOMAIN toClient'[d] :
            toClient'[d][i].type = "FRUIT_TOP" => toClient'[d][i].of = d
    BY <1>0, <2>1, <2>3 DEF OwnTops
  <2>5. \A d \in Clients : \/ client'[d].top = client[d].top
                           \/ d = c /\ client'[d].top = Head(toClient[c])
    BY <1>0, <1>2 DEF ReceiveAck, ReceiveEndAck, ReceiveTop, MoveTo, ClientRecords
  <2>6. \A d \in Clients : client'[d].top.type = "FRUIT_TOP" => client'[d].top.of = d
    BY <2>2, <2>3, <2>5 DEF OwnTops
  <2> QED BY <2>4, <2>6 DEF OwnTops
<1> QED BY <1>1, <1>2 DEF Upload

\* The gateway sends a client an ACK, or the top it is served.
LEMMA ReplyKeepsOwnTops ==
    ASSUME ListInv, OwnTops, NEW c \in Clients, NEW m \in Messages, Reply(c, m),
           m.type = "FRUIT_TOP" => m.of = c, client' = client
    PROVE  OwnTops'
<1>1. toClient \in [Clients -> Seq(Messages)] /\ toClient[c] \in Seq(Messages)
  BY DEF ListInv, Domains
<1>2. CASE toClient' = toClient
  BY <1>2 DEF OwnTops
<1>3. CASE toClient' = [toClient EXCEPT ![c] = Append(@, m)]
  <2>1. \A i \in DOMAIN Append(toClient[c], m) :
            \/ i \in DOMAIN toClient[c] /\ Append(toClient[c], m)[i] = toClient[c][i]
            \/ Append(toClient[c], m)[i] = m
    BY <1>1, Appended
  <2> QED BY <1>1, <1>3, <2>1 DEF OwnTops
<1> QED BY <1>2, <1>3 DEF Reply

LEMMA NextOwnTops == ListInv /\ OwnTops /\ [Next]_vars => OwnTops'
<1> SUFFICES ASSUME ListInv, OwnTops, [Next]_vars PROVE OwnTops'
  OBVIOUS
<1>1. CASE UNCHANGED << client, toClient >>
  BY <1>1 DEF OwnTops
<1>2. ASSUME NEW c \in Clients, Connect(c) \/ Upload(c) \/ Leave(c)
      PROVE  OwnTops'
  BY <1>2, ClientKeepsOwnTops
<1>3. ASSUME NEW c \in Clients, AckRecord(c) \/ AckEnd(c)
      PROVE  OwnTops'
  BY <1>3, ReplyKeepsOwnTops, MessageTypes DEF AckRecord, AckEnd, HandlerAt, Ack
<1>4. CASE SendTop
  <2> DEFINE c == clientList[responder.index + 1]
  <2>1. Reply(c, FruitTop(c)) /\ c = responder.result.of /\ Serving /\ client' = client
    BY <1>4 DEF SendTop, IsFor, Serving, requestVars
  <2>2. c \in Clients
    BY <2>1, ServedIsClient
  <2> QED BY <2>1, <2>2, ReplyKeepsOwnTops, MessageTypes DEF FruitTop
<1>5. ASSUME NEW c \in Clients,
             \/ Accept(c) \/ Answer(c) \/ AnswerAstray(c) \/ ForwardRecord(c)
             \/ ForwardEof(c) \/ RequestFails(c) \/ PublishFails(c)
      PROVE  UNCHANGED << client, toClient >>
  BY <1>5 DEF Accept, Answer, AnswerAstray, PublishResult, ForwardRecord, ForwardEof,
     RequestFails, PublishFails, HandlerAt, clientVars
<1>6. ASSUME Responder, ~SendTop
      PROVE  UNCHANGED << client, toClient >>
  BY <1>6 DEF Responder, TakeResult, SkipClient, ScanEnds, ReadAck, SocketError,
     EndOfStream, TopOverflows, PopClient, PopFails, StopConsuming, requestVars
<1>7. StartJob \/ UNCHANGED vars => UNCHANGED << client, toClient >>
  BY DEF StartJob, vars, clientVars
<1> QED BY <1>1, <1>2, <1>3, <1>4, <1>5, <1>6, <1>7 DEF Next, Uploads, RequestHandler

\* No client reads another client's top.
THEOREM TopIsOwnHolds == Spec => []TopIsOwn
<1>1. Init => ListInv /\ OwnTops
  BY InitListInv, InitOwnTops
<1>2. ListInv /\ OwnTops /\ [Next]_vars => (ListInv /\ OwnTops)'
  BY NextListInv, NextOwnTops
<1>3. OwnTops => TopIsOwn
  BY DEF OwnTops, TopIsOwn
<1> QED BY <1>1, <1>2, <1>3, PTL DEF Spec

-----------------------------------------------------------------------------
(* What stops the response process.                                        *)

LEMMA LeftForGood ==
    ASSUME ListInv, NEW c \in Clients, Connect(c) \/ Upload(c) \/ Leave(c),
           NEW d \in Clients, client[d].at = "left"
    PROVE  client'[d].at = "left"
<1>1. client \in [Clients -> ClientRecords]
  BY DEF ListInv, Domains
<1>2. c # d \/ Leave(c)
  BY DEF Connect, Upload, SendRecord, SendEnd, ReceiveAck, ReceiveEndAck, ReceiveTop
<1>3. ~Leave(c) \/ c # d
  BY DEF Leave
<1>4. \A e \in Clients : e # c => client'[e] = client[e]
  BY <1>1 DEF Connect, Leave, Upload, SendRecord, SendEnd, ReceiveAck, ReceiveEndAck,
     ReceiveTop, MoveTo
<1> QED BY <1>2, <1>3, <1>4

LEMMA NextStopsForCause == ListInv /\ StopsForCause /\ [Next]_vars => StopsForCause'
<1> SUFFICES ASSUME ListInv, StopsForCause, [Next]_vars, responder'.at = "stopped"
             PROVE  StopsForCause'
  BY DEF StopsForCause
<1>1. CASE responder' = responder /\ client' = client /\ clientList' = clientList
  BY <1>1 DEF StopsForCause, ForNobody, Entries
<1>2. ASSUME NEW c \in Clients, Connect(c) \/ Upload(c) \/ Leave(c), UNCHANGED gatewayVars
      PROVE  StopsForCause'
  <2>1. /\ responder' = responder /\ responder.at = "stopped" /\ clientList' = clientList
        /\ responder.result.of \in Clients
    BY <1>2 DEF gatewayVars, ListInv, Domains, Results
  <2>2. \/ responder.result.of \in Overflowing \/ client[responder.result.of].at = "left"
        \/ ForNobody
    BY <2>1 DEF StopsForCause
  <2> QED BY <1>2, <2>1, <2>2, LeftForGood DEF StopsForCause, ForNobody, Entries
<1>3. CASE Responder
  <2>1. responder \in Positions /\ client' = client
    BY <1>3 DEF ListInv, Domains, Responder, TakeResult, SkipClient, SendTop, ScanEnds,
       ReadAck, SocketError, EndOfStream, TopOverflows, PopClient, PopFails, StopConsuming,
       requestVars
  <2>2. ~(TakeResult \/ SkipClient \/ SendTop \/ ScanEnds \/ ReadAck \/ SocketError \/ PopClient)
    BY <2>1 DEF TakeResult, SkipClient, SendTop, ScanEnds, ReadAck, SocketError, PopClient,
       Positions, Idle
  <2>3. CASE EndOfStream
    <3>1. AtEntry /\ client[clientList[responder.index + 1]].at = "left"
      BY <2>3 DEF EndOfStream, ServedLeft, ListInv, EntryAhead
    <3>2. responder'.result = responder.result
      BY <2>1, <2>3 DEF EndOfStream, StopConsuming, Positions
    <3> QED BY <2>1, <3>1, <3>2 DEF AtEntry, StopsForCause
  <2>4. CASE TopOverflows
    <3>1. responder'.result = responder.result
      BY <2>1, <2>4 DEF TopOverflows, StopConsuming, Positions
    <3> QED BY <2>4, <3>1 DEF TopOverflows, StopsForCause
  <2>5. CASE PopFails
    <3>1. responder.index \in Nat /\ Len(clientList) \in Nat
      BY <2>1 DEF ListInv, Domains, Positions
    <3>2. /\ responder.at = "pop" /\ responder.index >= Len(clientList)
          /\ responder'.result = responder.result /\ clientList' = clientList
      BY <2>1, <2>5 DEF PopFails, StopConsuming, Positions
    <3>3. ForNobody
      BY <3>1, <3>2 DEF ListInv, EntryAhead, AtEntry
    <3> QED BY <3>2, <3>3 DEF StopsForCause, ForNobody, Entries
  <2> QED BY <1>3, <2>2, <2>3, <2>4, <2>5 DEF Responder
<1>4. ASSUME NEW c \in Clients, Accept(c)
      PROVE  StopsForCause'
  <2>1. /\ responder' = responder /\ client' = client /\ handler[c] = "none"
        /\ responder.at = "stopped" /\ clientList' = Append(clientList, c)
    BY <1>4 DEF Accept, clientVars
  <2>2. responder.result.of # c
    BY <2>1 DEF ListInv, Domains, ResultsAnswered, EofLast, Results
  <2>3. \A d \in Entries' : d \in Entries \/ d = c
    <3>1. \A i \in DOMAIN clientList' :
              \/ clientList'[i] = c
              \/ i \in DOMAIN clientList /\ clientList'[i] = clientList[i]
      <4>1. /\ clientList \in Seq(Clients) /\ clientList' \in Seq(Clients)
            /\ Len(clientList) \in Nat /\ Len(clientList') = Len(clientList) + 1
            /\ \A i \in 1 .. Len(clientList) : clientList'[i] = clientList[i]
            /\ clientList'[Len(clientList) + 1] = c
        BY <2>1, Appended DEF ListInv, Domains
      <4>2. DOMAIN clientList = 1 .. Len(clientList) /\ DOMAIN clientList' = 1 .. Len(clientList')
        BY <4>1, LenProperties
      <4> QED BY <4>1, <4>2
    <3> QED BY <3>1 DEF Entries
  <2>4. ForNobody => ForNobody'
    BY <2>1, <2>2, <2>3 DEF ForNobody
  <2> QED BY <2>1, <2>4 DEF StopsForCause
<1>5. ASSUME NEW c \in Clients, Uploads(c) \/ Answer(c) \/ AnswerAstray(c)
      PROVE  responder' = responder /\ client' = client /\ clientList' = clientList
  BY <1>5 DEF Answer, AnswerAstray, PublishResult, Uploads, RequestHandler, ForwardRecord,
     ForwardEof, AckRecord, AckEnd, RequestFails, PublishFails, HandlerAt, clientVars
<1>6. StartJob \/ UNCHANGED vars =>
          responder' = responder /\ client' = client /\ clientList' = clientList
  BY DEF StartJob, vars, clientVars, gatewayVars
<1> QED BY <1>1, <1>2, <1>3, <1>4, <1>5, <1>6 DEF Next

\* Whatever the workers publish, a client that leaves, a total that does not fit
\* and a result for nobody are all that stops the response process.
THEOREM StopsForCauseHolds == Spec => []StopsForCause
<1>1. Init => StopsForCause
  BY DEF Init, GatewayInit, Idle, StopsForCause
<1> QED BY <1>1, InitListInv, NextListInv, NextStopsForCause, PTL DEF Spec

-----------------------------------------------------------------------------
(* The conversation of a client with its upload task and the response      *)
(* process: whose turn it is, and what is under way.                       *)

\* The top of c was sent, and the response process waits for its ACK.
TopSent(c) == responder.at = "await_ack" /\ responder.result.of = c

Quiet(c) == toGateway[c] = <<>> /\ toClient[c] = <<>>

\* The upload task has not read the message under way, if there is one.
TaskWaits(c) == handler[c] \in {"none", "queued", "recv"}

Sending(c) ==
    /\ client[c].at \in {"off", "sending"} /\ Quiet(c) /\ TaskWaits(c)
    /\ client[c].at = "off" => handler[c] = "none"
    /\ published[c] = client[c].sent

AwaitingAck(c) ==
    /\ client[c].at = "await_ack" /\ client[c].sent < RecordCount[c]
    /\ \/ /\ toGateway[c] = << Record >> /\ toClient[c] = <<>> /\ TaskWaits(c)
          /\ published[c] = client[c].sent
       \/ /\ toGateway[c] = <<>> /\ published[c] = client[c].sent + 1
          /\ \/ toClient[c] = <<>> /\ handler[c] = "ack_record"
             \/ toClient[c] = << Ack >> /\ handler[c] = "recv"
       \/ Quiet(c) /\ handler[c] = "failed" /\ published[c] = client[c].sent

\* The last ACK and the top come in either order.
AwaitingEndAck(c) ==
    /\ client[c].at = "await_end_ack" /\ published[c] = client[c].sent
    /\ \/ toGateway[c] = << EndOfRecords >> /\ toClient[c] = <<>> /\ TaskWaits(c)
       \/ Quiet(c) /\ handler[c] = "failed"
       \/ /\ toGateway[c] = <<>> /\ handler[c] = "ack_end"
          /\ toClient[c] = IF TopSent(c) THEN << FruitTop(c) >> ELSE <<>>
       \/ /\ toGateway[c] = <<>> /\ handler[c] = "returned"
          /\ IF TopSent(c)
             THEN toClient[c] \in {<< Ack, FruitTop(c) >>, << FruitTop(c), Ack >>}
             ELSE toClient[c] = << Ack >>

\* A top that came first was taken for the last ACK.
AwaitingTop(c) ==
    /\ client[c].at = "await_top" /\ published[c] = client[c].sent /\ toGateway[c] = <<>>
    /\ \/ handler[c] = "ack_end" /\ TopSent(c) /\ toClient[c] = <<>>
       \/ /\ handler[c] = "returned"
          /\ IF TopSent(c) THEN toClient[c] \in {<< FruitTop(c) >>, << Ack >>}
             ELSE toClient[c] = <<>>

\* What a client that disconnected left to read.
Leftover(c) ==
    /\ client[c].at \in {"done", "failed", "left"}
    /\ \/ toGateway[c] \in {<<>>, << EndOfRecords >>, << Ack >>}
       \/ toGateway[c] = << Record >> /\ published[c] < RecordCount[c]

Talk(c) ==
    /\ client[c].sent <= RecordCount[c] /\ published[c] <= RecordCount[c]
    /\ \/ c \in gone /\ Leftover(c)
       \/ c \notin gone /\ (Sending(c) \/ AwaitingAck(c) \/ AwaitingEndAck(c) \/ AwaitingTop(c))

TalkInv == gone \subseteq Clients /\ \A c \in Clients : Talk(c)

\* The response process removes no client that still listens.
ServedGone == strays = 0 /\ responder.at = "pop" => responder.result.of \in gone

ListenersListed ==
    strays = 0 => \A c \in Clients \ gone : handler[c] # "none" => c \in Entries

\* An entry per accepted client, the index inside the list, the pool not exceeded.
PoolInv ==
    /\ \A i, j \in DOMAIN clientList : clientList[i] = clientList[j] => i = j
    /\ \A c \in Entries : handler[c] # "none"
    /\ responder.index <= Len(clientList)
    /\ IsFiniteSet(Working) /\ Cardinality(Working) + Responding <= PoolSize

LEMMA OneMessage ==
    ASSUME NEW x
    PROVE  << x >> # <<>> /\ Head(<< x >>) = x /\ Tail(<< x >>) = <<>> /\ Append(<<>>, x) = << x >>
  OBVIOUS

LEMMA TwoMessages ==
    ASSUME NEW x, NEW y
    PROVE  /\ << x, y >> # <<>> /\ Head(<< x, y >>) = x /\ Tail(<< x, y >>) = << y >>
           /\ Append(<< x >>, y) = << x, y >>
  <1>1. << x, y >> # <<>> /\ Head(<< x, y >>) = x
    OBVIOUS
  <1>2. Append(<< x >>, y) = << x, y >>
    <2>1. << x >> \in Seq({x, y}) /\ Len(<< x >>) = 1 /\ << x >>[1] = x
      OBVIOUS
    <2>2. /\ Append(<< x >>, y) \in Seq({x, y}) /\ Len(Append(<< x >>, y)) = 2
          /\ Append(<< x >>, y)[1] = x /\ Append(<< x >>, y)[2] = y
      BY <2>1
    <2>3. /\ << x, y >> \in Seq({x, y}) /\ Len(<< x, y >>) = 2
          /\ << x, y >>[1] = x /\ << x, y >>[2] = y
      OBVIOUS
    <2>4. \A i \in 1 .. 2 : i = 1 \/ i = 2
      OBVIOUS
    <2>5. \A i \in 1 .. 2 : Append(<< x >>, y)[i] = << x, y >>[i]
      BY <2>2, <2>3, <2>4, Zenon
    <2> QED BY <2>2, <2>3, <2>5, SeqEqual
  <1>3. Tail(<< x, y >>) = << y >>
    <2>1. << x, y >> \in Seq({x, y}) /\ Len(<< x, y >>) = 2
      OBVIOUS
    <2>2. Tail(<< x, y >>) \in Seq({x, y}) /\ Len(Tail(<< x, y >>)) = 1
          /\ Tail(<< x, y >>)[1] = y
      BY <2>1
    <2> QED BY <2>2
  <1> QED BY <1>1, <1>2, <1>3

\* A step that does not touch a conversation.
LEMMA TalkKept ==
    ASSUME NEW c \in Clients, Talk(c),
           client'[c] = client[c], toGateway'[c] = toGateway[c], toClient'[c] = toClient[c],
           handler'[c] = handler[c], published'[c] = published[c],
           c \in gone' <=> c \in gone,
           c \notin gone => (TopSent(c)' <=> TopSent(c))
    PROVE  Talk(c)'
  <1>1. CASE c \in gone
    BY <1>1 DEF Talk, Leftover
  <1>2. CASE c \notin gone
    BY <1>2 DEF Talk, Sending, AwaitingAck, AwaitingEndAck, AwaitingTop, Quiet, TaskWaits
  <1> QED BY <1>1, <1>2

\* The client's own steps.
LEMMA ClientTalk ==
    ASSUME ListInv, TalkInv, NEW c \in Clients, Connect(c) \/ Upload(c) \/ Leave(c),
           UNCHANGED gatewayVars
    PROVE  TalkInv'
  <1>1. /\ client \in [Clients -> ClientRecords]
        /\ toGateway \in [Clients -> Seq(Messages)] /\ toClient \in [Clients -> Seq(Messages)]
    BY DEF ListInv, Domains
  <1>2. UNCHANGED << handler, published, responder >>
    BY DEF gatewayVars
  <1>3. c \notin gone /\ Talk(c) /\ gone \subseteq Clients
    BY DEF TalkInv, Talk, Leftover, Connect, Upload, Leave, SendRecord, SendEnd, ReceiveAck,
       ReceiveEndAck, ReceiveTop
  <1>4. ASSUME NEW d \in Clients, d # c PROVE Talk(d)'
    <2>1. /\ client'[d] = client[d] /\ toGateway'[d] = toGateway[d] /\ toClient'[d] = toClient[d]
          /\ d \in gone' <=> d \in gone
      BY <1>1, <1>4 DEF Connect, Upload, Leave, SendRecord, SendEnd, ReceiveAck,
         ReceiveEndAck, ReceiveTop, Send, MoveTo
    <2> QED BY <1>2, <1>4, <2>1, TalkKept DEF TalkInv, TopSent
  <1>5. Talk(c)' /\ gone' \subseteq Clients
    <2>1. /\ client[c] \in ClientRecords /\ client[c].sent \in Nat
          /\ RecordCount[c] \in Nat
      BY <1>1, ClientAssumption DEF ClientRecords
    <2>2. CASE Connect(c)
      <3>1. /\ client'[c].at = "sending" /\ client'[c].sent = client[c].sent
            /\ client[c].at = "off" /\ UNCHANGED << toGateway, toClient, gone >>
        BY <1>1, <2>1, <2>2 DEF Connect, MoveTo, ClientRecords
      <3> QED BY <1>2, <1>3, <3>1 DEF Talk, Sending, AwaitingAck, AwaitingEndAck, AwaitingTop,
                 Quiet, TaskWaits
    <2>3. CASE Leave(c)
      <3>1. /\ client'[c].at = "left" /\ client'[c].sent = client[c].sent
            /\ UNCHANGED << toGateway, toClient >> /\ gone' = gone \cup {c}
        BY <1>1, <2>1, <2>3 DEF Leave, MoveTo, ClientRecords
      <3> QED BY <1>2, <1>3, <2>1, <3>1 DEF Talk, Sending, AwaitingAck, AwaitingEndAck,
                 AwaitingTop, Quiet, Leftover
    <2>4. CASE SendRecord(c)
      <3>1. /\ client[c].at = "sending" /\ client[c].sent < RecordCount[c]
            /\ client'[c].at = "await_ack" /\ client'[c].sent = client[c].sent
            /\ toGateway'[c] = Append(toGateway[c], Record) /\ UNCHANGED << toClient, gone >>
        BY <1>1, <2>1, <2>4 DEF SendRecord, MoveTo, Send, ClientRecords
      <3>2. Sending(c)
        BY <1>3, <3>1 DEF Talk, AwaitingAck, AwaitingEndAck, AwaitingTop
      <3>3. toGateway'[c] = << Record >>
        BY <3>1, <3>2, OneMessage DEF Sending, Quiet
      <3>4. AwaitingAck(c)'
        BY <1>2, <3>1, <3>2, <3>3 DEF Sending, AwaitingAck, Quiet, TaskWaits
      <3> QED BY <1>2, <1>3, <3>1, <3>4 DEF Talk
    <2>5. CASE SendEnd(c)
      <3>1. /\ client[c].at = "sending"
            /\ client'[c].at = "await_end_ack" /\ client'[c].sent = client[c].sent
            /\ toGateway'[c] = Append(toGateway[c], EndOfRecords) /\ UNCHANGED << toClient, gone >>
        BY <1>1, <2>1, <2>5 DEF SendEnd, MoveTo, Send, ClientRecords
      <3>2. Sending(c)
        BY <1>3, <3>1 DEF Talk, AwaitingAck, AwaitingEndAck, AwaitingTop
      <3>3. toGateway'[c] = << EndOfRecords >>
        BY <3>1, <3>2, OneMessage DEF Sending, Quiet
      <3>4. AwaitingEndAck(c)'
        BY <1>2, <3>1, <3>2, <3>3 DEF Sending, AwaitingEndAck, Quiet, TaskWaits
      <3> QED BY <1>2, <1>3, <3>1, <3>4 DEF Talk
    <2>6. CASE ReceiveAck(c)
      <3>1. /\ client[c].at = "await_ack" /\ toClient[c] # <<>>
            /\ client'[c].at = "sending" /\ client'[c].sent = client[c].sent + 1
            /\ toClient'[c] = Tail(toClient[c]) /\ UNCHANGED << toGateway, gone >>
        BY <1>1, <2>1, <2>6 DEF ReceiveAck, ClientRecords
      <3>2. AwaitingAck(c)
        BY <1>3, <3>1 DEF Talk, Sending, AwaitingEndAck, AwaitingTop
      <3>3. toClient[c] = << Ack >> /\ handler[c] = "recv" /\ toGateway[c] = <<>>
            /\ published[c] = client[c].sent + 1
        BY <3>1, <3>2 DEF AwaitingAck, Quiet
      <3>4. toClient'[c] = <<>>
        BY <3>1, <3>3, OneMessage
      <3>5. Sending(c)'
        BY <1>2, <3>1, <3>3, <3>4 DEF Sending, Quiet, TaskWaits
      <3>6. client'[c].sent <= RecordCount[c]
        BY <2>1, <3>1, <3>2 DEF AwaitingAck
      <3> QED BY <1>2, <1>3, <3>1, <3>5, <3>6 DEF Talk
    <2>7. CASE ReceiveEndAck(c)
      <3>1. /\ client[c].at = "await_end_ack" /\ toClient[c] # <<>>
            /\ client'[c].at = "await_top" /\ client'[c].sent = client[c].sent
            /\ toClient'[c] = Tail(toClient[c]) /\ UNCHANGED << toGateway, gone >>
        BY <1>1, <2>1, <2>7 DEF ReceiveEndAck, MoveTo, ClientRecords
      <3>2. AwaitingEndAck(c)
        BY <1>3, <3>1 DEF Talk, Sending, AwaitingAck, AwaitingTop
      <3>3. TopSent(c)' <=> TopSent(c)
        BY <1>2 DEF TopSent
      <3>4. toGateway[c] = <<>> /\ published[c] = client[c].sent
        BY <3>1, <3>2 DEF AwaitingEndAck, Quiet
      <3>5. CASE handler[c] = "ack_end" /\ TopSent(c) /\ toClient[c] = << FruitTop(c) >>
        <4>1. toClient'[c] = <<>>
          BY <3>1, <3>5, OneMessage
        <4> QED BY <1>2, <1>3, <3>1, <3>3, <3>4, <3>5, <4>1 DEF Talk, AwaitingTop
      <3>6. CASE /\ handler[c] = "returned" /\ TopSent(c)
                 /\ toClient[c] \in {<< Ack, FruitTop(c) >>, << FruitTop(c), Ack >>}
        <4>1. toClient'[c] \in {<< FruitTop(c) >>, << Ack >>}
          BY <3>1, <3>6, TwoMessages
        <4> QED BY <1>2, <1>3, <3>1, <3>3, <3>4, <3>6, <4>1 DEF Talk, AwaitingTop
      <3>7. CASE handler[c] = "returned" /\ ~TopSent(c) /\ toClient[c] = << Ack >>
        <4>1. toClient'[c] = <<>>
          BY <3>1, <3>7, OneMessage
        <4> QED BY <1>2, <1>3, <3>1, <3>3, <3>4, <3>7, <4>1 DEF Talk, AwaitingTop
      <3> QED BY <3>1, <3>2, <3>5, <3>6, <3>7 DEF AwaitingEndAck, Quiet
    <2>8. CASE ReceiveTop(c)
      <3>1. /\ client[c].at = "await_top"
            /\ client'[c].at \in {"done", "failed"} /\ client'[c].sent = client[c].sent
            /\ toGateway'[c] = Append(toGateway[c], Ack) /\ gone' = gone \cup {c}
        BY <1>1, <2>1, <2>8 DEF ReceiveTop, Send, ClientRecords
      <3>2. AwaitingTop(c)
        BY <1>3, <3>1 DEF Talk, Sending, AwaitingAck, AwaitingEndAck
      <3>3. toGateway'[c] = << Ack >>
        BY <3>1, <3>2, OneMessage DEF AwaitingTop
      <3> QED BY <1>2, <1>3, <3>1, <3>3 DEF Talk, Leftover
    <2> QED BY <2>2, <2>3, <2>4, <2>5, <2>6, <2>7, <2>8 DEF Upload
  <1> QED BY <1>4, <1>5 DEF TalkInv

\* A client that has no task, or whose task is not started, has not been answered.
LEMMA NotServedYet ==
    ASSUME ListInv, NEW c \in Clients, handler[c] \notin {"ack_end", "returned"}
    PROVE  c \notin ended /\ c \notin answered /\ ~TopSent(c)
  BY DEF ListInv, Domains, EofLast, ResultsAnswered, Serving, TopSent

\* A step of the upload task.
LEMMA UploadTalk ==
    ASSUME ListInv, TalkInv, NEW c \in Clients, Uploads(c)
    PROVE  TalkInv'
  <1>1. /\ toGateway \in [Clients -> Seq(Messages)] /\ toClient \in [Clients -> Seq(Messages)]
        /\ handler \in [Clients -> HandlerStates] /\ published \in [Clients -> Nat]
    BY DEF ListInv, Domains
  <1>2. /\ UNCHANGED << client, gone, responder >>
        /\ \E to : handler' = [handler EXCEPT ![c] = to]
        /\ toGateway' = toGateway \/ toGateway' = [toGateway EXCEPT ![c] = Tail(@)]
        /\ toClient' = toClient \/ \E m : toClient' = [toClient EXCEPT ![c] = Append(@, m)]
        /\ published' = published \/ published' = [published EXCEPT ![c] = @ + 1]
    BY DEF Uploads, RequestHandler, ForwardRecord, ForwardEof, AckRecord, AckEnd, RequestFails,
       PublishFails, HandlerAt, Read, Reply
  <1>3. TopSent(c)' <=> TopSent(c)
    BY <1>2 DEF TopSent
  <1>4. ASSUME NEW d \in Clients, d # c PROVE Talk(d)'
    <2>1. /\ handler'[d] = handler[d] /\ toGateway'[d] = toGateway[d]
          /\ toClient'[d] = toClient[d] /\ published'[d] = published[d]
      BY <1>1, <1>2, <1>4
    <2> QED BY <1>2, <1>4, <2>1, TalkKept DEF TalkInv, TopSent
  <1>5. Talk(c) /\ gone' \subseteq Clients
    BY <1>2 DEF TalkInv
  <1>6. Talk(c)'
    <2>1. published[c] \in Nat /\ RecordCount[c] \in Nat /\ client'[c] = client[c]
          /\ gone' = gone
      BY <1>1, <1>2, ClientAssumption
    <2>2. CASE ForwardRecord(c)
      <3>1. /\ handler[c] = "recv" /\ handler'[c] = "ack_record" /\ toGateway[c] # <<>>
            /\ Head(toGateway[c]).type = "FRUIT_RECORD" /\ toGateway'[c] = Tail(toGateway[c])
            /\ published'[c] = published[c] + 1 /\ toClient' = toClient
        BY <1>1, <2>2 DEF ForwardRecord, HandlerAt, Read
      <3>2. /\ toGateway[c] # << EndOfRecords >> /\ toGateway[c] # << Ack >>
            /\ toGateway[c] = << Record >> => toGateway'[c] = <<>>
        <4>1. \A m : toGateway[c] = << m >> => Head(toGateway[c]) = m /\ toGateway'[c] = <<>>
          BY <3>1, OneMessage
        <4>2. Head(toGateway[c]) # EndOfRecords /\ Head(toGateway[c]) # Ack
          BY <3>1 DEF EndOfRecords, Ack
        <4> QED BY <4>1, <4>2
      <3>3. CASE c \in gone
        <4>1. toGateway[c] = << Record >> /\ published[c] < RecordCount[c]
          BY <1>5, <3>1, <3>2, <3>3 DEF Talk, Leftover
        <4> QED BY <1>5, <2>1, <3>1, <3>2, <3>3, <4>1 DEF Talk, Leftover
      <3>4. CASE c \notin gone
        <4>1. AwaitingAck(c)
          BY <1>5, <3>1, <3>2, <3>4 DEF Talk, Sending, AwaitingEndAck, AwaitingTop, Quiet
        <4>2. /\ toGateway[c] = << Record >> /\ toClient[c] = <<>>
              /\ published[c] = client[c].sent /\ client[c].sent < RecordCount[c]
          BY <3>1, <4>1 DEF AwaitingAck, Quiet
        <4>3. AwaitingAck(c)'
          BY <2>1, <3>1, <3>2, <4>1, <4>2 DEF AwaitingAck
        <4> QED BY <1>5, <2>1, <3>1, <3>4, <4>2, <4>3 DEF Talk
      <3> QED BY <3>3, <3>4
    <2>3. CASE ForwardEof(c)
      <3>1. /\ handler[c] = "recv" /\ handler'[c] = "ack_end" /\ toGateway[c] # <<>>
            /\ Head(toGateway[c]).type = "END_OF_RECODS" /\ toGateway'[c] = Tail(toGateway[c])
            /\ published' = published /\ toClient' = toClient
        BY <1>1, <2>3 DEF ForwardEof, HandlerAt, Read
      <3>2. /\ toGateway[c] # << Record >> /\ toGateway[c] # << Ack >>
            /\ toGateway[c] = << EndOfRecords >> => toGateway'[c] = <<>>
        <4>1. \A m : toGateway[c] = << m >> => Head(toGateway[c]) = m /\ toGateway'[c] = <<>>
          BY <3>1, OneMessage
        <4>2. Head(toGateway[c]) # Record /\ Head(toGateway[c]) # Ack
          BY <3>1 DEF Record, Ack
        <4> QED BY <4>1, <4>2
      <3>3. CASE c \in gone
        BY <1>5, <2>1, <3>1, <3>2, <3>3 DEF Talk, Leftover
      <3>4. CASE c \notin gone
        <4>1. AwaitingEndAck(c)
          BY <1>5, <3>1, <3>2, <3>4 DEF Talk, Sending, AwaitingAck, AwaitingTop, Quiet
        <4>2. toGateway[c] = << EndOfRecords >> /\ toClient[c] = <<>> /\ ~TopSent(c)
          BY <3>1, <4>1, NotServedYet DEF AwaitingEndAck, Quiet
        <4>3. AwaitingEndAck(c)'
          BY <1>3, <2>1, <3>1, <3>2, <4>1, <4>2 DEF AwaitingEndAck
        <4> QED BY <1>5, <2>1, <3>1, <3>4, <4>3 DEF Talk
      <3> QED BY <3>3, <3>4
    <2>4. CASE PublishFails(c)
      <3>1. /\ handler[c] = "recv" /\ handler'[c] = "failed" /\ toGateway[c] # <<>>
            /\ toGateway'[c] = Tail(toGateway[c])
            /\ published' = published /\ toClient' = toClient
        BY <1>1, <2>4 DEF PublishFails, HandlerAt, Read
      <3>2. \A m : toGateway[c] = << m >> => toGateway'[c] = <<>>
        BY <3>1, OneMessage
      <3>3. CASE c \in gone
        BY <1>5, <2>1, <3>1, <3>2, <3>3 DEF Talk, Leftover
      <3>4. CASE c \notin gone
        <4>1. AwaitingAck(c) \/ AwaitingEndAck(c)
          BY <1>5, <3>1, <3>4 DEF Talk, Sending, AwaitingTop, Quiet
        <4>2. CASE AwaitingAck(c)
          <5>1. toGateway'[c] = <<>> /\ toClient[c] = <<>> /\ published[c] = client[c].sent
            BY <3>1, <3>2, <4>2 DEF AwaitingAck, Quiet
          <5>2. AwaitingAck(c)'
            BY <2>1, <3>1, <4>2, <5>1 DEF AwaitingAck, Quiet
          <5> QED BY <1>5, <2>1, <3>1, <3>4, <5>2 DEF Talk
        <4>3. CASE AwaitingEndAck(c)
          <5>1. toGateway'[c] = <<>> /\ toClient[c] = <<>>
            BY <3>1, <3>2, <4>3 DEF AwaitingEndAck, Quiet
          <5>2. AwaitingEndAck(c)'
            BY <2>1, <3>1, <4>3, <5>1 DEF AwaitingEndAck, Quiet
          <5> QED BY <1>5, <2>1, <3>1, <3>4, <5>2 DEF Talk
        <4> QED BY <4>1, <4>2, <4>3
      <3> QED BY <3>3, <3>4
    <2>5. CASE AckRecord(c)
      <3>1. /\ handler[c] = "ack_record" /\ handler'[c] = "recv" /\ Reply(c, Ack)
            /\ published' = published /\ toGateway' = toGateway
        BY <1>1, <2>5 DEF AckRecord, HandlerAt
      <3>2. CASE c \in gone
        BY <1>5, <2>1, <3>1, <3>2 DEF Talk, Leftover
      <3>3. CASE c \notin gone
        <4>1. AwaitingAck(c)
          BY <1>5, <3>1, <3>3 DEF Talk, Sending, AwaitingEndAck, AwaitingTop, TaskWaits
        <4>2. /\ toClient[c] = <<>> /\ toGateway[c] = <<>>
              /\ published[c] = client[c].sent + 1
          BY <3>1, <4>1 DEF AwaitingAck, Quiet, TaskWaits
        <4>3. toClient'[c] = << Ack >>
          BY <1>1, <3>1, <3>3, <4>2, OneMessage DEF Reply
        <4>4. AwaitingAck(c)'
          BY <2>1, <3>1, <4>1, <4>2, <4>3 DEF AwaitingAck
        <4> QED BY <1>5, <2>1, <3>1, <3>3, <4>4 DEF Talk
      <3> QED BY <3>2, <3>3
    <2>6. CASE AckEnd(c)
      <3>1. /\ handler[c] = "ack_end" /\ handler'[c] = "returned" /\ Reply(c, Ack)
            /\ published' = published /\ toGateway' = toGateway
        BY <1>1, <2>6 DEF AckEnd, HandlerAt
      <3>2. CASE c \in gone
        BY <1>5, <2>1, <3>1, <3>2 DEF Talk, Leftover
      <3>3. CASE c \notin gone
        <4>1. toClient'[c] = Append(toClient[c], Ack)
          BY <1>1, <3>1, <3>3 DEF Reply
        <4>2. AwaitingEndAck(c) \/ AwaitingTop(c)
          BY <1>5, <3>1, <3>3 DEF Talk, Sending, AwaitingAck, TaskWaits
        <4>3. CASE AwaitingEndAck(c)
          <5>1. toGateway[c] = <<>>
                /\ toClient[c] = IF TopSent(c) THEN << FruitTop(c) >> ELSE <<>>
            BY <3>1, <4>3 DEF AwaitingEndAck, TaskWaits
          <5>2. toClient'[c] = IF TopSent(c) THEN << FruitTop(c), Ack >> ELSE << Ack >>
            BY <4>1, <5>1, OneMessage, TwoMessages
          <5>3. AwaitingEndAck(c)'
            BY <1>3, <2>1, <3>1, <4>3, <5>1, <5>2 DEF AwaitingEndAck
          <5> QED BY <1>5, <2>1, <3>1, <3>3, <5>3 DEF Talk
        <4>4. CASE AwaitingTop(c)
          <5>1. TopSent(c) /\ toClient[c] = <<>>
            BY <3>1, <4>4 DEF AwaitingTop
          <5>2. toClient'[c] = << Ack >>
            BY <4>1, <5>1, OneMessage
          <5>3. AwaitingTop(c)'
            BY <1>3, <2>1, <3>1, <4>4, <5>1, <5>2 DEF AwaitingTop
          <5> QED BY <1>5, <2>1, <3>1, <3>3, <5>3 DEF Talk
        <4> QED BY <4>2, <4>3, <4>4
      <3> QED BY <3>2, <3>3
    <2>7. CASE RequestFails(c)
      <3>1. c \in gone /\ UNCHANGED << published, toGateway >>
        BY <2>7 DEF RequestFails
      <3> QED BY <1>5, <2>1, <3>1 DEF Talk, Leftover
    <2> QED BY <2>2, <2>3, <2>4, <2>5, <2>6, <2>7 DEF Uploads, RequestHandler
  <1> QED BY <1>4, <1>5, <1>6 DEF TalkInv

\* A task is accepted, or started: the client waits in either case.
LEMMA TaskTalk ==
    ASSUME ListInv, TalkInv, NEW c \in Clients, NEW to \in {"queued", "recv"},
           handler[c] \in {"none", "queued"}, handler' = [handler EXCEPT ![c] = to],
           handler[c] = "none" => client[c].at # "off",
           UNCHANGED << clientVars, published, responder >>
    PROVE  TalkInv'
  <1>1. handler \in [Clients -> HandlerStates] /\ UNCHANGED << client, toGateway, toClient, gone >>
    BY DEF ListInv, Domains, clientVars
  <1>2. ASSUME NEW d \in Clients, d # c PROVE Talk(d)'
    <2>1. handler'[d] = handler[d]
      BY <1>1, <1>2
    <2> QED BY <1>1, <1>2, <2>1, TalkKept DEF TalkInv, TopSent
  <1>3. Talk(c)'
    <2>1. handler'[c] = to /\ Talk(c)
      BY <1>1 DEF TalkInv
    <2>2. CASE c \in gone
      BY <1>1, <2>1, <2>2 DEF Talk, Leftover
    <2>3. CASE c \notin gone
      BY <1>1, <2>1, <2>3 DEF Talk, Sending, AwaitingAck, AwaitingEndAck, AwaitingTop, Quiet,
         TaskWaits
    <2> QED BY <2>2, <2>3
  <1> QED BY <1>1, <1>2, <1>3 DEF TalkInv

\* The response process sends a top to a client that has none.
LEMMA SendTopTalk ==
    ASSUME ListInv, TalkInv, SendTop
    PROVE  TalkInv'
  <1>1. PICK c : c = responder.result.of
    OBVIOUS
  <1>2. /\ responder.at = "scan" /\ clientList[responder.index + 1] = c
        /\ Reply(c, FruitTop(c)) /\ responder' = [responder EXCEPT !.at = "await_ack"]
        /\ UNCHANGED << client, gone, handler, published, toGateway >>
    BY <1>1 DEF SendTop, IsFor, requestVars
  <1>3. c \in Clients /\ c \in answered
    BY <1>1, <1>2, ServedIsClient DEF Serving
  <1>4. /\ responder \in Positions /\ toClient \in [Clients -> Seq(Messages)]
        /\ handler[c] \in {"ack_end", "returned"}
    BY <1>3 DEF ListInv, Domains, EofLast
  <1>5. \A d \in Clients : ~TopSent(d) /\ (TopSent(d)' <=> d = c)
    BY <1>1, <1>2, <1>4 DEF TopSent, Positions
  <1>6. ASSUME NEW d \in Clients, d # c PROVE Talk(d)'
    <2>1. toClient'[d] = toClient[d] /\ (TopSent(d)' <=> TopSent(d))
      BY <1>2, <1>4, <1>5, <1>6 DEF Reply
    <2> QED BY <1>2, <1>6, <2>1, TalkKept DEF TalkInv
  <1>7. Talk(c)'
    <2>1. Talk(c) /\ ~TopSent(c) /\ TopSent(c)'
      BY <1>3, <1>5 DEF TalkInv
    <2>2. CASE c \in gone
      BY <1>2, <2>1, <2>2 DEF Talk, Leftover
    <2>3. CASE c \notin gone
      <3>1. toClient'[c] = Append(toClient[c], FruitTop(c))
        BY <1>2, <1>3, <1>4, <2>3 DEF Reply
      <3>2. AwaitingEndAck(c) \/ AwaitingTop(c)
        BY <1>4, <2>1, <2>3 DEF Talk, Sending, AwaitingAck, TaskWaits
      <3>3. CASE AwaitingEndAck(c)
        <4>1. toGateway[c] = <<>>
              /\ toClient[c] = IF handler[c] = "ack_end" THEN <<>> ELSE << Ack >>
          BY <1>4, <2>1, <3>3 DEF AwaitingEndAck, TaskWaits
        <4>2. toClient'[c] = IF handler[c] = "ack_end" THEN << FruitTop(c) >>
                             ELSE << Ack, FruitTop(c) >>
          BY <3>1, <4>1, OneMessage, TwoMessages
        <4>3. AwaitingEndAck(c)'
          BY <1>2, <1>4, <2>1, <3>3, <4>1, <4>2 DEF AwaitingEndAck
        <4> QED BY <1>2, <2>1, <2>3, <4>3 DEF Talk
      <3>4. CASE AwaitingTop(c)
        <4>1. handler[c] = "returned" /\ toClient[c] = <<>>
          BY <2>1, <3>4 DEF AwaitingTop
        <4>2. toClient'[c] = << FruitTop(c) >>
          BY <3>1, <4>1, OneMessage
        <4>3. AwaitingTop(c)'
          BY <1>2, <2>1, <3>4, <4>1, <4>2 DEF AwaitingTop
        <4> QED BY <1>2, <2>1, <2>3, <4>3 DEF Talk
      <3> QED BY <3>2, <3>3, <3>4
    <2> QED BY <2>2, <2>3
  <1> QED BY <1>2, <1>6, <1>7 DEF TalkInv

\* Who is served and has not left hears nothing from the response process
\* before it has sent its ACK, and with it it leaves.
LEMMA ServedTalk ==
    ASSUME ListInv, TalkInv, ReadAck \/ SocketError \/ EndOfStream \/ TopOverflows
    PROVE  /\ TalkInv'
           /\ ReadAck \/ SocketError => responder.result.of \in gone
  <1>1. PICK c : c = responder.result.of
    OBVIOUS
  <1>2. Serving /\ c \in Clients /\ c \in answered /\ Talk(c)
    BY <1>1, ServedIsClient DEF TalkInv, Serving, ReadAck, SocketError, EndOfStream, ServedLeft,
       TopOverflows
  <1>3. /\ handler[c] \in {"ack_end", "returned"} /\ responder \in Positions
        /\ toGateway \in [Clients -> Seq(Messages)]
    BY <1>2 DEF ListInv, Domains, EofLast
  <1>4. ReadAck \/ SocketError \/ EndOfStream => clientList[responder.index + 1] = c
    BY <1>1 DEF ListInv, EntryAhead, AtEntry, ReadAck, SocketError, EndOfStream, ServedLeft, IsFor
  <1>5. ReadAck \/ SocketError \/ EndOfStream => c \in gone
    BY <1>2, <1>3, <1>4 DEF Talk, Sending, AwaitingAck, AwaitingEndAck, AwaitingTop, Quiet,
       TaskWaits, ReadAck, Read, SocketError, EndOfStream, ServedLeft
  <1>6. /\ UNCHANGED << client, gone, handler, published, toClient >>
        /\ \/ toGateway' = toGateway
           \/ ReadAck /\ toGateway[c] # <<>> /\ toGateway' = [toGateway EXCEPT ![c] = Tail(@)]
        /\ responder'.at # "await_ack"
    BY <1>3, <1>4 DEF ReadAck, Read, SocketError, EndOfStream, TopOverflows, StopConsuming,
       requestVars, Positions
  <1>7. \A d \in Clients : d # c => ~TopSent(d)
    BY <1>1 DEF TopSent
  <1>8. TopOverflows => ~TopSent(c)
    BY DEF TopOverflows, TopSent
  <1>9. \A d \in Clients : ~TopSent(d)'
    BY <1>6 DEF TopSent
  <1>10. ASSUME NEW d \in Clients, d # c \/ toGateway' = toGateway PROVE Talk(d)'
    <2>1. toGateway'[d] = toGateway[d]
      BY <1>3, <1>6, <1>10
    <2>2. d \notin gone => ~TopSent(d)
      BY <1>5, <1>7, <1>8
    <2> QED BY <1>6, <1>9, <1>10, <2>1, <2>2, TalkKept DEF TalkInv
  <1>11. CASE ReadAck /\ toGateway[c] # <<>> /\ toGateway' = [toGateway EXCEPT ![c] = Tail(@)]
    <2>1. toGateway'[c] = Tail(toGateway[c])
      BY <1>2, <1>3, <1>11
    <2>2. \A m : toGateway[c] = << m >> => toGateway'[c] = <<>>
      BY <2>1, OneMessage
    <2>3. Talk(c)'
      BY <1>2, <1>5, <1>6, <1>11, <2>2 DEF Talk, Leftover
    <2> QED BY <1>1, <1>5, <1>6, <1>10, <1>11, <2>3 DEF TalkInv
  <1>12. CASE toGateway' = toGateway
    BY <1>1, <1>5, <1>6, <1>10, <1>12 DEF TalkInv
  <1> QED BY <1>6, <1>11, <1>12

LEMMA TalkStep ==
    ASSUME ListInv, TalkInv, [Next]_vars
    PROVE  TalkInv'
  <1>1. ASSUME UNCHANGED << clientVars, handler, published >>,
               \A c \in Clients : TopSent(c)' <=> TopSent(c)
        PROVE  TalkInv'
    <2>1. UNCHANGED << client, toGateway, toClient, gone >>
      BY <1>1 DEF clientVars
    <2> QED BY <1>1, <2>1, TalkKept DEF TalkInv
  <1>2. ASSUME NEW c \in Clients,
               (Connect(c) \/ Upload(c) \/ Leave(c)) /\ UNCHANGED gatewayVars
        PROVE  TalkInv'
    BY <1>2, ClientTalk
  <1>3. ASSUME NEW c \in Clients, Accept(c) PROVE TalkInv'
    BY <1>3, TaskTalk DEF Accept
  <1>4. ASSUME NEW c \in Clients, Uploads(c) PROVE TalkInv'
    BY <1>4, UploadTalk
  <1>5. ASSUME NEW c \in Clients, Answer(c) \/ AnswerAstray(c) PROVE TalkInv'
    BY <1>1, <1>5 DEF Answer, AnswerAstray, PublishResult, TopSent
  <1>6. CASE StartJob
    <2>1. PICK c : c = Head(jobs)
      OBVIOUS
    <2>2. jobs \in Seq(Clients) /\ jobs # <<>>
      BY <1>6 DEF StartJob, ListInv, Domains
    <2>3. c \in Clients /\ 1 \in DOMAIN jobs /\ jobs[1] = c
      BY <2>1, <2>2
    <2>4. handler[c] = "queued"
      BY <2>3 DEF ListInv, JobsQueued
    <2>5. handler' = [handler EXCEPT ![c] = "recv"]
          /\ UNCHANGED << clientVars, published, responder >>
      BY <1>6, <2>1 DEF StartJob
    <2> QED BY <2>3, <2>4, <2>5, TaskTalk
  <1>7. CASE TakeResult \/ SkipClient \/ ScanEnds \/ PopClient \/ PopFails
    <2>1. /\ responder.at # "await_ack" /\ responder'.at # "await_ack"
          /\ UNCHANGED << clientVars, handler, published >>
      BY <1>7 DEF TakeResult, SkipClient, ScanEnds, PopClient, PopFails, StopConsuming, Idle,
         requestVars, clientVars, ListInv, Domains, Positions
    <2> QED BY <1>1, <2>1 DEF TopSent
  <1>8. CASE Responder
    BY <1>7, <1>8, SendTopTalk, ServedTalk DEF Responder
  <1>9. CASE UNCHANGED vars
    BY <1>1, <1>9 DEF vars, clientVars, gatewayVars, TopSent
  <1> QED BY <1>2, <1>3, <1>4, <1>5, <1>6, <1>8, <1>9 DEF Next

LEMMA TalkInit == Init => TalkInv
  <1>1. ASSUME Init, NEW c \in Clients PROVE Talk(c)
    <2>1. RecordCount[c] \in Nat
      BY ClientAssumption
    <2> QED BY <1>1, <2>1 DEF Init, ClientInit, GatewayInit, Talk, Sending, Quiet, TaskWaits
  <1>2. Init => gone \subseteq Clients
    BY DEF Init, ClientInit
  <1> QED BY <1>1, <1>2 DEF TalkInv

\* Client, upload task and response process take turns on one connection, for
\* any number of clients, any pool and any failures: a message of the client is
\* alone on its connection, and the last ACK and the top are all that can be
\* under way to it, in either order.
THEOREM TakesTurnsHolds == Spec => []TakesTurns
  <1>1. TalkInv => TakesTurns
    <2> SUFFICES ASSUME TalkInv, NEW c \in Clients \ gone
                 PROVE  /\ Len(toGateway[c]) <= 1
                        /\ toGateway[c] # <<>> => toClient[c] = <<>>
                        /\ toClient[c] \in {<<>>, << Ack >>, << FruitTop(c) >>,
                                           << Ack, FruitTop(c) >>, << FruitTop(c), Ack >>}
      BY DEF TakesTurns
    <2>1. Talk(c)
      BY DEF TalkInv
    <2>2. toGateway[c] = <<>> \/ \E m : toGateway[c] = << m >> /\ toClient[c] = <<>>
      BY <2>1 DEF Talk, Sending, AwaitingAck, AwaitingEndAck, AwaitingTop, Quiet
    <2>3. Len(<<>>) = 0 /\ \A m : Len(<< m >>) = 1
      OBVIOUS
    <2>4. toClient[c] \in {<<>>, << Ack >>, << FruitTop(c) >>,
                          << Ack, FruitTop(c) >>, << FruitTop(c), Ack >>}
      BY <2>1 DEF Talk, Sending, AwaitingAck, AwaitingEndAck, AwaitingTop, Quiet
    <2>5. Len(toGateway[c]) <= 1
      <3>1. CASE toGateway[c] = <<>>
        BY <3>1, <2>3
      <3>2. CASE \E m : toGateway[c] = << m >>
        <4>1. PICK m : toGateway[c] = << m >>
          BY <3>2
        <4>2. Len(toGateway[c]) = 1
          BY <2>3, <4>1
        <4> QED BY <4>2
      <3> QED BY <2>2, <3>1, <3>2
    <2> QED BY <2>2, <2>4, <2>5
  <1> QED BY <1>1, InitListInv, NextListInv, TalkInit, TalkStep, PTL DEF Spec

-----------------------------------------------------------------------------
(* The entries of those who still listen.                                  *)

LEMMA GoneForGood ==
    ASSUME [Next]_vars
    PROVE  gone \subseteq gone'
  <1>1. ASSUME NEW c \in Clients, Connect(c) \/ Upload(c) \/ Leave(c) PROVE gone \subseteq gone'
    BY <1>1 DEF Connect, Upload, Leave, SendRecord, SendEnd, ReceiveAck, ReceiveEndAck, ReceiveTop
  <1>2. ASSUME NEW c \in Clients, Accept(c) \/ Uploads(c) \/ Answer(c) \/ AnswerAstray(c)
        PROVE  gone' = gone
    BY <1>2 DEF Accept, Answer, AnswerAstray, PublishResult, Uploads, RequestHandler,
       ForwardRecord, ForwardEof, AckRecord, AckEnd, RequestFails, PublishFails, HandlerAt, clientVars
  <1>3. Responder => gone' = gone
    BY DEF Responder, TakeResult, SkipClient, SendTop, ScanEnds, ReadAck, SocketError,
       EndOfStream, TopOverflows, PopClient, PopFails, StopConsuming, requestVars
  <1>4. StartJob \/ UNCHANGED vars => gone' = gone
    BY DEF StartJob, vars, clientVars
  <1> QED BY <1>1, <1>2, <1>3, <1>4 DEF Next

LEMMA StraysForGood ==
    ASSUME ListInv, [Next]_vars, strays' = 0
    PROVE  strays = 0
  <1>1. ASSUME NEW c \in Clients, AnswerAstray(c) PROVE FALSE
    BY <1>1 DEF AnswerAstray, ListInv, Domains
  <1>2. ASSUME NEW c \in Clients,
               \/ (Connect(c) \/ Upload(c) \/ Leave(c)) /\ UNCHANGED gatewayVars
               \/ Accept(c) \/ Uploads(c) \/ Answer(c)
        PROVE  strays' = strays
    BY <1>2 DEF gatewayVars, Accept, Answer, Uploads, RequestHandler, ForwardRecord, ForwardEof,
       AckRecord, AckEnd, RequestFails, PublishFails, HandlerAt
  <1>3. Responder \/ StartJob \/ UNCHANGED vars => strays' = strays
    BY DEF Responder, TakeResult, SkipClient, SendTop, ScanEnds, ReadAck, SocketError,
       EndOfStream, TopOverflows, PopClient, PopFails, StopConsuming, requestVars, StartJob,
       vars, gatewayVars
  <1> QED BY <1>1, <1>2, <1>3 DEF Next

LEMMA ListenStep ==
    ASSUME ListInv, TalkInv, ServedGone, ListenersListed, [Next]_vars
    PROVE  ServedGone' /\ ListenersListed'
  <1> SUFFICES ASSUME strays' = 0
               PROVE  /\ responder'.at = "pop" => responder'.result.of \in gone'
                      /\ \A c \in Clients \ gone' : handler'[c] # "none" => c \in Entries'
    BY DEF ServedGone, ListenersListed
  <1>1. /\ strays = 0 /\ gone \subseteq gone'
        /\ responder.at = "pop" => responder.result.of \in gone
        /\ \A c \in Clients \ gone : handler[c] # "none" => c \in Entries
    BY StraysForGood, GoneForGood DEF ServedGone, ListenersListed
  <1>2. handler \in [Clients -> HandlerStates] /\ responder \in Positions
        /\ clientList \in Seq(Clients)
    BY DEF ListInv, Domains
  <1>3. CASE /\ responder' = responder /\ clientList' = clientList
             /\ \A c \in Clients : handler'[c] # "none" => handler[c] # "none"
    BY <1>1, <1>3 DEF Entries
  <1>4. ASSUME NEW c \in Clients,
               \/ (Connect(c) \/ Upload(c) \/ Leave(c)) /\ UNCHANGED gatewayVars
               \/ Answer(c) \/ AnswerAstray(c)
        PROVE  responder' = responder /\ clientList' = clientList /\ handler' = handler
    BY <1>4 DEF gatewayVars, Answer, AnswerAstray, PublishResult
  <1>5. ASSUME NEW c \in Clients, Uploads(c)
        PROVE  /\ responder' = responder /\ clientList' = clientList
               /\ \A d \in Clients : handler'[d] # "none" => handler[d] # "none"
    <2>1. UploadStep(c)
      BY <1>5, UploadSteps
    <2> QED BY <1>2, <2>1 DEF UploadStep
  <1>6. CASE StartJob
    <2>1. jobs \in Seq(Clients) /\ jobs # <<>> /\ handler' = [handler EXCEPT ![Head(jobs)] = "recv"]
          /\ responder' = responder /\ clientList' = clientList
      BY <1>6 DEF StartJob, ListInv, Domains
    <2>2. 1 \in DOMAIN jobs /\ jobs[1] = Head(jobs)
      BY <2>1
    <2>3. handler[Head(jobs)] # "none"
      BY <2>2 DEF ListInv, JobsQueued
    <2>4. \A d \in Clients : handler'[d] # "none" => handler[d] # "none"
      BY <1>2, <2>1, <2>3
    <2> QED BY <1>3, <2>1, <2>4
  <1>7. ASSUME NEW c \in Clients, Accept(c)
        PROVE  /\ responder' = responder
               /\ \A d \in Clients \ gone' : handler'[d] # "none" => d \in Entries'
    <2>1. /\ Len(clientList) \in Nat /\ Len(clientList') = Len(clientList) + 1
          /\ clientList' \in Seq(Clients) /\ clientList'[Len(clientList) + 1] = c
          /\ \A i \in 1 .. Len(clientList) : clientList'[i] = clientList[i]
      BY <1>2, <1>7, Appended DEF Accept
    <2>2. DOMAIN clientList = 1 .. Len(clientList) /\ DOMAIN clientList' = 1 .. Len(clientList')
      BY <1>2, <2>1, LenProperties
    <2>3. c \in Entries' /\ Entries \subseteq Entries'
      BY <2>1, <2>2 DEF Entries
    <2>4. handler' = [handler EXCEPT ![c] = "queued"] /\ responder' = responder
      BY <1>7 DEF Accept
    <2> QED BY <1>1, <1>2, <2>3, <2>4
  <1>8. CASE TakeResult \/ SkipClient \/ SendTop \/ EndOfStream \/ TopOverflows \/ PopFails
    <2>1. clientList' = clientList /\ handler' = handler /\ responder'.at # "pop"
      BY <1>2, <1>8 DEF TakeResult, SkipClient, SendTop, EndOfStream, TopOverflows, PopFails,
         StopConsuming, requestVars, Positions
    <2> QED BY <1>1, <2>1 DEF Entries
  <1>9. CASE ReadAck \/ SocketError
    <2>1. /\ clientList' = clientList /\ handler' = handler
          /\ responder' = [responder EXCEPT !.at = "pop"]
      BY <1>9 DEF ReadAck, SocketError, requestVars
    <2>2. responder'.result.of \in gone'
      BY <1>1, <1>2, <1>9, <2>1, ServedTalk DEF Positions
    <2> QED BY <1>1, <2>1, <2>2 DEF Entries
  <1>10. ~ScanEnds
    <2>1. ASSUME ScanEnds PROVE FALSE
      <3>1. responder.at = "scan" /\ responder.index >= Len(clientList)
            /\ responder.index \in Nat /\ Len(clientList) \in Nat
        BY <1>2, <2>1 DEF ScanEnds, Positions
      <3>2. Ahead
        BY <1>1, <3>1 DEF ListInv, EntryAhead, PendingListed, Serving
      <3> QED BY <3>1, <3>2 DEF Ahead
    <2> QED BY <2>1
  <1>11. CASE PopClient
    <2>1. /\ responder.at = "pop" /\ responder.index < Len(clientList)
          /\ responder' = Idle /\ handler' = handler /\ gone' = gone
          /\ clientList' = SubSeq(clientList, 1, responder.index)
                               \o SubSeq(clientList, responder.index + 2, Len(clientList))
      BY <1>11 DEF PopClient, requestVars
    <2>2. responder.result.of \in gone /\ clientList[responder.index + 1] = responder.result.of
      BY <1>1, <2>1 DEF ListInv, EntryAhead, AtEntry, PendingListed, Serving
    <2>3. \A i \in DOMAIN clientList : i # responder.index + 1 =>
              \E j \in DOMAIN clientList' : clientList'[j] = clientList[i]
      <3>1. responder.index \in Nat
        BY <1>2 DEF Positions
      <3> QED BY <1>2, <2>1, <3>1, TakenOut
    <2>4. \A d \in Entries : d # responder.result.of => d \in Entries'
      BY <2>2, <2>3 DEF Entries
    <2> QED BY <1>1, <2>1, <2>2, <2>4 DEF Idle
  <1>12. CASE UNCHANGED vars
    BY <1>3, <1>12 DEF vars, gatewayVars
  <1> QED BY <1>1, <1>3, <1>4, <1>5, <1>6, <1>7, <1>8, <1>9, <1>10, <1>11, <1>12
          DEF Next, Responder, Entries

LEMMA ListenInit == Init => ServedGone /\ ListenersListed
  BY DEF Init, GatewayInit, ServedGone, ListenersListed, Idle

\* A client that waits for its top keeps its entry, for any number of clients,
\* any pool and any failures, as long as no result is empty or repeated.
THEOREM ListedUntilServedHolds == Spec => []ListedUntilServed
  <1>1. TalkInv /\ ListenersListed => ListedUntilServed
    <2> SUFFICES ASSUME TalkInv, ListenersListed, NEW c \in Clients, strays = 0,
                        client[c].at = "await_top"
                 PROVE  c \in Entries
      BY DEF ListedUntilServed
    <2>1. c \notin gone /\ handler[c] # "none"
      BY DEF TalkInv, Talk, Sending, AwaitingAck, AwaitingEndAck, AwaitingTop, Leftover
    <2> QED BY <2>1 DEF ListenersListed
  <1> QED BY <1>1, InitListInv, NextListInv, TalkInit, TalkStep, ListenInit, ListenStep,
          PTL DEF Spec

-----------------------------------------------------------------------------
(* The list and the pool.                                                  *)

\* A sequence without repetitions is as long as its set of elements is large.
LEMMA AllDifferent ==
    ASSUME NEW S, NEW s \in Seq(S),
           \A i, j \in DOMAIN s : s[i] = s[j] => i = j
    PROVE  Len(s) = Cardinality({s[i] : i \in DOMAIN s})
  <1>1. Len(s) \in Nat /\ DOMAIN s = 1 .. Len(s) /\ s \in [1 .. Len(s) -> {s[i] : i \in DOMAIN s}]
    OBVIOUS
  <1>2. s \in Bijection(1 .. Len(s), {s[i] : i \in DOMAIN s})
    BY <1>1 DEF Bijection, Injection, Surjection, IsInjective
  <1> QED BY <1>1, <1>2, FS_CountingElements DEF ExistsBijection

\* The tasks that run, when one of them is c.
LEMMA TaskCounts ==
    ASSUME Domains, NEW c \in Clients, NEW to \in HandlerStates,
           handler' = [handler EXCEPT ![c] = to]
    PROVE  Working' = IF to \in {"recv", "ack_record", "ack_end"} THEN Working \cup {c}
                      ELSE Working \ {c}
  BY DEF Domains, Working

LEMMA PoolStep ==
    ASSUME ListInv, PoolInv, [Next]_vars
    PROVE  PoolInv'
  <1>1. /\ handler \in [Clients -> HandlerStates] /\ responder \in Positions
        /\ clientList \in Seq(Clients) /\ Len(clientList) \in Nat /\ Domains
        /\ IsFiniteSet(Working) /\ Cardinality(Working) \in Nat
        /\ PoolSize \in Nat /\ responder.index \in Nat /\ responder.index <= Len(clientList)
    BY FS_CardinalityType, GatewayAssumption DEF ListInv, Domains, PoolInv, Positions
  <1>2. Responding \in Nat /\ Responding' \in Nat
    BY DEF Responding
  <1>3. CASE /\ responder' = responder /\ clientList' = clientList /\ handler' = handler
    BY <1>3 DEF PoolInv, Entries, Working, Responding
  <1>4. ASSUME NEW c \in Clients,
               \/ (Connect(c) \/ Upload(c) \/ Leave(c)) /\ UNCHANGED gatewayVars
               \/ Answer(c) \/ AnswerAstray(c)
        PROVE  responder' = responder /\ clientList' = clientList /\ handler' = handler
    BY <1>4 DEF gatewayVars, Answer, AnswerAstray, PublishResult
  <1>5. ASSUME NEW c \in Clients, Uploads(c) PROVE PoolInv'
    <2>1. UploadStep(c)
      BY <1>5, UploadSteps DEF ListInv
    <2>2. PICK from \in {"recv", "ack_record", "ack_end"}, to \in HandlerStates \ {"none", "queued"} :
              handler[c] = from /\ handler' = [handler EXCEPT ![c] = to]
      BY <2>1 DEF UploadStep
    <2>3. responder' = responder /\ clientList' = clientList
      BY <2>1 DEF UploadStep
    <2>4. c \in Working
      BY <2>2 DEF Working
    <2>5. Working' = Working \/ Working' = Working \ {c}
      <3>1. Working' = Working \cup {c} \/ Working' = Working \ {c}
        BY <1>1, <2>2, TaskCounts
      <3>2. Working \cup {c} = Working
        BY <2>4
      <3> QED BY <3>1, <3>2
    <2>6. /\ IsFiniteSet(Working \ {c})
          /\ Cardinality(Working \ {c}) = Cardinality(Working) - 1
      BY <1>1, <2>4, FS_RemoveElement
    <2>7. IsFiniteSet(Working') /\ Cardinality(Working') <= Cardinality(Working)
          /\ Cardinality(Working') \in Int
      <3>1. CASE Working' = Working
        BY <1>1, <3>1
      <3>2. CASE Working' = Working \ {c}
        <4>1. Cardinality(Working') = Cardinality(Working) - 1 /\ IsFiniteSet(Working')
          BY <2>6, <3>2
        <4> QED BY <1>1, <4>1
      <3> QED BY <2>5, <3>1, <3>2
    <2>8. Cardinality(Working') + Responding' <= PoolSize
      BY <1>1, <1>2, <2>3, <2>7 DEF PoolInv, Responding
    <2>9. \A d \in Entries' : handler'[d] # "none"
      BY <1>1, <2>2, <2>3 DEF PoolInv, Entries
    <2> QED BY <2>3, <2>7, <2>8, <2>9 DEF PoolInv
  <1>6. CASE StartJob
    <2>1. PICK c : c = Head(jobs)
      OBVIOUS
    <2>2. jobs \in Seq(Clients) /\ jobs # <<>> /\ handler' = [handler EXCEPT ![c] = "recv"]
          /\ responder' = responder /\ clientList' = clientList
          /\ Cardinality(Working) + Responding < PoolSize
      BY <1>6, <2>1 DEF StartJob, ListInv, Domains
    <2>3. c \in Clients /\ 1 \in DOMAIN jobs /\ jobs[1] = c
      BY <2>1, <2>2
    <2>4. handler[c] = "queued"
      BY <2>3 DEF ListInv, JobsQueued
    <2>5. c \notin Working
      BY <2>4 DEF Working
    <2>6. Working' = Working \cup {c}
      BY <1>1, <2>2, <2>3, TaskCounts DEF HandlerStates
    <2>7. IsFiniteSet(Working') /\ Cardinality(Working') = Cardinality(Working) + 1
      BY <1>1, <2>5, <2>6, FS_AddElement
    <2>8. Cardinality(Working') + Responding' <= PoolSize
      BY <1>1, <1>2, <2>2, <2>7 DEF Responding
    <2>9. \A d \in Entries' : handler'[d] # "none"
      BY <1>1, <2>2, <2>3 DEF PoolInv, Entries
    <2> QED BY <2>2, <2>7, <2>8, <2>9 DEF PoolInv
  <1>7. ASSUME NEW c \in Clients, Accept(c) PROVE PoolInv'
    <2>1. /\ Len(clientList') = Len(clientList) + 1
          /\ clientList' \in Seq(Clients) /\ clientList'[Len(clientList) + 1] = c
          /\ \A i \in 1 .. Len(clientList) : clientList'[i] = clientList[i]
      BY <1>1, <1>7, Appended DEF Accept
    <2>2. /\ handler[c] = "none" /\ handler' = [handler EXCEPT ![c] = "queued"]
          /\ responder' = responder
      BY <1>7 DEF Accept
    <2>3. \A i \in DOMAIN clientList' :
              \/ i \in DOMAIN clientList /\ clientList'[i] = clientList[i]
              \/ i = Len(clientList) + 1 /\ clientList'[i] = c
      BY <1>1, <2>1
    <2>4. \A i \in DOMAIN clientList : clientList[i] # c /\ handler[clientList[i]] # "none"
      BY <2>2 DEF PoolInv, Entries
    <2>5. \A i, j \in DOMAIN clientList' : clientList'[i] = clientList'[j] => i = j
      BY <2>3, <2>4 DEF PoolInv
    <2>6. \A i \in DOMAIN clientList' : handler'[clientList'[i]] # "none"
      <3>1. \A i \in DOMAIN clientList : clientList[i] \in Clients
        BY <1>1
      <3> QED BY <1>1, <2>2, <2>3, <2>4, <3>1
    <2>7. c \notin Working /\ Working' = Working
      <3>1. c \notin Working
        BY <2>2 DEF Working
      <3>2. Working' = Working \ {c}
        BY <1>1, <2>2, TaskCounts DEF HandlerStates
      <3> QED BY <3>1, <3>2
    <2>8. responder'.index <= Len(clientList')
      BY <1>1, <2>1, <2>2
    <2>9. Responding' = Responding
      BY <2>2 DEF Responding
    <2> QED BY <2>5, <2>6, <2>7, <2>8, <2>9 DEF PoolInv, Entries
  <1>8. ASSUME Responder, ~PopClient PROVE PoolInv'
    <2>1. clientList' = clientList /\ handler' = handler /\ responder.at # "stopped"
      BY <1>8 DEF Responder, TakeResult, SkipClient, SendTop, ScanEnds, ReadAck, SocketError,
         ServedLeft, EndOfStream, TopOverflows, PopFails, StopConsuming, requestVars
    <2>2. responder'.index <= Len(clientList)
      <3>1. CASE TakeResult
        <4>1. responder'.index = 0
          BY <3>1 DEF TakeResult
        <4> QED BY <1>1, <4>1
      <3>2. CASE SkipClient
        <4>1. responder'.index = responder.index + 1 /\ responder.index < Len(clientList)
          BY <1>1, <3>2 DEF SkipClient, Positions
        <4> QED BY <1>1, <4>1
      <3>3. CASE \E at : responder' = [responder EXCEPT !.at = at]
        <4>1. responder'.index = responder.index
          BY <1>1, <3>3 DEF Positions
        <4> QED BY <1>1, <4>1
      <3> QED BY <1>8, <3>1, <3>2, <3>3 DEF Responder, SendTop, ScanEnds, ReadAck, SocketError,
                 EndOfStream, TopOverflows, PopFails, StopConsuming
    <2>3. Working' = Working /\ Entries' = Entries
      BY <2>1 DEF Working, Entries
    <2>4. Responding = 1 /\ Responding' <= 1
      BY <2>1 DEF Responding
    <2>5. Cardinality(Working') + Responding' <= PoolSize
      BY <1>1, <1>2, <2>3, <2>4 DEF PoolInv
    <2> QED BY <2>1, <2>2, <2>3, <2>5 DEF PoolInv
  <1>9. CASE PopClient
    <2>1. /\ responder.at = "pop" /\ responder.index < Len(clientList)
          /\ responder' = Idle /\ handler' = handler
          /\ clientList' = SubSeq(clientList, 1, responder.index)
                               \o SubSeq(clientList, responder.index + 2, Len(clientList))
      BY <1>9 DEF PopClient, requestVars
    <2>2. /\ clientList' \in Seq(Clients) /\ Len(clientList') = Len(clientList) - 1
          /\ \A j \in 1 .. Len(clientList) - 1 :
                 clientList'[j] = clientList[IF j <= responder.index THEN j ELSE j + 1]
      <3>1. responder.index \in Nat /\ clientList \in Seq(Clients)
        BY <1>1
      <3> QED BY <2>1, <3>1, TakenOut
    <2>3. \A j \in DOMAIN clientList' :
              /\ j \in Nat /\ (IF j <= responder.index THEN j ELSE j + 1) \in DOMAIN clientList
              /\ clientList'[j] = clientList[IF j <= responder.index THEN j ELSE j + 1]
      <3>1. /\ DOMAIN clientList' = 1 .. Len(clientList) - 1
            /\ DOMAIN clientList = 1 .. Len(clientList)
        BY <1>1, <2>2, LenProperties
      <3>2. ASSUME NEW j \in 1 .. Len(clientList) - 1
            PROVE  j \in Nat /\ (IF j <= responder.index THEN j ELSE j + 1) \in 1 .. Len(clientList)
        BY <1>1
      <3> QED BY <2>2, <3>1, <3>2
    <2>4. \A i, j \in DOMAIN clientList' : clientList'[i] = clientList'[j] => i = j
      <3> SUFFICES ASSUME NEW i \in DOMAIN clientList', NEW j \in DOMAIN clientList',
                          clientList'[i] = clientList'[j]
                   PROVE  i = j
        OBVIOUS
      <3>1. (IF i <= responder.index THEN i ELSE i + 1)
            = (IF j <= responder.index THEN j ELSE j + 1)
        BY <2>3 DEF PoolInv
      <3> QED BY <1>1, <2>3, <3>1
    <2>5. Entries' \subseteq Entries
      BY <2>3 DEF Entries
    <2>6. Working' = Working /\ Responding' = Responding /\ responder'.index = 0
          /\ Len(clientList') \in Nat
      BY <1>1, <2>1, <2>2 DEF Working, Responding, Idle
    <2>7. responder'.index <= Len(clientList')
      BY <2>6
    <2> QED BY <2>1, <2>4, <2>5, <2>6, <2>7 DEF PoolInv
  <1>10. CASE UNCHANGED vars
    BY <1>3, <1>10 DEF vars, gatewayVars
  <1> QED BY <1>3, <1>4, <1>5, <1>6, <1>7, <1>8, <1>9, <1>10 DEF Next

LEMMA PoolInit == Init => PoolInv
  <1> SUFFICES ASSUME Init PROVE PoolInv
    OBVIOUS
  <1>1. Working = {} /\ Responding = 1 /\ responder.index = 0 /\ clientList = <<>>
    BY DEF Init, GatewayInit, Working, Responding, Idle
  <1>2. IsFiniteSet(Working) /\ Cardinality(Working) = 0
    BY <1>1, FS_EmptySet
  <1>3. Cardinality(Working) + Responding <= PoolSize
    BY <1>1, <1>2, GatewayAssumption
  <1>4. Entries = {} /\ Len(clientList) = 0 /\ DOMAIN clientList = {}
    BY <1>1 DEF Entries
  <1> QED BY <1>1, <1>2, <1>3, <1>4 DEF PoolInv

\* The gateway's variables stay in their domains, for any number of clients and
\* any pool: no more records are published than the client has, client_list has
\* one entry per client, and the running tasks fit the pool.
THEOREM TypeCorrect == Spec => []TypeOK
  <1>1. ListInv /\ TalkInv /\ PoolInv => TypeOK
    <2> SUFFICES ASSUME ListInv, TalkInv, PoolInv PROVE TypeOK
      OBVIOUS
    <2>1. /\ client \in [Clients -> ClientRecords] /\ handler \in [Clients -> HandlerStates]
          /\ published \in [Clients -> Nat] /\ clientList \in Seq(Clients)
          /\ responder \in Positions /\ ended \subseteq Clients /\ answered \subseteq ended
      BY DEF ListInv, Domains
    <2>2. ASSUME NEW c \in Clients
          PROVE  /\ client[c].at \in ClientStates /\ client[c].sent \in 0 .. RecordCount[c]
                 /\ handler[c] \in HandlerStates /\ published[c] \in 0 .. RecordCount[c]
      <3>1. /\ client[c].at \in ClientStates /\ client[c].sent \in Nat
            /\ published[c] \in Nat /\ RecordCount[c] \in Nat /\ handler[c] \in HandlerStates
        BY <2>1, ClientAssumption DEF ClientRecords
      <3>2. client[c].sent <= RecordCount[c] /\ published[c] <= RecordCount[c]
        BY DEF TalkInv, Talk
      <3> QED BY <3>1, <3>2
    <2>3. Entries \subseteq Clients /\ Len(clientList) = Cardinality(Entries)
      <3>1. \A i, j \in DOMAIN clientList : clientList[i] = clientList[j] => i = j
        BY DEF PoolInv
      <3>2. Len(clientList) = Cardinality({clientList[i] : i \in DOMAIN clientList})
        BY <2>1, <3>1, AllDifferent
      <3> QED BY <2>1, <3>2 DEF Entries
    <2>4. responder.index \in 0 .. Len(clientList)
      BY <2>1 DEF PoolInv, Positions
    <2> QED BY <2>1, <2>2, <2>3, <2>4 DEF TypeOK, TalkInv, PoolInv
  <1> QED BY <1>1, InitListInv, NextListInv, TalkInit, TalkStep, PoolInit, PoolStep, PTL DEF Spec
================================================================================
