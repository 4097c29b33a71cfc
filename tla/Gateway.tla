-------------------------------- MODULE Gateway --------------------------------
(***************************************************************************)
(* The gateway: the main process accepts clients and appends them to       *)
(* client_list, a pool process per upload forwards the records of one      *)
(* client, and one pool process hands the results to the clients.          *)
(*                                                                         *)
(* client_list is a proxy of a list in the manager's process: each access  *)
(* of the response process goes to that list, so that its scan reads one   *)
(* entry at a time while the main process appends, and the scan's index is *)
(* used later to remove an entry.                                          *)
(*                                                                         *)
(* Of the workers behind the gateway only this is used: a result is of a   *)
(* client whose EOF was published, and it is empty when the client has no  *)
(* records.  It may also be empty when the client has some, come a second  *)
(* time, or never; MaxStrays bounds the empty and the repeated ones.       *)
(* AnswerEarly says whether a result may overtake the ACK of the client's  *)
(* END_OF_RECODS.                                                          *)
(*                                                                         *)
(* Not here: SIGTERM of the gateway.                                       *)
(***************************************************************************)
EXTENDS Client

CONSTANTS
    PoolSize,     \* processes of the pool: os.process_cpu_count()
    AnswerEarly,
    MaxStrays,    \* bound: results that are empty or not their client's first
    Overflowing,  \* clients whose top may have a total that no uint32 holds
    Unpublished,  \* clients whose upload task may lose the broker
    NoResult

ASSUME GatewayAssumption ==
    /\ PoolSize \in Nat \ {0} /\ AnswerEarly \in BOOLEAN /\ MaxStrays \in Nat
    /\ Overflowing \subseteq Clients /\ Unpublished \subseteq Clients

VARIABLES
    clientList,  \* client_list, by client
    jobs,        \* tasks submitted to the pool and not started
    handler,     \* handler[c]: where handle_client_request stands for c
    published,   \* published[c]: records of c sent to the Sum workers
    ended,       \* clients whose EOF is published
    answered,    \* history: clients of whom a result was published
    strays,      \* history: results published that are empty or not the first
    results,     \* the queue of results: [of, empty]
    responder    \* where _consume_result stands: [at, result, index]

gatewayVars == << clientList, jobs, handler, published, ended, answered, strays,
                  results, responder >>

vars == << clientVars, gatewayVars >>

Result(c, empty) == [of |-> c, empty |-> empty]

HandlerStates == {"none", "queued", "recv", "ack_record", "ack_end", "returned", "failed"}

Idle == [at |-> "idle", result |-> NoResult, index |-> 0]

GatewayInit ==
    /\ clientList = <<>> /\ jobs = <<>> /\ results = <<>>
    /\ handler = [c \in Clients |-> "none"]
    /\ published = [c \in Clients |-> 0]
    /\ ended = {} /\ answered = {} /\ strays = 0
    /\ responder = Idle

Init == ClientInit /\ GatewayInit

-----------------------------------------------------------------------------
(* The main process.  The append and the apply_async that follows it are   *)
(* one step: a job may start late anyhow.                                  *)

Accept(c) ==
    /\ client[c].at # "off" /\ handler[c] = "none"
    /\ clientList' = Append(clientList, c)
    /\ jobs' = Append(jobs, c)
    /\ handler' = [handler EXCEPT ![c] = "queued"]
    /\ UNCHANGED << clientVars, published, ended, answered, strays, results, responder >>

-----------------------------------------------------------------------------
(* The pool and handle_client_request.  The response task was submitted    *)
(* first and keeps its process until it stops consuming.                   *)

Working == {c \in Clients : handler[c] \in {"recv", "ack_record", "ack_end"}}
Responding == IF responder.at = "stopped" THEN 0 ELSE 1

StartJob ==
    /\ jobs # <<>>
    /\ Cardinality(Working) + Responding < PoolSize
    /\ handler' = [handler EXCEPT ![Head(jobs)] = "recv"]
    /\ jobs' = Tail(jobs)
    /\ UNCHANGED << clientVars, clientList, published, ended, answered, strays,
                    results, responder >>

HandlerAt(c, from, to) ==
    /\ handler[c] = from
    /\ handler' = [handler EXCEPT ![c] = to]
    /\ UNCHANGED << client, gone, clientList, jobs, answered, strays, results, responder >>

Read(c) ==
    /\ toGateway[c] # <<>>
    /\ toGateway' = [toGateway EXCEPT ![c] = Tail(@)]

\* What the gateway sends to a client that is gone goes nowhere.
Reply(c, m) ==
    toClient' = IF c \in gone THEN toClient
                ELSE [toClient EXCEPT ![c] = Append(@, m)]

ForwardRecord(c) ==
    /\ HandlerAt(c, "recv", "ack_record")
    /\ Read(c) /\ Head(toGateway[c]).type = "FRUIT_RECORD"
    /\ published' = [published EXCEPT ![c] = @ + 1]
    /\ UNCHANGED << toClient, ended >>

ForwardEof(c) ==
    /\ HandlerAt(c, "recv", "ack_end")
    /\ Read(c) /\ Head(toGateway[c]).type = "END_OF_RECODS"
    /\ ended' = ended \cup {c}
    /\ UNCHANGED << toClient, published >>

\* output_queue.send raises: the exception is logged and the task returns,
\* without an ACK and without a word to the client.
PublishFails(c) ==
    /\ c \in Unpublished
    /\ HandlerAt(c, "recv", "failed") /\ Read(c)
    /\ UNCHANGED << toClient, published, ended >>

AckRecord(c) ==
    /\ HandlerAt(c, "ack_record", "recv")
    /\ Reply(c, Ack)
    /\ UNCHANGED << toGateway, published, ended >>

\* Mutant: the task returns without the last ACK.
ReturnSilently(c) ==
    /\ HandlerAt(c, "ack_end", "returned")
    /\ UNCHANGED << toGateway, toClient, published, ended >>

AckEnd(c) ==
    /\ HandlerAt(c, "ack_end", "returned")
    /\ Reply(c, Ack)
    /\ UNCHANGED << toGateway, published, ended >>

\* Mutant: the exception is logged inside the loop, and the loop goes on.
LogAndGoOn(c) ==
    /\ c \in gone /\ client[c].at = "left"
    /\ \E from \in {"recv", "ack_record", "ack_end"} : HandlerAt(c, from, "recv")
    /\ UNCHANGED << toGateway, toClient, published, ended >>

\* A read or a send on the socket of a client that left raises, whatever is
\* still unread; both exceptions are logged and the task returns.
RequestFails(c) ==
    /\ c \in gone /\ client[c].at = "left"
    /\ \E from \in {"recv", "ack_record", "ack_end"} : HandlerAt(c, from, "returned")
    /\ UNCHANGED << toGateway, toClient, published, ended >>

RequestHandler(c) ==
    \/ ForwardRecord(c) \/ ForwardEof(c)
    \/ AckRecord(c) \/ AckEnd(c)
    \/ RequestFails(c)

Uploads(c) == RequestHandler(c) \/ PublishFails(c)

-----------------------------------------------------------------------------
(* The results that Join publishes, seen from the gateway.                 *)

PublishResult(c, empty) ==
    /\ c \in ended
    /\ AnswerEarly \/ handler[c] = "returned"
    /\ published[c] = 0 => empty
    /\ answered' = answered \cup {c}
    /\ results' = Append(results, Result(c, empty))
    /\ UNCHANGED << clientVars, clientList, jobs, handler, published, ended, responder >>

\* The client's top.
Answer(c) ==
    /\ c \notin answered
    /\ PublishResult(c, FALSE)
    /\ UNCHANGED strays

\* A top of nothing, or one after another, as when an Ok is repeated.
AnswerAstray(c) ==
    /\ strays < MaxStrays
    /\ \E empty \in BOOLEAN : (empty \/ c \in answered) /\ PublishResult(c, empty)
    /\ strays' = strays + 1

-----------------------------------------------------------------------------
(* handle_client_response: _consume_result.                                *)

requestVars == << client, gone, jobs, handler, published, ended, answered, strays >>

TakeResult ==
    /\ responder.at = "idle" /\ results # <<>>
    /\ responder' = [at |-> "scan", result |-> Head(results), index |-> 0]
    /\ results' = Tail(results)
    /\ UNCHANGED << requestVars, toGateway, toClient, clientList >>

\* Mutant: the entry's client is not compared with the result's.
ForAnybody(i) == TRUE

\* deserialize_result_message: None for another client's result, and an empty
\* top is as false as None.
IsFor(i) == clientList[i] = responder.result.of /\ ~responder.result.empty

SkipClient ==
    /\ responder.at = "scan" /\ responder.index < Len(clientList)
    /\ ~IsFor(responder.index + 1)
    /\ responder' = [responder EXCEPT !.index = @ + 1]
    /\ UNCHANGED << requestVars, toGateway, toClient, clientList, results >>

SendTop ==
    /\ responder.at = "scan" /\ responder.index < Len(clientList)
    /\ IsFor(responder.index + 1)
    /\ Reply(clientList[responder.index + 1], FruitTop(responder.result.of))
    /\ responder' = [responder EXCEPT !.at = "await_ack"]
    /\ UNCHANGED << requestVars, toGateway, clientList, results >>

ScanEnds ==
    /\ responder.at = "scan" /\ responder.index >= Len(clientList)
    /\ responder' = [responder EXCEPT !.at = "pop"]
    /\ UNCHANGED << requestVars, toGateway, toClient, clientList, results >>

ReadAck ==
    /\ responder.at = "await_ack"
    /\ Read(clientList[responder.index + 1])
    /\ responder' = [responder EXCEPT !.at = "pop"]
    /\ UNCHANGED << requestVars, toClient, clientList, results >>

\* The client of the entry the responder is serving has left.
ServedLeft ==
    /\ responder.index < Len(clientList)
    /\ client[clientList[responder.index + 1]].at = "left"
    /\ \/ responder.at = "await_ack"
       \/ responder.at = "scan" /\ IsFor(responder.index + 1)

\* socket.error: the entry is removed like an answered one.
SocketError ==
    /\ ServedLeft
    /\ responder' = [responder EXCEPT !.at = "pop"]
    /\ UNCHANGED << requestVars, toGateway, toClient, clientList, results >>

\* Any other exception: nack, and the process stops consuming for good.
StopConsuming ==
    /\ responder' = [responder EXCEPT !.at = "stopped"]
    /\ results' = << responder.result >> \o results
    /\ UNCHANGED << requestVars, toGateway, toClient, clientList >>

\* The end of the stream is an IncompleteReadError, which is no socket.error.
EndOfStream ==
    /\ ServedLeft /\ responder.at = "await_ack"
    /\ StopConsuming

\* Mutant: the oldest client is removed, not the one that was served.
PopFirst ==
    /\ responder.at = "pop" /\ responder.index < Len(clientList)
    /\ clientList' = Tail(clientList)
    /\ responder' = Idle
    /\ UNCHANGED << requestVars, toGateway, toClient, results >>

PopClient ==
    /\ responder.at = "pop" /\ responder.index < Len(clientList)
    /\ clientList' = SubSeq(clientList, 1, responder.index)
                     \o SubSeq(clientList, responder.index + 2, Len(clientList))
    /\ responder' = Idle
    /\ UNCHANGED << requestVars, toGateway, toClient, results >>

\* pop index out of range
PopFails ==
    /\ responder.at = "pop" /\ responder.index >= Len(clientList)
    /\ StopConsuming

\* to_bytes raises OverflowError before anything is sent.
TopOverflows ==
    /\ responder.at = "scan" /\ responder.index < Len(clientList)
    /\ IsFor(responder.index + 1) /\ responder.result.of \in Overflowing
    /\ StopConsuming

Responder ==
    \/ TakeResult
    \/ SkipClient \/ SendTop \/ ScanEnds
    \/ ReadAck \/ SocketError \/ EndOfStream \/ TopOverflows
    \/ PopClient \/ PopFails

-----------------------------------------------------------------------------
Next ==
    \/ \E c \in Clients : \/ Connect(c) /\ UNCHANGED gatewayVars
                          \/ Upload(c) /\ UNCHANGED gatewayVars
                          \/ Leave(c) /\ UNCHANGED gatewayVars
                          \/ Accept(c)
                          \/ Uploads(c)
                          \/ Answer(c) \/ AnswerAstray(c)
    \/ StartJob
    \/ Responder

Spec == Init /\ [][Next]_vars

FairSpec ==
    /\ Spec
    /\ \A c \in Clients : /\ WF_vars(Upload(c) /\ UNCHANGED gatewayVars)
                          /\ WF_vars(RequestHandler(c))
    /\ WF_vars(\E c \in Clients : Accept(c))
    /\ WF_vars(StartJob)
    /\ WF_vars(Responder)

-----------------------------------------------------------------------------
Entries == {clientList[i] : i \in DOMAIN clientList}

TypeOK ==
    /\ \A c \in Clients :
          /\ client[c].at \in ClientStates /\ client[c].sent \in 0 .. RecordCount[c]
          /\ handler[c] \in HandlerStates
          /\ published[c] \in 0 .. RecordCount[c]
    /\ gone \subseteq Clients /\ ended \subseteq Clients /\ answered \subseteq ended
    /\ Entries \subseteq Clients /\ Len(clientList) = Cardinality(Entries)
    /\ responder.index \in 0 .. Len(clientList)
    /\ Cardinality(Working) + Responding <= PoolSize

\* The result at hand is for nobody in client_list: it is empty, or the entry
\* of its client has been removed.  The scan ends past the last entry, and what
\* is there by the time of the pop is somebody else's entry, or none.
ForNobody == responder.result.empty \/ responder.result.of \notin Entries

\* While every client has at most one result, with something in it, a client
\* that waits for its top keeps its entry, whatever the response process
\* removes while the main process appends.
ListedUntilServed ==
    \A c \in Clients :
        strays = 0 /\ client[c].at = "await_top" /\ toClient[c] = <<>> => c \in Entries

\* The index found by the scan still is the served client's when it is removed:
\* a result for somebody in the list never removes anybody else, whatever the
\* results before it did.
OnlyServedRemoved ==
    [][\A c \in Entries \ Entries' : c = responder.result.of \/ ForNobody]_vars

\* No client ever reads another client's top.
TopIsOwn == \A c \in Clients :
               client[c].top.type = "FRUIT_TOP" => client[c].top.of = c

\* Client, upload task and response process take turns on one connection: a
\* message of the client is the only one under way, and towards the client
\* there is at most the last ACK and the top, either of them first.
TakesTurns ==
    \A c \in Clients \ gone :
        /\ Len(toGateway[c]) <= 1
        /\ toGateway[c] # <<>> => toClient[c] = <<>>
        /\ toClient[c] \in {<<>>, << Ack >>, << FruitTop(c) >>,
                           << Ack, FruitTop(c) >>, << FruitTop(c), Ack >>}

\* The response process, which serves every client, stops for three reasons
\* only: the client of the result at hand left, a total of its top does not fit
\* the protocol, or it is for nobody in the list.
StopsForCause ==
    responder.at = "stopped" =>
        \/ client[responder.result.of].at = "left"
        \/ responder.result.of \in Overflowing
        \/ ForNobody

Started(c) == client[c].at # "off"

\* Every upload task returns and gives its process back to the pool, whether
\* its client stays, leaves, or has nothing to upload, when the broker is lost,
\* and even when the response process has stopped: again and again, all that
\* were started have returned.
EveryUploadReturns ==
    []<>(\A c \in Clients : Started(c) => handler[c] \in {"returned", "failed"})

\* A top of c waits in the queue of results.
TopArrived(c) == Result(c, FALSE) \in {results[i] : i \in DOMAIN results}

\* Unless one of those reasons stops the response process, or a stray result
\* has cost the client its entry, every client that stays and whose top arrives
\* disconnects, with its top or with an error when the top came too early.
EveryClientAnswered ==
    \A c \in Clients \ Leavers :
        TopArrived(c) ~> \/ client[c].at \in {"done", "failed"}
                        \/ responder.at = "stopped"
                        \/ (strays > 0 /\ c \notin Entries)

\* README.md, section 5: "El Gateway devuelve la respuesta al cliente."  Every
\* client that stays gets the top that arrived for it, even when results never
\* come early.
EveryClientServed ==
    \A c \in Clients \ Leavers : TopArrived(c) ~> client[c].at = "done"

\* client/main.py: "Expected a FRUIT_TOP message".  What a client reads after
\* its upload is the top.
NoUnexpectedMessage == \A c \in Clients : client[c].at # "failed"
================================================================================
