---------------------------- MODULE PubSubClient ----------------------------
(***************************************************************************)
(* The pubsub client (pubsub/psclient/client.go): calls that send a        *)
(* request and wait for the answer with the request's ID, a receiver that  *)
(* sorts what the server sends into answers and messages, and the channel  *)
(* from which the application takes the messages.                          *)
(***************************************************************************)
EXTENDS Naturals, Sequences, FiniteSets

CONSTANTS Caller,
          Cap,          \* capacity of recvMsgChan
          Events,       \* events of the messages the server pushes
          MaxPush,      \* how many of them
          MayFail       \* whether the connection may be lost

VARIABLES nextRequestID, requests,   \* requests: the IDs with a channel
          call,        \* caller -> stage, its request's ID, the answer's ID
          toServer, fromServer, pushes,
          deliver,     \* goroutines that hold an answer for a caller
          inbox,       \* messages in recvMsgChan
          receiver,    \* "run", "blocked" or "leaving" with a message, "ended"
          conn         \* "up", "down" or "stopped"

vars == <<nextRequestID, requests, call, toServer, fromServer, pushes,
          deliver, inbox, receiver, conn>>

ClientConstants == Cap > 0

NoCall == [at |-> "idle", id |-> 0, got |-> 0]

Init ==                                                  \* New, NewFromConn
  /\ nextRequestID = 1 /\ requests = {} /\ call = [c \in Caller |-> NoCall]
  /\ toServer = <<>> /\ fromServer = <<>> /\ pushes = 0
  /\ deliver = {} /\ inbox = 0 /\ receiver = "run" /\ conn = "up"

-----------------------------------------------------------------------------
(* Subscribe, Unsubscribe, ServerVersion: the same steps.                  *)

newResponseChan(c) ==                                       \* under reqMtx
  /\ call' = [call EXCEPT ![c] = [NoCall EXCEPT !.at = "asking",
                                                !.id = nextRequestID]]
  /\ requests' = requests \cup {nextRequestID}
  /\ nextRequestID' = nextRequestID + 1

Ask(c) ==
  /\ call[c].at = "idle" /\ newResponseChan(c)
  /\ UNCHANGED <<toServer, fromServer, pushes, deliver, inbox, receiver, conn>>

\* The request is written under sendMtx; an error ends the call.
send(c) ==
  /\ call[c].at = "asking"
  /\ IF conn = "up"
     THEN /\ toServer' = Append(toServer, call[c].id)
          /\ call' = [call EXCEPT ![c].at = "waiting"]
          /\ UNCHANGED requests
     ELSE /\ call' = [call EXCEPT ![c].at = "failed"]
          /\ requests' = requests \ {call[c].id}        \* deleteRequestID
          /\ UNCHANGED toServer
  /\ UNCHANGED <<nextRequestID, fromServer, pushes, deliver, inbox, receiver, conn>>

\* Ping sends and does not wait: its ID is gone at once.
Ping(c) ==
  /\ call[c].at = "idle" /\ conn = "up"
  /\ toServer' = Append(toServer, 0)
  /\ call' = [call EXCEPT ![c] = [NoCall EXCEPT !.at = "pinged"]]
  /\ nextRequestID' = nextRequestID + 1
  /\ UNCHANGED <<requests, fromServer, pushes, deliver, inbox, receiver, conn>>

-----------------------------------------------------------------------------
(* The server and the connection (pubsub/pubsubhub.go receiveLoop).        *)

\* Every request but a ping is answered with its own ID.
ServerAnswers ==
  /\ conn = "up" /\ toServer # <<>>
  /\ fromServer' = IF Head(toServer) = 0 THEN fromServer
                   ELSE Append(fromServer, [event |-> "Resp", id |-> Head(toServer)])
  /\ toServer' = Tail(toServer)
  /\ UNCHANGED <<nextRequestID, requests, call, pushes, deliver, inbox,
                 receiver, conn>>

ServerPushes ==
  /\ conn = "up" /\ pushes < MaxPush
  /\ pushes' = pushes + 1
  /\ \E ev \in Events : fromServer' = Append(fromServer, [event |-> ev, id |-> 0])
  /\ UNCHANGED <<nextRequestID, requests, call, toServer, deliver, inbox,
                 receiver, conn>>

ConnectionLost ==
  /\ MayFail /\ conn = "up" /\ conn' = "down" /\ fromServer' = <<>>
  /\ UNCHANGED <<nextRequestID, requests, call, toServer, pushes, deliver,
                 inbox, receiver>>

Stop ==
  /\ MayFail /\ conn # "stopped" /\ conn' = "stopped" /\ fromServer' = <<>>
  /\ UNCHANGED <<nextRequestID, requests, call, toServer, pushes, deliver,
                 inbox, receiver>>

-----------------------------------------------------------------------------
(* The receiver.                                                           *)

\* What a message decodes to; "error" is logged and skipped.
DecodeMsg(m) ==
  CASE m.event = "Resp" -> "ResponseMessage"
    [] m.event = "bye" -> "HangUp"
    [] m.event \in {"message", "ping", "address", "newtxs", "newblock",
                   "mempool"} -> "message"
    [] OTHER -> "error"

TakeDecoded(kinds) == /\ receiver = "run" /\ fromServer # <<>>
                /\ DecodeMsg(Head(fromServer)) \in kinds
                /\ fromServer' = Tail(fromServer)

ReceiveError ==
  /\ TakeDecoded({"error"})
  /\ UNCHANGED <<nextRequestID, requests, call, toServer, pushes, deliver,
                 inbox, receiver, conn>>

\* An answer is handed over by a goroutine of its own, if it is waited for.
ReceiveAnswer_last ==
  /\ TakeDecoded({"ResponseMessage"})
  /\ deliver' = {Head(fromServer).id} \cap requests
  /\ UNCHANGED <<nextRequestID, requests, call, toServer, pushes, inbox,
                 receiver, conn>>
ReceiveAnswer ==
  /\ TakeDecoded({"ResponseMessage"})
  /\ deliver' = deliver \cup ({Head(fromServer).id} \cap requests)
  /\ UNCHANGED <<nextRequestID, requests, call, toServer, pushes, inbox,
                 receiver, conn>>

\* The caller with this channel takes the answer; both delete the ID.
Deliver_anyone(c, id) == call[c].at = "waiting"
Deliver(c, id) == call[c].at = "waiting" /\ call[c].id = id

Return(c, id) ==
  /\ id \in deliver /\ Deliver(c, id)
  /\ call' = [call EXCEPT ![c].at = "returned", ![c].got = id]
  /\ deliver' = deliver \ {id} /\ requests' = requests \ {id}
  /\ UNCHANGED <<nextRequestID, toServer, fromServer, pushes, inbox, receiver,
                 conn>>

\* A message goes to the channel; a full one stops the receiver.
ReceiveMessage ==
  /\ TakeDecoded({"message", "HangUp"})
  /\ receiver' = IF DecodeMsg(Head(fromServer)) = "HangUp" THEN "leaving"
                 ELSE "blocked"
  /\ UNCHANGED <<nextRequestID, requests, call, toServer, pushes, deliver,
                 inbox, conn>>

Enqueue ==
  /\ receiver \in {"blocked", "leaving"} /\ inbox < Cap
  /\ inbox' = inbox + 1
  /\ receiver' = IF receiver = "leaving" THEN "ended" ELSE "run"
  /\ UNCHANGED <<nextRequestID, requests, call, toServer, fromServer, pushes,
                 deliver, conn>>

ReceiverEnds ==                                  \* closes recvMsgChan
  /\ receiver = "run" /\ conn # "up" /\ fromServer = <<>>
  /\ receiver' = "ended" /\ conn' = "stopped"
  /\ UNCHANGED <<nextRequestID, requests, call, toServer, fromServer, pushes,
                 deliver, inbox>>

Receive ==                                       \* the application
  /\ inbox > 0 /\ inbox' = inbox - 1
  /\ UNCHANGED <<nextRequestID, requests, call, toServer, fromServer, pushes,
                 deliver, receiver, conn>>

-----------------------------------------------------------------------------
Next ==
  \/ ServerAnswers \/ ServerPushes \/ ConnectionLost \/ Stop
  \/ ReceiveError \/ ReceiveAnswer \/ ReceiveMessage \/ Enqueue
  \/ ReceiverEnds \/ Receive
  \/ \E c \in Caller : \/ Ask(c) \/ send(c) \/ Ping(c)
                       \/ \E id \in deliver : Return(c, id)

\* The goroutines run, the server answers while the connection is up, and the
\* application goes on reading Receive's channel, as its comment asks.
Fair(k) ==
  \/ k = "server" /\ ServerAnswers
  \/ k = "application" /\ Receive
  \/ k = "receiver" /\ (ReceiveError \/ ReceiveAnswer \/ ReceiveMessage \/ Enqueue
                        \/ ReceiverEnds)
  \/ k \in Caller /\ (send(k) \/ \E id \in deliver : Return(k, id))

Fairness == \A k \in {"server", "application", "receiver"} \cup Caller : WF_vars(Fair(k))

Spec == Init /\ [][Next]_vars /\ Fairness

-----------------------------------------------------------------------------
(* Properties                                                              *)

\* A call returns the answer to its own request, whatever the order in which
\* the goroutines that carry the answers run: no two calls wait for one ID, so
\* that an answer has one channel to go to (requests, responseChan).
AnswersMatch ==
  /\ \A c \in Caller : call[c].at = "returned" => call[c].got = call[c].id
  /\ \A c, d \in Caller :
       /\ call[c].at = "waiting" /\ call[d].at = "waiting" /\ call[c].id = call[d].id
       => c = d

\* A call returns, unless the connection is lost or the server has said
\* goodbye: then it waits for ever, as nothing closes its channel (Subscribe,
\* receiver).
NobodyWaits ==
  \A c \in Caller :
    call[c].at = "waiting" => conn # "up" \/ receiver \in {"leaving", "ended"}
CallsReturn == []<>NobodyWaits
=============================================================================
