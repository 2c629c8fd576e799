---------------------------- MODULE ByzanceClient ----------------------------
(***************************************************************************)
(* The connection thread of ByzanceClient with the MQTT client and the     *)
(* socket it drives.  The broker and the network are external: they accept *)
(* or refuse, fail at any time and push messages for subscribed topics.    *)
(***************************************************************************)
EXTENDS MqttMails

CONSTANTS
    Topics,         \* _topics: the topics to subscribe to, in order
    MaxHandlers,    \* MAX_MESSAGE_HANDLERS
    Retry,          \* CLIENT_NUMBER_OF_SEND_ATTEMPTS
    Budget,         \* bound: messages Homer publishes
    MaxInbox        \* bound: messages on the way to the device

ASSUME ClientAssumption ==
    /\ Topics \in Seq({"d_in", "command_in"})
    /\ Topics # <<>>
    /\ MaxHandlers \in Nat
    /\ MaxHandlers >= Len(Topics)
    /\ Retry \in Nat \ {0}
    /\ Budget \in Nat
    /\ MaxInbox \in Nat

VARIABLES
    cpc,            \* where thread_connection is
    sock,           \* _mqttsocket: NULL or connected
    client,         \* _client: NULL, or its isconnected
    handlers,       \* messageHandlers of _client: their topics
    cnt, attempt,   \* cnt and send_attempt of subscribe_all
    rx, handler,    \* the message in deliverMessage, or none, and the next handler
    announced,      \* Byzance::_client_connected, set by the callback
    alive,          \* the TCP connection works (external)
    inbox,          \* messages the broker has pushed (external)
    budget          \* messages Homer may still publish (external)

sessionVars == <<sock, client, handlers, cnt, attempt, announced>>
rxVars == <<rx, handler>>
netVars == <<alive, inbox, budget>>
clientVars == <<cpc, sessionVars, rxVars, netVars>>

TopicOf(p) == IF p = "d_in" THEN "d_in" ELSE "command_in"

Subscribed(t) == \E k \in 1 .. Len(handlers) : handlers[k] = t

InitClient ==
    /\ cpc = "top"
    /\ sock = "null"
    /\ client = "null"
    /\ handlers = <<>>
    /\ cnt = 0
    /\ attempt = 0
    /\ rx = "none"
    /\ handler = 1
    /\ announced = FALSE
    /\ alive = FALSE
    /\ inbox = <<>>
    /\ budget = Budget

-----------------------------------------------------------------------------
(* The network and the broker.                                             *)

ConnectionLost ==
    /\ alive
    /\ alive' = FALSE
    /\ inbox' = <<>>
    /\ UNCHANGED <<cpc, sessionVars, rxVars, budget, mailVars>>

HomerPublishes(p) ==
    /\ alive
    /\ Subscribed(TopicOf(p))
    /\ budget > 0
    /\ Len(inbox) < MaxInbox
    /\ inbox' = Append(inbox, p)
    /\ budget' = budget - 1
    /\ UNCHANGED <<cpc, sessionVars, rxVars, alive, mailVars>>

-----------------------------------------------------------------------------
(* thread_connection.                                                      *)

\* The socket is not connected: a new one is made if there is none, and
\* MQTTSocket::connect succeeds, or fails and destroy_socket follows.
ConnectSocket ==
    /\ cpc = "top"
    /\ sock # "up"
    /\ connected' = FALSE
    /\ subscribed' = FALSE
    /\ \/ sock' = "up" /\ alive' = TRUE
       \/ sock' = "null" /\ UNCHANGED alive
    /\ UNCHANGED <<cpc, client, handlers, cnt, attempt, announced, rxVars, inbox, budget,
                   sendVars, recvVars>>

\* The socket is connected: a client is made if there is none, and the thread
\* serves it or connects it to the broker.
CheckClient ==
    /\ cpc = "top"
    /\ sock = "up"
    /\ client' = IF client = "null" THEN "down" ELSE client
    /\ IF client' = "up"
       THEN connected' = TRUE /\ cpc' = "send" /\ UNCHANGED subscribed
       ELSE connected' = FALSE /\ subscribed' = FALSE /\ cpc' = "connect"
    /\ UNCHANGED <<sock, handlers, cnt, attempt, announced, rxVars, netVars,
                   sendVars, recvVars>>

\* Variant: the client is not reset.
destroy_clientKeeps ==
    /\ client' = "down"
    /\ handlers' = <<>>
    /\ sock' = "null"
    /\ alive' = FALSE
    /\ inbox' = <<>>
    /\ connected' = FALSE
    /\ subscribed' = FALSE
    /\ announced' = FALSE
    /\ cpc' = "top"

\* destroy_client, which tells Byzance through the callback.
destroy_client ==
    /\ client' = "null"
    /\ handlers' = <<>>
    /\ sock' = "null"
    /\ alive' = FALSE
    /\ inbox' = <<>>
    /\ connected' = FALSE
    /\ subscribed' = FALSE
    /\ announced' = FALSE
    /\ cpc' = "top"

\* MQTT::Client::connect.
ConnectClient ==
    /\ cpc = "connect"
    /\ \/ /\ alive
          /\ client' = "up"
          /\ connected' = TRUE
          /\ cnt' = 0
          /\ attempt' = 0
          /\ cpc' = "subscribe"
          /\ UNCHANGED <<sock, handlers, announced, alive, inbox, subscribed>>
       \/ destroy_client /\ UNCHANGED <<cnt, attempt>>
    /\ UNCHANGED <<rxVars, budget, sendVars, recvVars>>

\* Variant: one topic is enough.
SubscribeOkOne ==
    /\ cpc = "subscribe"
    /\ client = "up"
    /\ alive
    /\ handlers' = Append(handlers, Topics[cnt + 1])
    /\ subscribed' = TRUE
    /\ cpc' = "announce"
    /\ UNCHANGED <<sock, client, cnt, attempt, announced, rxVars, netVars, connected,
                   sendVars, recvVars>>

\* One round of subscribe_all that succeeds.
SubscribeOk ==
    /\ cpc = "subscribe"
    /\ client = "up"
    /\ alive
    /\ handlers' = IF Len(handlers) < MaxHandlers THEN Append(handlers, Topics[cnt + 1])
                                                  ELSE handlers
    /\ attempt' = 0
    /\ cnt' = cnt + 1
    /\ IF cnt + 1 = Len(Topics) THEN subscribed' = TRUE /\ cpc' = "announce"
                                ELSE UNCHANGED <<subscribed, cpc>>
    /\ UNCHANGED <<sock, client, announced, rxVars, netVars, connected, sendVars, recvVars>>

\* subscribe_all returns -cnt, an error only when it is negative.
SubscribeAllFails ==
    IF cnt > 0
    THEN destroy_client
    ELSE /\ client' = "down"
         /\ subscribed' = TRUE
         /\ cpc' = "announce"
         /\ UNCHANGED <<sock, handlers, announced, alive, inbox, connected>>

\* One round that fails.  MQTT::Client::subscribe clears isconnected, so that
\* the rounds that follow fail too.
SubscribeFails ==
    /\ cpc = "subscribe"
    /\ attempt' = attempt + 1
    /\ IF attempt + 1 < Retry
       THEN /\ client' = "down"
            /\ UNCHANGED <<cpc, sock, handlers, announced, alive, inbox, connected, subscribed>>
       ELSE SubscribeAllFails
    /\ UNCHANGED <<cnt, rxVars, budget, sendVars, recvVars>>

\* While connect and subscribe wait for their answer, rcvd_packet_callback
\* throws away what comes: the client is not subscribed yet.
ThrowUnsubscribed ==
    /\ cpc \in {"connect", "subscribe"}
    /\ inbox # <<>>
    /\ inbox' = Tail(inbox)
    /\ UNCHANGED <<cpc, sessionVars, rxVars, alive, budget, mailVars>>

\* _client_connection_change(true): the welcome report, sent from this thread.
ReportWelcome ==
    /\ cpc = "announce"
    /\ send_message("connection")
    /\ cpc' = "announced"
    /\ UNCHANGED <<sessionVars, rxVars, netVars, recvVars, connected, subscribed>>

Announced ==
    /\ cpc = "announced"
    /\ spc["connection"] = "idle"
    /\ announced' = TRUE
    /\ cpc' = "top"
    /\ UNCHANGED <<sock, client, handlers, cnt, attempt, rxVars, netVars, mailVars>>

\* _send_mail.get(0) and publish, which clears isconnected when it fails.
Publish ==
    /\ cpc = "send"
    /\ sendMail # <<>>
    /\ sendMail' = Tail(sendMail)
    /\ client' \in {client, "down"}
    /\ cpc' = "held"
    /\ UNCHANGED <<sock, handlers, cnt, attempt, announced, rxVars, netVars,
                   sendPool, sendSem, spc, recvVars, connected, subscribed>>

\* _send_mail.free.
FreeSent ==
    /\ cpc = "held"
    /\ sendPool' = sendPool + 1
    /\ cpc' = "freed"
    /\ UNCHANGED <<sessionVars, rxVars, netVars, sendMail, sendSem, spc,
                   recvVars, connected, subscribed>>

\* Variant: the permit of a message that was not published is not released.
ReleaseSentOnlyUp ==
    /\ cpc = "freed"
    /\ IF client = "up" THEN Release ELSE UNCHANGED sendVars
    /\ cpc' = "send"
    /\ UNCHANGED <<sessionVars, rxVars, netVars, recvVars, connected, subscribed>>

\* _send_sem.release(), and _send_mail.get(0) again.
ReleaseSent ==
    /\ cpc = "freed"
    /\ Release
    /\ cpc' = "send"
    /\ UNCHANGED <<sessionVars, rxVars, netVars, recvVars, connected, subscribed>>

\* Variant: the client yields without looking into the queue.
YieldAnyway ==
    /\ cpc = "send"
    /\ cpc' = "top"
    /\ UNCHANGED <<sessionVars, rxVars, netVars, mailVars>>

\* The queue is empty: yield. keepalive fails, or cycle finds nothing, or it
\* reads a message for deliverMessage, whether publish has just failed or not.
Yield ==
    /\ cpc = "send"
    /\ sendMail = <<>>
    /\ \/ client' = "down" /\ cpc' = "top" /\ UNCHANGED <<rxVars, inbox>>
       \/ cpc' = "top" /\ UNCHANGED <<client, rxVars, inbox>>
       \/ /\ inbox # <<>>
          /\ rx' = Head(inbox)
          /\ inbox' = Tail(inbox)
          /\ cpc' = "deliver"
          /\ UNCHANGED <<client, handler>>
    /\ UNCHANGED <<sock, handlers, cnt, attempt, announced, alive, budget, mailVars>>

\* deliverMessage: rcvd_packet_callback for every handler of the topic, which
\* stores the message unless the client is unsubscribed or the mail is full.
Deliver ==
    /\ cpc = "deliver"
    /\ IF handler > Len(handlers)
       THEN cpc' = "top" /\ rx' = "none" /\ handler' = 1 /\ UNCHANGED <<recvMail, recvPool>>
       ELSE /\ handler' = handler + 1
            /\ UNCHANGED rx
            /\ IF handlers[handler] = TopicOf(rx) /\ is_connected /\ recvPool > 0
               THEN /\ recvMail' = Append(recvMail, rx)
                    /\ recvPool' = recvPool - 1
                    /\ cpc' = "signal"
               ELSE UNCHANGED <<recvMail, recvPool, cpc>>
    /\ UNCHANGED <<sessionVars, netVars, sendVars, signal, connected, subscribed>>

\* _client_msg_rcvd.
Signal ==
    /\ cpc = "signal"
    /\ signal' = TRUE
    /\ cpc' = "deliver"
    /\ UNCHANGED <<sessionVars, rxVars, netVars, sendVars, recvMail, recvPool,
                   connected, subscribed>>

ConnectionStep ==
    \/ ConnectSocket \/ CheckClient \/ ConnectClient
    \/ SubscribeOk \/ SubscribeFails \/ ThrowUnsubscribed
    \/ ReportWelcome \/ Announced
    \/ Publish \/ FreeSent \/ ReleaseSent \/ Yield
    \/ Deliver \/ Signal
    \/ SendStep("connection", "welcome") /\ UNCHANGED clientVars

ClientTypeOK ==
    /\ cpc \in {"top", "connect", "subscribe", "announce", "announced", "send", "held",
                "freed", "deliver", "signal"}
    /\ sock \in {"null", "up"}
    /\ client \in {"null", "down", "up"}
    /\ handlers \in Seq({"d_in", "command_in"})
    /\ Len(handlers) <= MaxHandlers
    /\ cnt \in 0 .. Len(Topics)
    /\ attempt \in 0 .. Retry
    /\ rx \in Incoming \cup {"none"}
    /\ handler \in 1 .. MaxHandlers + 1
    /\ announced \in BOOLEAN
    /\ alive \in BOOLEAN
    /\ inbox \in Seq(Incoming)
    /\ budget \in 0 .. Budget
=============================================================================
