------------------------------ MODULE MqttMails ------------------------------
(***************************************************************************)
(* What the threads of the application share with the connection thread of *)
(* ByzanceClient: the two mailboxes, the semaphore that counts the free    *)
(* blocks of the outgoing one, the signal of the byzance thread and the    *)
(* connection flags.  send_message runs in the thread of its caller.       *)
(***************************************************************************)
EXTENDS Naturals, Sequences, FiniteSets

CONSTANTS
    Mids,           \* the message ids Homer uses ("mid" of the JSON)
    Apps,           \* the threads of the user application that send values
    SendSize,       \* BYZANCE_CLIENT_SEND_MAIL_SIZE
    RecvSize        \* BYZANCE_CLIENT_RECV_MAIL_SIZE

ASSUME MailAssumption ==
    /\ SendSize \in Nat \ {0}
    /\ RecvSize \in Nat \ {0}
    /\ IsFiniteSet(Apps)
    /\ Apps \cap {"byzance", "connection"} = {}

VARIABLES
    sendMail,       \* _send_mail: the messages in the queue
    sendPool,       \* _send_mail: free blocks of its memory pool
    sendSem,        \* _send_sem
    spc,            \* where a thread is in send_message
    recvMail,       \* _recv_mail: the messages in the queue
    recvPool,       \* _recv_mail: free blocks
    signal,         \* THREAD_SIGNAL_NEW_MSG is set
    connected,      \* _client_connected
    subscribed      \* _client_subscribed

sendVars == <<sendMail, sendPool, sendSem, spc>>
recvVars == <<recvMail, recvPool, signal>>
mailVars == <<sendVars, recvVars, connected, subscribed>>

\* The byzance thread answers Homer, the connection thread reports that it is
\* ready, the user application sends values of its outputs.
Senders == Apps \cup {"byzance", "connection"}

\* Incoming messages: a value for an input ("d_in"), a JSON with a mid, and
\* one that fails its validation.  Outgoing: values, answers, error answers
\* and the welcome report.
Incoming == Mids \cup {"d_in", "bad"}
Outgoing == Mids \cup Apps \cup {"error", "welcome"}

is_connected == connected /\ subscribed

InitMails ==
    /\ sendMail = <<>>
    /\ sendPool = SendSize
    /\ sendSem = SendSize
    /\ spc = [s \in Senders |-> "idle"]
    /\ recvMail = <<>>
    /\ recvPool = RecvSize
    /\ signal = FALSE
    /\ connected = FALSE
    /\ subscribed = FALSE

-----------------------------------------------------------------------------
(* send_message.                                                           *)

\* The check of the flags and the start of _send_sem.wait(timeout), which
\* takes a permit at once or blocks.
send_message(s) ==
    /\ spc[s] = "idle"
    /\ IF is_connected
       THEN /\ spc' = [spc EXCEPT ![s] = IF sendSem > 0 THEN "granted" ELSE "blocked"]
            /\ sendSem' = IF sendSem > 0 THEN sendSem - 1 ELSE sendSem
       ELSE UNCHANGED <<spc, sendSem>>                      \* return -1
    /\ UNCHANGED <<sendMail, sendPool>>

\* Variant: the wait of the connection thread has no timeout.
SemExpiresOthers(s) ==
    /\ s # "connection"
    /\ spc[s] = "blocked"
    /\ spc' = [spc EXCEPT ![s] = "expired"]
    /\ UNCHANGED <<sendMail, sendPool, sendSem>>

\* The timeout of the wait expires; its result is not looked at.
SemExpires(s) ==
    /\ spc[s] = "blocked"
    /\ spc' = [spc EXCEPT ![s] = "expired"]
    /\ UNCHANGED <<sendMail, sendPool, sendSem>>

\* _send_mail.alloc(), with a permit or without.
Alloc(s) ==
    /\ spc[s] \in {"granted", "expired"}
    /\ IF sendPool > 0
       THEN /\ sendPool' = sendPool - 1
            /\ spc' = [spc EXCEPT ![s] = "filling"]
       ELSE /\ spc' = [spc EXCEPT ![s] = "idle"]                 \* return -2
            /\ UNCHANGED sendPool
    /\ UNCHANGED <<sendMail, sendSem>>

\* The copy of the message and _send_mail.put.
Put(s, m) ==
    /\ spc[s] = "filling"
    /\ sendMail' = Append(sendMail, m)
    /\ spc' = [spc EXCEPT ![s] = "idle"]
    /\ UNCHANGED <<sendPool, sendSem>>

\* Thread s in send_message with message m.
SendStep(s, m) ==
    /\ SemExpires(s) \/ Alloc(s) \/ Put(s, m)
    /\ UNCHANGED <<recvVars, connected, subscribed>>

\* _send_sem.release(): the permit goes to a thread that waits for it.
Release ==
    /\ IF \E s \in Senders : spc[s] = "blocked"
       THEN /\ \E s \in Senders : spc[s] = "blocked" /\ spc' = [spc EXCEPT ![s] = "granted"]
            /\ UNCHANGED sendSem
       ELSE /\ sendSem' = sendSem + 1
            /\ UNCHANGED spc
    /\ UNCHANGED <<sendMail, sendPool>>

\* digital_output_set_value and its siblings in a thread of the user.
OutputSetValue(a) ==
    /\ send_message(a)
    /\ UNCHANGED <<recvVars, connected, subscribed>>

AppStep(a) == OutputSetValue(a) \/ SendStep(a, a)

MailTypeOK ==
    /\ sendMail \in Seq(Outgoing)
    /\ sendPool \in 0 .. SendSize
    /\ sendSem \in Nat
    /\ spc \in [Senders -> {"idle", "blocked", "granted", "expired", "filling"}]
    /\ recvMail \in Seq(Incoming)
    /\ recvPool \in 0 .. RecvSize
    /\ signal \in BOOLEAN
    /\ connected \in BOOLEAN
    /\ subscribed \in BOOLEAN
=============================================================================
