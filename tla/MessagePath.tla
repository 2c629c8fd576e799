----------------------------- MODULE MessagePath -----------------------------
(***************************************************************************)
(* The path of a message between Homer and the device: the connection      *)
(* thread, the byzance thread and the threads of the user application run  *)
(* concurrently on the two mailboxes, over a connection that comes and     *)
(* goes.                                                                   *)
(***************************************************************************)
EXTENDS ByzanceClient, ByzanceWorker

vars == <<mailVars, clientVars, workerVars>>

Init == InitMails /\ InitClient /\ InitWorker

Network == ConnectionLost \/ \E p \in Incoming : HomerPublishes(p)

Next ==
    \/ ConnectionStep /\ UNCHANGED workerVars
    \/ ByzanceStep /\ UNCHANGED clientVars
    \/ \E a \in Apps : AppStep(a) /\ UNCHANGED <<clientVars, workerVars>>
    \/ Network /\ UNCHANGED workerVars

Spec == Init /\ [][Next]_vars

\* The scheduler runs every thread that is ready, and a wait with a timeout
\* ends. Nothing is assumed of the network, the broker or the application.
Fairness ==
    /\ WF_vars(ConnectionStep /\ UNCHANGED workerVars)
    /\ WF_vars(ByzanceStep /\ UNCHANGED clientVars)
    /\ \A a \in Apps : WF_vars(SendStep(a, a) /\ UNCHANGED <<clientVars, workerVars>>)

FairSpec == Spec /\ Fairness

-----------------------------------------------------------------------------
(* Properties.                                                             *)

\* The mailboxes, the connection thread and the byzance thread.
TypeOK == MailTypeOK /\ ClientTypeOK /\ WorkerTypeOK

In(q) == {s \in Senders : spc[s] = q}

\* No block of a mailbox is lost, whichever way send_message, the connection
\* thread and the byzance thread leave it.
NoBlockLeaks ==
    /\ sendPool + Len(sendMail) + Cardinality(In("filling")) + (IF cpc = "held" THEN 1 ELSE 0)
           = SendSize
    /\ recvPool + Len(recvMail) + (IF bpc \in {"process", "answer", "free"} THEN 1 ELSE 0)
           = RecvSize

\* No permit of _send_sem is lost, although the wait may time out, alloc may
\* fail and a block is freed before its permit is released: every free block
\* has a permit, one on its way to a sender or one about to be released.
NoPermitLost ==
    sendPool <= sendSem + Cardinality(In("granted")) + (IF cpc = "freed" THEN 1 ELSE 0)

\* The byzance thread never sleeps on a message: the signal is set, or about
\* to be set, or the thread has still to look into the mail.
NoLostWakeup == recvMail # <<>> => signal \/ bpc \notin {"wait", "listen"} \/ cpc = "signal"

\* The MQTT client, which keeps a reference to its socket, never outlives it.
ClientHasSocket == client # "null" => sock = "up"

\* A client that is up and says subscribed has a handler for every topic.
SubscribedWhileUp ==
    is_connected /\ client = "up" => \A k \in 1 .. Len(Topics) : Subscribed(Topics[k])

\* A command is not carried out again while its mid is one of the last
\* IdCapacity that were, however often Homer or a second handler repeats it.
NoRepeat ==
    \A j, k \in 1 .. Len(done) : j < k /\ k - j <= IdCapacity => done[j] # done[k]

\* send_message returns, also in the connection thread, which alone empties
\* the queue it may have to wait for.
SendReturns == \A s \in Senders : spc[s] # "idle" ~> spc[s] = "idle"

\* A queued message is handed to publish unless the client goes down.
QueuedGoesOut == sendMail # <<>> ~> (cpc = "held" \/ client # "up")

\* A received message is processed unless the connection goes down.
ReceivedIsProcessed == recvMail # <<>> ~> (bpc = "process" \/ ~ is_connected)
=============================================================================
