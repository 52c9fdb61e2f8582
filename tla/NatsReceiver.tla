---------------------------- MODULE NatsReceiver ----------------------------
(***************************************************************************)
(* The subscribing end: natsreceiver in the sink collector.  The NATS      *)
(* client runs one handler call at a time; the next consumer is the sink's *)
(* pipeline, which accepts an item into its batch in memory and inserts it *)
(* into ClickHouse later, so that its answer to the receiver says nothing  *)
(* about the insert.                                                       *)
(***************************************************************************)
EXTENDS NatsServer

VARIABLES
    handling,   \* the handler call: index of its message and what it does next
    accepted,   \* indices of messages that the next consumer has accepted
    copies,     \* copies[x]: how often it has accepted item x
    memory,     \* accepted items not inserted yet
    table,      \* items in ClickHouse
    dropped     \* items that the sink has lost

receiverVars == <<handling, accepted, copies, memory, table, dropped>>

NoCall == [id |-> 0, step |-> "none"]

payloadOf(i) == stream[i].payload

ReceiverTypeOK ==
    /\ handling \in {NoCall} \cup [id : DOMAIN stream, step : {"deliver", "ack", "nak"}]
    /\ accepted \subseteq DOMAIN stream
    /\ copies \in [Items -> Nat]
    /\ memory \subseteq Items
    /\ table \subseteq Items
    /\ dropped \subseteq Items

ReceiverInit ==
    /\ handling = NoCall
    /\ accepted = {}
    /\ copies = [x \in Items |-> 0]
    /\ memory = {}
    /\ table = {}
    /\ dropped = {}
-----------------------------------------------------------------------------
\* Start connects and subscribes (startCoreNATS) or binds the durable consumer
\* (startJetStream); the process that ran before has ended.
Start ==
    /\ ~connected
    /\ handling = NoCall
    /\ memory = {}
    /\ connected' = TRUE
    /\ UNCHANGED <<receiverMode, stream, pending, inflight, buffer, unheard, faults,
                   receiverVars>>

\* The client calls handleJetStream or handleCoreNATS with its next message.
CallHandler ==
    /\ connected
    /\ handling = NoCall
    /\ buffer # <<>>
    /\ handling' = [id |-> Head(buffer), step |-> "deliver"]
    /\ buffer' = Tail(buffer)
    /\ UNCHANGED <<receiverMode, stream, pending, inflight, connected, unheard, faults,
                   accepted, copies, memory, table, dropped>>

\* What the handler does after deliver: core NATS has nothing to answer.
AnswerWith(reply) ==
    handling' = IF receiverMode = "jetstream" THEN [handling EXCEPT !.step = reply] ELSE NoCall

\* Mutant: a payload that does not unmarshal is refused like any other.
DeliverMalformedNaks ==
    /\ handling.step = "deliver"
    /\ payloadOf(handling.id) \in Malformed
    /\ AnswerWith("nak")
    /\ UNCHANGED <<serverVars, faults, accepted, copies, memory, table, dropped>>

\* deliver: the payload does not unmarshal, and the message is acked away.
DeliverMalformed ==
    /\ handling.step = "deliver"
    /\ payloadOf(handling.id) \in Malformed
    /\ AnswerWith("ack")
    /\ UNCHANGED <<serverVars, faults, accepted, copies, memory, table, dropped>>

\* deliver: the next consumer accepts the item.
DeliverAccepted ==
    LET x == payloadOf(handling.id)
    IN  /\ handling.step = "deliver"
        /\ x \in Items
        /\ AnswerWith("ack")
        /\ accepted' = accepted \cup {handling.id}
        /\ copies' = [copies EXCEPT ![x] = @ + 1]
        /\ memory' = memory \cup {x}
        /\ UNCHANGED <<serverVars, faults, table, dropped>>

\* Mutant: the answer does not depend on the next consumer's error.
DeliverRefusedAcks ==
    /\ handling.step = "deliver"
    /\ payloadOf(handling.id) \in Items
    /\ Fault
    /\ AnswerWith("ack")
    /\ UNCHANGED <<serverVars, accepted, copies, memory, table, dropped>>

\* deliver: the next consumer refuses the item (memory_limiter does).
DeliverRefused ==
    /\ handling.step = "deliver"
    /\ payloadOf(handling.id) \in Items
    /\ Fault
    /\ AnswerWith("nak")
    /\ dropped' = IF receiverMode = "core" THEN dropped \cup {payloadOf(handling.id)} ELSE dropped
    /\ UNCHANGED <<serverVars, accepted, copies, memory, table>>

\* Mutant: the handler returns without an answer.
AnswerForgotten ==
    /\ handling.step \in {"ack", "nak"}
    /\ handling' = NoCall
    /\ UNCHANGED <<serverVars, faults, accepted, copies, memory, table, dropped>>

\* The handler's Ack or NakWithDelay reaches the server, and it returns.
Answer ==
    /\ \/ handling.step = "ack" /\ Acknowledge(handling.id)
       \/ handling.step = "nak" /\ GiveBack(handling.id)
    /\ handling' = NoCall
    /\ UNCHANGED <<faults, accepted, copies, memory, table, dropped>>

\* It does not: Ack and NakWithDelay wait for no confirmation, and the handler
\* only logs an error of theirs.
AnswerLost ==
    /\ handling.step \in {"ack", "nak"}
    /\ Fault
    /\ handling' = NoCall
    /\ UNCHANGED <<serverVars, accepted, copies, memory, table, dropped>>

\* Does the receiver still hold message i?
Holds(i) == handling.id = i \/ \E k \in DOMAIN buffer : buffer[k] = i

\* AckWait runs out.  While the receiver still holds the message this is a
\* failure: the handler was too slow.
AckWait(i) ==
    /\ i \in inflight
    /\ IF Holds(i) THEN Fault ELSE UNCHANGED faults
    /\ GiveBack(i)
    /\ UNCHANGED receiverVars

\* What a core subscription loses with its buffer and its handler call.
Unanswered ==
    IF receiverMode = "core"
    THEN {payloadOf(buffer[k]) : k \in DOMAIN buffer} \cap Items ELSE {}

\* Shutdown stops the subscription and drains the connection; the handler call
\* in progress may still answer, and the sink inserts what it has.
Shutdown ==
    /\ connected
    /\ Fault
    /\ Disconnect
    /\ dropped' = dropped \cup Unanswered
    /\ UNCHANGED <<handling, accepted, copies, memory, table>>

\* The sink is killed, also while it shuts down, and what it has in memory is
\* lost.
CrashReceiver ==
    /\ Fault
    /\ Disconnect
    /\ handling' = NoCall
    /\ memory' = {}
    /\ dropped' = dropped \cup memory \cup Unanswered
                    \cup (IF receiverMode = "core" /\ handling # NoCall
                          THEN {payloadOf(handling.id)} \cap Items ELSE {})
    /\ UNCHANGED <<accepted, copies, table>>

\* The sink's exporter inserts its batch.
Insert ==
    /\ memory # {}
    /\ table' = table \cup memory
    /\ memory' = {}
    /\ UNCHANGED <<serverVars, faults, handling, accepted, copies, dropped>>

\* Its inserts fail until retry_on_failure gives up.
InsertGivesUp ==
    /\ memory # {}
    /\ Fault
    /\ dropped' = dropped \cup memory
    /\ memory' = {}
    /\ UNCHANGED <<serverVars, handling, accepted, copies, table>>

ReceiverStep ==
    \/ Start
    \/ \E i \in pending : SendMessage(i) /\ UNCHANGED <<faults, receiverVars>>
    \/ CallHandler
    \/ DeliverMalformed
    \/ DeliverAccepted
    \/ Answer
    \/ \E i \in inflight : AckWait(i)
    \/ Insert

ReceiverNext ==
    \/ ReceiverStep
    \/ DeliverRefused
    \/ AnswerLost
    \/ Shutdown
    \/ CrashReceiver
    \/ InsertGivesUp
=============================================================================
