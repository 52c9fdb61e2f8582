----------------------------- MODULE NatsServer -----------------------------
(***************************************************************************)
(* The NATS server between the collectors, as natsexporter and             *)
(* natsreceiver use it: a stream that stores what is published, a durable  *)
(* consumer that redelivers a message until it is acknowledged, and a core *)
(* subscription that forwards a message to whoever is connected.           *)
(***************************************************************************)
EXTENDS Naturals, Sequences, FiniteSets

CONSTANTS
    Items,       \* log records, spans or data points
    Malformed,   \* payloads that no unmarshaler accepts
    Subjects,    \* subjects of the stream
    Modes,       \* {"core", "jetstream"}: is a stream configured?
    MaxFaults    \* bound: failures of all kinds together

ASSUME ServerAssumption ==
    /\ Items \cap Malformed = {}
    /\ Modes \subseteq {"core", "jetstream"}
    /\ MaxFaults \in Nat

VARIABLES
    receiverMode,  \* does the receiver bind a durable consumer?
    stream,        \* the messages published so far
    pending,       \* indices of those the durable consumer has no ack for
    inflight,      \* those of pending whose AckWait timer runs
    connected,     \* is the receiver's connection open?
    buffer,        \* indices sent to the receiver and not yet handled
    unheard,       \* indices published while no core subscription was there
    faults         \* failures so far

serverVars == <<receiverMode, stream, pending, inflight, connected, buffer, unheard>>

Message == [payload : Items \cup Malformed, subject : Subjects]

ServerTypeOK ==
    /\ receiverMode \in Modes
    /\ stream \in Seq(Message)
    /\ pending \subseteq DOMAIN stream
    /\ inflight \subseteq DOMAIN stream
    /\ connected \in BOOLEAN
    /\ buffer \in Seq(DOMAIN stream)
    /\ unheard \subseteq DOMAIN stream
    /\ faults \in 0..MaxFaults

ServerInit ==
    /\ receiverMode \in Modes
    /\ stream = <<>>
    /\ pending = {}
    /\ inflight = {}
    /\ connected = FALSE
    /\ buffer = <<>>
    /\ unheard = {}
    /\ faults = 0

Fault == faults < MaxFaults /\ faults' = faults + 1

\* A message reaches the server.
Store(msg) ==
    LET i == Len(stream) + 1
    IN  /\ stream' = Append(stream, msg)
        /\ pending' = IF receiverMode = "jetstream" THEN pending \cup {i} ELSE pending
        /\ buffer' = IF receiverMode = "core" /\ connected
                     THEN Append(buffer, i) ELSE buffer
        /\ unheard' = IF receiverMode = "core" /\ ~connected
                      THEN unheard \cup {i} ELSE unheard
        /\ UNCHANGED <<receiverMode, inflight, connected>>

\* The durable consumer sends a message that waits for nothing else.
SendMessage(i) ==
    /\ receiverMode = "jetstream"
    /\ connected
    /\ i \in pending \ inflight
    /\ inflight' = inflight \cup {i}
    /\ buffer' = Append(buffer, i)
    /\ UNCHANGED <<receiverMode, stream, pending, connected, unheard>>

\* An ack ends a message for the durable consumer, a nak gives it back.
Acknowledge(i) ==
    /\ pending' = pending \ {i}
    /\ inflight' = inflight \ {i}
    /\ UNCHANGED <<receiverMode, stream, connected, buffer, unheard>>

GiveBack(i) ==
    /\ inflight' = inflight \ {i}
    /\ UNCHANGED <<receiverMode, stream, pending, connected, buffer, unheard>>

\* The connection is gone, and what the client had buffered with it.
Disconnect ==
    /\ connected' = FALSE
    /\ buffer' = <<>>
    /\ UNCHANGED <<receiverMode, stream, pending, inflight, unheard>>
=============================================================================
