------------------------- MODULE TelemetryPipeline -------------------------
(***************************************************************************)
(* Exporter, server and receiver together: the path of an item from the    *)
(* batch that arrives at the publishing collector to the ClickHouse table. *)
(***************************************************************************)
EXTENDS NatsExporter, NatsReceiver

vars == <<serverVars, faults, exporterVars, receiverVars>>

TypeOK == ServerTypeOK /\ ExporterTypeOK /\ ReceiverTypeOK

Init == ServerInit /\ ExporterInit /\ ReceiverInit

Next ==
    \/ ExporterNext /\ UNCHANGED receiverVars
    \/ ReceiverNext /\ UNCHANGED exporterVars

Spec == Init /\ [][Next]_vars

(***************************************************************************)
(* Every goroutine that can go on does, a sink that stopped is started     *)
(* again, and the server redelivers.  Failures are bounded by MaxFaults:   *)
(* they stop in the end.                                                   *)
(***************************************************************************)
Fairness ==
    /\ WF_vars(HandOn /\ UNCHANGED receiverVars)
    /\ \A w \in Workers : WF_vars((TakeBatch(w) \/ Publish(w)) /\ UNCHANGED receiverVars)
    /\ WF_vars(Start /\ UNCHANGED exporterVars)
    /\ WF_vars(CallHandler /\ UNCHANGED exporterVars)
    /\ WF_vars((DeliverMalformed \/ DeliverAccepted \/ Answer) /\ UNCHANGED exporterVars)
    /\ WF_vars(Insert /\ UNCHANGED exporterVars)
    /\ WF_vars(/\ \E i \in pending : SendMessage(i)
               /\ UNCHANGED <<faults, receiverVars, exporterVars>>)
    /\ WF_vars((\E i \in inflight : ~Holds(i) /\ AckWait(i)) /\ UNCHANGED exporterVars)

FairSpec == Spec /\ Fairness
-----------------------------------------------------------------------------
\* The receiver with its durable consumer keeps the promise of AtLeastOnce.
Queue == INSTANCE AtLeastOnce WITH
    waiting <- pending,
    got <- IF receiverMode = "jetstream" THEN accepted ELSE {},
    unfit <- IF receiverMode = "jetstream"
             THEN {i \in DOMAIN stream : payloadOf(i) \in Malformed} ELSE {}

\* handleJetStream acks a message only after the next consumer took it or when
\* it never will, whatever is lost, late, refused or killed in between.
ReceiverIsAtLeastOnce == Queue!Spec

\* Where an item is: with the exporter, unacknowledged in the stream, in the
\* hands of a core subscription or published while there was none, or in the
\* sink.
Accounted(x) ==
    \/ x \in itemsIn(ahead) \cup itemsIn(queue)
    \/ \E w \in Workers : sending[w] # NoBatch /\ x \in ToSet(itemsOf(sending[w]))
    \/ \E i \in pending : payloadOf(i) = x
    \/ receiverMode = "core" /\ \E i \in DOMAIN stream :
          payloadOf(i) = x /\ (i \in unheard \/ Holds(i))
    \/ x \in memory \cup table
    \/ x \in lost \cup dropped

\* No item of a batch disappears on its way without one of the failures that
\* the code accepts: a full queue, an exporter that gives up, a killed process,
\* a core publish that nobody hears or that breaks, a core handler whose item is
\* refused, a sink that gives up.
NothingVanishes == \A x \in given : Accounted(x)

\* While nothing fails no item is accepted twice.
DuplicatesNeedFaults == faults = 0 => \A x \in Items : copies[x] <= 1

\* The durable consumer drains once no batch arrives any more: a malformed
\* message is not redelivered for ever and a well-formed one is accepted.
PendingDrains == []<>(pending = {})

\* Then every item has reached the table or was lost to a failure.
ItemsArrive ==
    []<>(receiverMode = "jetstream" => given \subseteq table \cup lost \cup dropped)

\* An acknowledged item is in ClickHouse or on its way there in the sink.
AckedIsInserted ==
    receiverMode = "jetstream" =>
        \A i \in DOMAIN stream \ pending :
            payloadOf(i) \in Items => payloadOf(i) \in memory \cup table

\* The subject of a message is the one of the resource its item belongs to.
RoutedByItsResource ==
    \A i \in DOMAIN stream : payloadOf(i) \in Items =>
        \E ld \in Batches : \E k \in DOMAIN ld :
            /\ payloadOf(i) \in ToSet(FlattenSeq(ld[k].groups))
            /\ stream[i].subject = subjectFor(<<ld[k]>>)
=============================================================================
