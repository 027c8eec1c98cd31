------------------------------ MODULE Bridges ------------------------------
(***************************************************************************)
(* The programs that take messages from a RabbitMQ queue and put them      *)
(* somewhere else: the six AMQP to FTP bridges and the InfluxDB connector. *)
(* They are variants of one consumer, and differ in when they begin to     *)
(* consume, in how many messages they hold, and in when a message is taken *)
(* for done with.                                                          *)
(*                                                                         *)
(* RabbitMQ, amqp-ts and the servers behind the bridges are external.  A   *)
(* delivery is a message and the session of the channel it came over; an   *)
(* acknowledgment over an earlier session does nothing.                    *)
(***************************************************************************)
EXTENDS Naturals, FiniteSets

CONSTANTS
  Messages,
  Programs,    \* which of the programs below are looked at
  MaxFaults    \* bounds the failures of servers, connections and processes

Ftp == {"client-ftp", "ftpimp", "jsftp_put", "jsftp_socket", "promise-ftp", "consume.sh"}
Influx == "rmq_consumer"

ASSUME ProgramsAssumption == Programs \subseteq Ftp \cup {Influx} /\ MaxFaults \in Nat

VARIABLES
  program,
  process,     \* "off", "idle" (it runs, and does not consume), "consuming"
  connected,   \* to the FTP server
  databaseTodo, database,   \* requests of the connector under way; its database exists
  ready,       \* messages in the queue
  unacked,     \* deliveries the broker waits for an acknowledgment of
  session,
  uploads,     \* deliveries whose upload has been started and not been answered
  whole,       \* uploads that the server has completed
  stored,      \* what the servers have
  published, failed, heard,  \* history: messages sent; whose upload was reported as failed; as done
  abandoned,   \* history: delivered, and the process ended during the upload
  early,       \* history: written after this start and before the drop of the database
  faults

server == <<connected, databaseTodo, database>>
broker == <<ready, unacked, session>>
transfer == <<uploads, whole, stored>>
history == <<published, failed, heard, abandoned, early>>
vars == <<program, process, server, broker, transfer, history, faults>>

MessagesOf(deliveries) == {d[1] : d \in deliveries}
Fault == faults < MaxFaults /\ faults' = faults + 1

-----------------------------------------------------------------------------
(* What the programs differ in                                             *)

\* queue.prefetch(1), which has no effect with noAck; amqp-consume handles one
\* message after the other.
Prefetch == IF program \in {"promise-ftp", "consume.sh"} THEN 1 ELSE Cardinality(Messages)

NoAck == program = "jsftp_socket"

\* Variant of Acknowledged: nothing is acknowledged, as by the others.
AcknowledgedNever(d) == unacked' = unacked

\* promise-ftp acknowledges what was uploaded and what was not; consume.sh ends
\* with the status of rm.  The others acknowledge nothing.
Acknowledged(d) ==
  unacked' = IF program \in {"promise-ftp", "consume.sh"} THEN unacked \ {d} ELSE unacked

\* What a start leads to.  client-ftp uses queue before it is assigned, ftpimp never
\* uses its function connected, and jsftp_socket does not look at the error.
Start ==
  /\ process = "off" /\ program # "client-ftp"
  /\ \/ program = "ftpimp" /\ process' = "idle" /\ UNCHANGED faults
     \/ program # "ftpimp" /\ process' = "consuming" /\ UNCHANGED faults
     \/ program \in {"promise-ftp", "jsftp_put"} /\ process' = "idle" /\ Fault
  /\ connected' = (process' = "consuming")
  /\ databaseTodo' = IF program = Influx THEN {"drop", "create"} ELSE {}
  /\ UNCHANGED <<program, database, broker, transfer, history>>

-----------------------------------------------------------------------------
(* The InfluxDB connector's database                                       *)

\* dropDatabase() and createDatabase() are requests of their own: the second may
\* be served first.
DropDatabase ==
  /\ "drop" \in databaseTodo
  /\ databaseTodo' = databaseTodo \ {"drop"}
  /\ database' = FALSE /\ stored' = {}
  /\ UNCHANGED <<program, process, connected, broker, uploads, whole, history, faults>>

CreateDatabase ==
  /\ "create" \in databaseTodo
  /\ databaseTodo' = databaseTodo \ {"create"}
  /\ database' = TRUE
  /\ IF "drop" \in databaseTodo THEN Fault ELSE UNCHANGED faults
  /\ UNCHANGED <<program, process, connected, broker, transfer, history>>

-----------------------------------------------------------------------------
(* Messages                                                                *)

Publish(m) ==
  /\ m \notin published
  /\ published' = published \cup {m} /\ ready' = ready \cup {m}
  /\ UNCHANGED <<program, process, server, unacked, session, transfer, failed, heard, abandoned, early, faults>>

\* Variant of Deliver: the message is acknowledged before its upload, as client-ftp
\* has it in its callback.
DeliverAcknowledged(m) ==
  /\ process = "consuming" /\ m \in ready
  /\ Cardinality({d \in unacked : d[2] = session}) < Prefetch
  /\ ready' = ready \ {m}
  /\ uploads' = uploads \cup {<<m, session>>}
  /\ UNCHANGED unacked
  /\ UNCHANGED <<program, process, server, session, whole, stored, history, faults>>

\* The consumer's callback starts the upload.
Deliver(m) ==
  /\ process = "consuming" /\ m \in ready
  /\ Cardinality({d \in unacked : d[2] = session}) < Prefetch
  /\ ready' = ready \ {m}
  /\ uploads' = uploads \cup {<<m, session>>}
  /\ unacked' = IF NoAck THEN unacked ELSE unacked \cup {<<m, session>>}
  /\ UNCHANGED <<program, process, server, session, whole, stored, history, faults>>

\* The server completes it.  What the connector writes goes to its database.
Store(d) ==
  /\ d \in uploads \ whole /\ connected
  /\ program = Influx => database
  /\ whole' = whole \cup {d} /\ stored' = stored \cup {d[1]}
  /\ early' = IF "drop" \in databaseTodo THEN early \cup {d[1]} ELSE early
  /\ UNCHANGED <<program, process, server, broker, uploads, published, failed, heard, abandoned, faults>>

UploadDone(d) ==
  /\ d \in whole
  /\ uploads' = uploads \ {d} /\ whole' = whole \ {d}
  /\ heard' = heard \cup {d[1]}
  /\ Acknowledged(d)
  /\ UNCHANGED <<program, process, server, ready, session, stored, published, failed, abandoned, early, faults>>

\* The process ends: the broker has again what was not acknowledged.  No delivery
\* is left, and sessions are counted anew.
Exit ==
  /\ process' = "off" /\ connected' = FALSE /\ databaseTodo' = {}
  /\ ready' = ready \cup MessagesOf(unacked) /\ unacked' = {} /\ session' = 0
  /\ uploads' = {} /\ whole' = {}
  /\ abandoned' = abandoned \cup MessagesOf(uploads) /\ early' = {}

\* An upload is reported as failed, because it has, or because the connection was
\* lost before the answer came.  The connector exits.
UploadFails(d) ==
  /\ d \in uploads
  /\ \/ ~connected /\ UNCHANGED faults
     \/ program = Influx /\ ~database /\ d \notin whole /\ UNCHANGED faults
     \/ Fault
  /\ failed' = failed \cup {d[1]}
  /\ IF program = Influx
       THEN Exit
       ELSE /\ uploads' = uploads \ {d} /\ whole' = whole \ {d}
            /\ Acknowledged(d)
            /\ UNCHANGED <<process, connected, databaseTodo, ready, session, abandoned, early>>
  /\ UNCHANGED <<program, database, stored, published, heard>>

-----------------------------------------------------------------------------
(* Failures                                                                *)

Crash ==
  /\ process # "off" /\ Fault
  /\ Exit
  /\ UNCHANGED <<program, database, stored, published, failed, heard>>

\* promise-ftp does not connect again: all later uploads fail.
FtpConnectionLost ==
  /\ connected /\ program = "promise-ftp" /\ Fault
  /\ connected' = FALSE
  /\ UNCHANGED <<program, process, databaseTodo, database, broker, transfer, history>>

\* amqp-ts connects again.  Uploads go on, and the broker delivers their messages
\* once more.
BrokerConnectionLost ==
  /\ process = "consuming" /\ Fault
  /\ ready' = ready \cup MessagesOf(unacked) /\ unacked' = {} /\ session' = session + 1
  /\ UNCHANGED <<program, process, server, transfer, history>>

Init ==
  /\ program \in Programs
  /\ process = "off" /\ connected = FALSE
  /\ databaseTodo = {} /\ database \in (IF program = Influx THEN BOOLEAN ELSE {FALSE})
  /\ ready = {} /\ unacked = {} /\ session = 0
  /\ uploads = {} /\ whole = {} /\ stored = {}
  /\ published = {} /\ failed = {} /\ heard = {} /\ abandoned = {} /\ early = {}
  /\ faults = 0

Deliveries == Messages \X (0..MaxFaults)
Upload(d) == Store(d) \/ UploadDone(d) \/ UploadFails(d)
Database == DropDatabase \/ CreateDatabase

Next ==
  \/ Start \/ Database
  \/ \E m \in Messages : Publish(m) \/ Deliver(m)
  \/ \E d \in uploads : Upload(d)
  \/ Crash \/ FtpConnectionLost \/ BrokerConnectionLost

Spec == Init /\ [][Next]_vars

\* The broker delivers, requests are served and uploads come to an end.  Nobody need
\* publish anything, and nothing starts a process again that has ended: the compose
\* files have a restart policy for the FTP server, and none for what consumes.
FairSpec ==
  /\ Spec
  /\ WF_vars(Database) /\ WF_vars(\E d \in uploads : Upload(d))
  /\ \A m \in Messages : SF_vars(Deliver(m))

-----------------------------------------------------------------------------
InBroker == ready \cup MessagesOf(unacked)

(* A message that the broker has forgotten is on the server, unless its    *)
(* upload was reported as failed or, without acknowledgments, it was being *)
(* uploaded by a process that has ended.  What was reported as done is     *)
(* there, or will be once more: unless the connector has written it before *)
(* its drop was served.                                                    *)
LostByFailureOnly ==
  /\ \A m \in published \ InBroker :
       m \in stored \cup failed \/ (NoAck /\ m \in abandoned \cup MessagesOf(uploads))
  /\ heard \ stored \subseteq early \cup ready \cup MessagesOf(uploads)

(* As long as the process runs that consumes them, however often servers   *)
(* and connections fail, each message the broker has is uploaded in the    *)
(* end, or its upload is reported as failed: none is waited for by a       *)
(* program that holds another one.  If the process ends, what it held and  *)
(* what is left waits for a start that need not come.                      *)
NoneForgotten ==
  \A m \in Messages :
    m \in InBroker /\ process = "consuming" ~> m \in heard \cup failed \/ process = "off"
=============================================================================
