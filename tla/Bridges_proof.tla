--------------------------- MODULE Bridges_proof ---------------------------
(***************************************************************************)
(* Proofs about Bridges.  A message leaves the broker by an acknowledgment *)
(* or, without acknowledgments, by its delivery; what is acknowledged is   *)
(* on the server or was reported as failed.  The connector acknowledges    *)
(* nothing, so that all its messages are with the broker, and come back    *)
(* with the process that can drop what they have become.                   *)
(***************************************************************************)
EXTENDS Bridges, TLAPS

Acking == program \in {"promise-ftp", "consume.sh"}

\* Nothing is with the broker, done or failed that has not been published.
KnownMessages ==
  /\ ready \cup heard \subseteq published
  /\ MessagesOf(unacked) \cup MessagesOf(uploads) \subseteq published
  /\ whole \subseteq uploads

\* Where the messages are that the broker does not have.
Accounted ==
  \A m \in published :
    \/ m \in ready \cup MessagesOf(unacked)
    \/ Acking /\ m \in stored \cup failed
    \/ NoAck /\ m \in stored \cup failed \cup abandoned \cup MessagesOf(uploads)

\* The bridges' servers lose nothing; only the connector drops what it has.
Servers ==
  program # Influx =>
    /\ heard \subseteq stored /\ MessagesOf(whole) \subseteq stored
    /\ databaseTodo = {}

\* The connector: what has been heard of before the drop is served was written
\* before, or comes again.
Connector ==
  program = Influx =>
    /\ process = "off" =>
         published \subseteq ready /\ uploads = {} /\ databaseTodo = {}
    /\ MessagesOf(whole) \subseteq stored \cup early
    /\ heard \subseteq stored \cup early \cup ready \cup MessagesOf(uploads)
    /\ "drop" \in databaseTodo =>
         /\ MessagesOf(whole) \subseteq early
         /\ heard \subseteq early \cup ready \cup MessagesOf(uploads)

BridgesInv == KnownMessages /\ Accounted /\ Servers /\ Connector

-----------------------------------------------------------------------------
LEMMA MessagesOfUnion == \A A, B : MessagesOf(A \cup B) = MessagesOf(A) \cup MessagesOf(B)
BY DEF MessagesOf

LEMMA MessagesOfNone == MessagesOf({}) = {}
BY DEF MessagesOf

LEMMA MessagesOfOne == \A m, n : MessagesOf({<<m, n>>}) = {m}
BY DEF MessagesOf

LEMMA MessagesOfSubset == \A A, B : A \subseteq B => MessagesOf(A) \subseteq MessagesOf(B)
BY DEF MessagesOf

LEMMA MessagesOfMember == \A A : \A d \in A : d[1] \in MessagesOf(A)
BY DEF MessagesOf

\* Without a delivery, its message may be gone as well, no other.
LEMMA MessagesOfWithout ==
  \A A, d : /\ MessagesOf(A \ {d}) \subseteq MessagesOf(A)
            /\ MessagesOf(A) \subseteq MessagesOf(A \ {d}) \cup {d[1]}
BY DEF MessagesOf

\* The programs that acknowledge are none of the others.
LEMMA ProgramKinds ==
  /\ Acking => ~NoAck /\ program # Influx
  /\ NoAck => program # Influx
BY DEF Acking, NoAck, Influx

LEMMA InitBridges == Init => BridgesInv
<1> SUFFICES ASSUME Init PROVE BridgesInv
  OBVIOUS
<1>1. MessagesOf({}) = {}
  BY MessagesOfNone
<1>2. KnownMessages
  BY <1>1 DEF Init, KnownMessages
<1>3. Accounted
  BY DEF Init, Accounted
<1>4. Servers
  BY <1>1 DEF Init, Servers
<1>5. Connector
  BY <1>1 DEF Init, Connector
<1>6. QED BY <1>2, <1>3, <1>4, <1>5 DEF BridgesInv

\* What the process has in hand comes back to the broker or is counted as abandoned.
LEMMA ExitInv ==
  ASSUME BridgesInv, Exit,
         UNCHANGED <<program, published, heard, stored>>, failed \subseteq failed'
  PROVE  BridgesInv'
<1>1. /\ process' = "off" /\ databaseTodo' = {} /\ unacked' = {} /\ uploads' = {} /\ whole' = {}
      /\ ready' = ready \cup MessagesOf(unacked) /\ early' = {}
      /\ abandoned' = abandoned \cup MessagesOf(uploads)
      /\ program' = program /\ published' = published /\ heard' = heard /\ stored' = stored
  BY DEF Exit
<1>2. MessagesOf({}) = {}
  BY MessagesOfNone
<1>3. KnownMessages'
  BY <1>1, <1>2 DEF BridgesInv, KnownMessages
<1>4. Accounted'
  <2>1. SUFFICES ASSUME NEW m \in published
                 PROVE  \/ m \in ready'
                        \/ Acking /\ m \in stored \cup failed'
                        \/ NoAck /\ m \in stored \cup failed' \cup abandoned'
    BY <1>1 DEF Accounted, Acking, NoAck
  <2>2. QED BY <1>1 DEF BridgesInv, Accounted
<1>5. Servers'
  BY <1>1, <1>2 DEF BridgesInv, Servers
<1>6. Connector'
  <2>1. SUFFICES ASSUME program = Influx
                 PROVE  published \subseteq ready' /\ heard \subseteq ready'
    BY <1>1, <1>2 DEF Connector
  <2>2. published \subseteq ready'
    BY <1>1, <2>1, ProgramKinds DEF BridgesInv, Accounted
  <2>3. QED BY <2>2 DEF BridgesInv, KnownMessages
<1>7. QED BY <1>3, <1>4, <1>5, <1>6 DEF BridgesInv

\* The end of an upload: its delivery goes, and is acknowledged if the program does so.
LEMMA EndInv ==
  ASSUME BridgesInv, NEW d \in uploads, Acknowledged(d),
         uploads' = uploads \ {d}, whole' = whole \ {d},
         UNCHANGED <<program, process, databaseTodo, ready, stored, published, abandoned, early>>,
         failed \subseteq failed', heard \subseteq heard',
         \/ d \in whole /\ heard' = heard \cup {d[1]}
         \/ d[1] \in failed' /\ heard' = heard /\ program # Influx
  PROVE  BridgesInv'
<1>1. /\ MessagesOf(uploads') \subseteq MessagesOf(uploads)
      /\ MessagesOf(uploads) \subseteq MessagesOf(uploads') \cup {d[1]}
      /\ MessagesOf(whole') \subseteq MessagesOf(whole)
      /\ MessagesOf(unacked') \subseteq MessagesOf(unacked)
      /\ MessagesOf(unacked) \subseteq MessagesOf(unacked') \cup {d[1]}
      /\ ~Acking => unacked' = unacked
  <2>1. unacked' = IF Acking THEN unacked \ {d} ELSE unacked
    BY DEF Acknowledged, Acking
  <2>2. QED BY <2>1, MessagesOfWithout
<1>2. d[1] \in MessagesOf(uploads) /\ (d \in whole => d[1] \in MessagesOf(whole))
  BY MessagesOfMember
<1>3. program' = program /\ (Acking' <=> Acking) /\ (NoAck' <=> NoAck)
  BY DEF Acking, NoAck
<1>4. KnownMessages'
  BY <1>1, <1>2 DEF BridgesInv, KnownMessages
<1>5. program # Influx => d[1] \in stored \cup failed'
  BY <1>2 DEF BridgesInv, Servers
<1>6. Accounted'
  <2>1. SUFFICES ASSUME NEW m \in published
                 PROVE  \/ m \in ready \cup MessagesOf(unacked')
                        \/ Acking /\ m \in stored \cup failed'
                        \/ NoAck /\ m \in stored \cup failed' \cup abandoned \cup MessagesOf(uploads')
    BY <1>3 DEF Accounted
  <2>2. CASE m = d[1] /\ (Acking \/ NoAck)
    BY <1>5, <2>2, ProgramKinds
  <2>3. CASE m # d[1] \/ (~Acking /\ ~NoAck)
    BY <1>1, <2>3 DEF BridgesInv, Accounted
  <2>4. QED BY <2>2, <2>3
<1>7. Servers'
  BY <1>1, <1>2 DEF BridgesInv, Servers
<1>8. Connector'
  <2>1. SUFFICES ASSUME program = Influx
                 PROVE  /\ process = "off" =>
                             published \subseteq ready /\ uploads' = {} /\ databaseTodo = {}
                        /\ MessagesOf(whole') \subseteq stored \cup early
                        /\ heard' \subseteq stored \cup early \cup ready \cup MessagesOf(uploads')
                        /\ "drop" \in databaseTodo =>
                             /\ MessagesOf(whole') \subseteq early
                             /\ heard' \subseteq early \cup ready \cup MessagesOf(uploads')
    BY DEF Connector
  <2>2. d[1] \in MessagesOf(whole) /\ heard' = heard \cup {d[1]}
    BY <1>2, <2>1
  <2>3. process # "off"
    BY <2>1 DEF BridgesInv, Connector
  <2>4. QED BY <1>1, <2>1, <2>2, <2>3 DEF BridgesInv, Connector
<1>9. QED BY <1>4, <1>6, <1>7, <1>8 DEF BridgesInv

LEMMA DeliverInv ==
  ASSUME BridgesInv, NEW m \in Messages, Deliver(m)
  PROVE  BridgesInv'
<1> DEFINE d == <<m, session>>
<1>1. /\ m \in ready /\ ready' = ready \ {m} /\ uploads' = uploads \cup {d}
      /\ unacked' = IF NoAck THEN unacked ELSE unacked \cup {d}
      /\ process = "consuming"
      /\ UNCHANGED <<program, process, databaseTodo, whole, stored, published, failed, heard,
                     abandoned, early>>
  BY DEF Deliver, server, history
<1>2. /\ MessagesOf(uploads') = MessagesOf(uploads) \cup {m}
      /\ MessagesOf(unacked') = IF NoAck THEN MessagesOf(unacked) ELSE MessagesOf(unacked) \cup {m}
  <2>1. MessagesOf({d}) = {m}
    BY MessagesOfOne
  <2>2. MessagesOf(uploads \cup {d}) = MessagesOf(uploads) \cup {m}
    BY <2>1, MessagesOfUnion
  <2>3. MessagesOf(unacked \cup {d}) = MessagesOf(unacked) \cup {m}
    BY <2>1, MessagesOfUnion
  <2>4. CASE NoAck
    BY <1>1, <2>2, <2>4
  <2>5. CASE ~NoAck
    BY <1>1, <2>2, <2>3, <2>5
  <2>6. QED BY <2>4, <2>5
<1>3. (Acking' <=> Acking) /\ (NoAck' <=> NoAck)
  BY <1>1 DEF Acking, NoAck
<1>4. m \in published
  BY <1>1 DEF BridgesInv, KnownMessages
<1>5. KnownMessages'
  BY <1>1, <1>2, <1>4 DEF BridgesInv, KnownMessages
<1>6. Accounted'
  BY <1>1, <1>2, <1>3 DEF BridgesInv, Accounted
<1>7. Servers'
  BY <1>1 DEF BridgesInv, Servers
<1>8. Connector'
  BY <1>1, <1>2 DEF BridgesInv, Connector
<1>9. QED BY <1>5, <1>6, <1>7, <1>8 DEF BridgesInv

LEMMA StoreInv ==
  ASSUME BridgesInv, NEW d \in uploads, Store(d)
  PROVE  BridgesInv'
<1>1. /\ whole' = whole \cup {d} /\ stored' = stored \cup {d[1]}
      /\ early' = IF "drop" \in databaseTodo THEN early \cup {d[1]} ELSE early
      /\ UNCHANGED <<program, process, databaseTodo, ready, unacked, uploads, published, failed,
                     heard, abandoned>>
  BY DEF Store, server, broker
<1>2. MessagesOf(whole') = MessagesOf(whole) \cup {d[1]}
  BY <1>1 DEF MessagesOf
<1>3. (Acking' <=> Acking) /\ (NoAck' <=> NoAck)
  BY <1>1 DEF Acking, NoAck
<1>4. KnownMessages'
  BY <1>1 DEF BridgesInv, KnownMessages
<1>5. Accounted'
  BY <1>1, <1>3 DEF BridgesInv, Accounted
<1>6. Servers'
  BY <1>1, <1>2 DEF BridgesInv, Servers
<1>7. Connector'
  BY <1>1, <1>2 DEF BridgesInv, Connector
<1>8. QED BY <1>4, <1>5, <1>6, <1>7 DEF BridgesInv

LEMMA DatabaseInv ==
  ASSUME BridgesInv, Database
  PROVE  BridgesInv'
<1>1. CASE DropDatabase
  <2>1. /\ "drop" \in databaseTodo /\ databaseTodo' = databaseTodo \ {"drop"} /\ stored' = {}
        /\ UNCHANGED <<program, process, ready, unacked, uploads, whole, published, failed,
                       heard, abandoned, early>>
    BY <1>1 DEF DropDatabase, broker, history
  <2>2. program = Influx
    BY <2>1 DEF BridgesInv, Servers
  <2>3. QED BY <2>1, <2>2, ProgramKinds
               DEF BridgesInv, KnownMessages, Accounted, Servers, Connector, Acking, NoAck
<1>2. CASE CreateDatabase
  <2>1. /\ databaseTodo' = databaseTodo \ {"create"}
        /\ UNCHANGED <<program, process, ready, unacked, uploads, whole, stored, published,
                       failed, heard, abandoned, early>>
    BY <1>2 DEF CreateDatabase, broker, transfer, history
  <2>2. "drop" \in databaseTodo' => "drop" \in databaseTodo
    BY <2>1
  <2>3. QED BY <2>1, <2>2
               DEF BridgesInv, KnownMessages, Accounted, Servers, Connector, Acking, NoAck
<1>3. QED BY <1>1, <1>2 DEF Database

LEMMA StartInv ==
  ASSUME BridgesInv, Start
  PROVE  BridgesInv'
<1>1. /\ process = "off" /\ process' # "off"
      /\ databaseTodo' = IF program = Influx THEN {"drop", "create"} ELSE {}
      /\ UNCHANGED <<program, ready, unacked, uploads, whole, stored, published, failed, heard,
                     abandoned, early>>
  BY DEF Start, broker, transfer, history
<1>2. KnownMessages' /\ Accounted' /\ Servers'
  BY <1>1 DEF BridgesInv, KnownMessages, Accounted, Servers, Acking, NoAck
<1>3. Connector'
  <2>1. SUFFICES ASSUME program = Influx
                 PROVE  MessagesOf(whole) = {} /\ heard \subseteq ready
    BY <1>1 DEF Connector
  <2>2. published \subseteq ready /\ whole = {}
    BY <1>1, <2>1 DEF BridgesInv, Connector, KnownMessages
  <2>3. QED BY <2>2, MessagesOfNone DEF BridgesInv, KnownMessages
<1>4. QED BY <1>2, <1>3 DEF BridgesInv

LEMMA PublishInv ==
  ASSUME BridgesInv, NEW m \in Messages, Publish(m)
  PROVE  BridgesInv'
<1>1. /\ published' = published \cup {m} /\ ready' = ready \cup {m}
      /\ UNCHANGED <<program, process, databaseTodo, unacked, uploads, whole, stored, failed,
                     heard, abandoned, early>>
  BY DEF Publish, server, transfer
<1>2. QED BY <1>1 DEF BridgesInv, KnownMessages, Accounted, Servers, Connector, Acking, NoAck

LEMMA ConnectionsInv ==
  ASSUME BridgesInv, FtpConnectionLost \/ BrokerConnectionLost
  PROVE  BridgesInv'
<1>1. /\ \/ ready' = ready /\ unacked' = unacked
         \/ ready' = ready \cup MessagesOf(unacked) /\ unacked' = {}
      /\ UNCHANGED <<program, process, databaseTodo, uploads, whole, stored, published, failed,
                     heard, abandoned, early>>
  BY DEF FtpConnectionLost, BrokerConnectionLost, server, broker, transfer, history
<1>2. ready \subseteq ready' /\ ready' \cup MessagesOf(unacked') = ready \cup MessagesOf(unacked)
  BY <1>1, MessagesOfNone
<1>3. MessagesOf(unacked') \subseteq MessagesOf(unacked)
  BY <1>1, MessagesOfNone
<1>4. (Acking' <=> Acking) /\ (NoAck' <=> NoAck)
  BY <1>1 DEF Acking, NoAck
<1>5. KnownMessages'
  BY <1>1, <1>3 DEF BridgesInv, KnownMessages
<1>6. Accounted'
  BY <1>1, <1>2, <1>4 DEF BridgesInv, Accounted
<1>7. Servers' /\ Connector'
  BY <1>1, <1>2 DEF BridgesInv, Servers, Connector
<1>8. QED BY <1>5, <1>6, <1>7 DEF BridgesInv

LEMMA UploadInv ==
  ASSUME BridgesInv, NEW d \in uploads, UploadDone(d) \/ UploadFails(d)
  PROVE  BridgesInv'
<1>1. CASE UploadDone(d)
  BY <1>1, EndInv DEF UploadDone, server
<1>2. CASE UploadFails(d)
  <2>1. failed' = failed \cup {d[1]} /\ UNCHANGED <<program, stored, published, heard>>
    BY <1>2 DEF UploadFails
  <2>2. CASE program = Influx
    BY <1>2, <2>1, <2>2, ExitInv DEF UploadFails
  <2>3. CASE program # Influx
    BY <1>2, <2>1, <2>3, EndInv DEF UploadFails
  <2>4. QED BY <2>2, <2>3
<1>3. QED BY <1>1, <1>2

LEMMA BridgesStep == BridgesInv /\ [Next]_vars => BridgesInv'
<1>1. BridgesInv /\ UNCHANGED vars => BridgesInv'
  BY DEF vars, server, broker, transfer, history, BridgesInv, KnownMessages, Accounted, Servers,
         Connector, Acking, NoAck
<1>2. BridgesInv /\ Crash => BridgesInv'
  BY ExitInv DEF Crash
<1>3. QED BY <1>1, <1>2, StartInv, DatabaseInv, PublishInv, DeliverInv, StoreInv, UploadInv,
             ConnectionsInv DEF Next, Upload

\* The bridges and the connector, for any number of messages and failures: a message
\* is lost only by a failure of its own upload or without acknowledgments, and what was
\* reported as done is there, will be again, or was written before the drop.
THEOREM LostOnlyByFailure == Spec => []LostByFailureOnly
<1>1. BridgesInv => LostByFailureOnly
  <2>1. SUFFICES ASSUME BridgesInv PROVE LostByFailureOnly
    OBVIOUS
  <2>2. ASSUME NEW m \in published \ InBroker
        PROVE  m \in stored \cup failed \/ (NoAck /\ m \in abandoned \cup MessagesOf(uploads))
    BY <2>1, <2>2 DEF BridgesInv, Accounted, InBroker
  <2>3. heard \ stored \subseteq early \cup ready \cup MessagesOf(uploads)
    BY <2>1 DEF BridgesInv, Servers, Connector
  <2>4. QED BY <2>2, <2>3 DEF LostByFailureOnly
<1>2. QED BY <1>1, InitBridges, BridgesStep, PTL DEF Spec
=============================================================================
