------------------------- MODULE InvalidationClient -------------------------
(***************************************************************************)
(* The Ticl orchestrator (InvalidationClientImpl) together with the state  *)
(* of the collaborators it drives under its single lock: the session       *)
(* manager, the registration update manager (registration table and the   *)
(* sequence-number counter), the persistence slot and the outbound         *)
(* listener.  The environment is the invalidation server, the application *)
(* listener and the process itself, which may crash and restart from the   *)
(* persisted state blob.                                                   *)
(*                                                                         *)
(* Every client step is one critical section of the code: a public entry   *)
(* point, a scheduled task or a persistence callback.  The throttle and    *)
(* the heartbeat timers of the network manager are abstracted here: a      *)
(* call of OutboundDataReady is remembered in `signalled' until the        *)
(* transport drains a message with TakeOutboundMessage.                    *)
(***************************************************************************)
EXTENDS Integers, Sequences, FiniteSets, Bags, SequencesExt

CONSTANTS
  Objects,          \* object ids the application may register (naturals)
  ClientIds,        \* uniquifiers the server may assign (model values)
  NoId,             \* the empty uniquifier
  SeqnoBlockSize,   \* config_.seqno_block_size
  MaxOpsPerMessage, \* config_.max_ops_per_message
  MaxRegCalls,      \* bound: Register/Unregister calls by the application
  MaxInvalidations, \* bound: invalidations the server delivers
  MaxCrashes,       \* bound: process crashes
  MaxServerFaults,  \* bound: session / client id repudiations by the server
  MaxDuplicateAcks, \* bound: extra runs of a permanent ack callback
  MaxLostMessages   \* bound: outbound messages the transport loses

ASSUME Objects \subseteq Nat /\ Objects # {}
ASSUME NoId \notin ClientIds
ASSUME SeqnoBlockSize \in Nat \ {0} /\ MaxOpsPerMessage \in Nat \ {0}

\* RegistrationUpdateManager::kFirstSequenceNumber (scenario 1 of the spec).
kFirstSequenceNumber == 1
NoToken == 0
NoBlob == [uniquifier |-> NoId, session_token |-> NoToken, sequence_number_limit |-> 0]

VARIABLES
  \* -- InvalidationClientImpl --
  awaiting_seqno_writeback, \* awaiting_seqno_writeback_
  pending_acks,             \* pending_invalidation_acks_ (back = newest)
  ack_tasks,                \* AcknowledgeInvalidation closures scheduled (bag)
  at_listener,              \* invalidations handed to the listener, not acked
  ran_callbacks,            \* listener: ack callbacks it has run and still holds
  \* -- SessionManager --
  session_state, uniquifier, session_token, shutdown_sent,
  \* -- RegistrationUpdateManager --
  current_op_seqno, maximum_op_seqno, desired, confirmed, pending, op_seqno,
  \* -- NetworkManager / transport --
  outbound_listener,        \* RegisterOutboundListener has been called
  signalled,                \* OutboundDataReady reached the transport
  \* -- PersistenceManager --
  persisted,                \* the blob in storage
  write_queue,              \* writes handed to the persistence thread
  \* -- server and history --
  wire_ops,                 \* register/unregister ops the server received
  wire_acks,                \* acked invalidations ever sent, in order
  server_regs,              \* server: <<session token, object>> registered
  init_requested, session_requests, used_ids, next_token, next_inv,
  failed_id,                \* id whose block claim failed in this process
  \* -- bounds --
  reg_calls, crashes, faults, dup_acks, lost_msgs

client == <<awaiting_seqno_writeback, pending_acks, ack_tasks, at_listener,
            ran_callbacks>>
session == <<session_state, uniquifier, session_token, shutdown_sent>>
registration == <<current_op_seqno, maximum_op_seqno, desired, confirmed,
                  pending, op_seqno>>
network == <<outbound_listener, signalled>>
storage == <<persisted, write_queue>>
server == <<wire_ops, wire_acks, server_regs, init_requested, session_requests,
            used_ids, next_token, next_inv, failed_id>>
bounds == <<reg_calls, crashes, faults, dup_acks, lost_msgs>>
vars == <<client, session, registration, network, storage, server, bounds>>

SessionStates == {"NO_CLIENT_ID", "HAVE_CLIENT_ID_NO_SESSION", "HAVE_SESSION",
                  "SHUTDOWN"}
Blob == [uniquifier: ClientIds \cup {NoId}, session_token: Nat,
         sequence_number_limit: Nat]
Op == [id: ClientIds \cup {NoId}, tok: Nat, obj: Objects,
       op: {"REGISTER", "UNREGISTER"}, seq: Nat]

(***************************************************************************)
(* Session manager (spec 4.5; its source is not part of the repository).  *)
(***************************************************************************)
HasDataToSend ==
  \/ session_state \in {"NO_CLIENT_ID", "HAVE_CLIENT_ID_NO_SESSION"}
  \/ session_state = "SHUTDOWN" /\ ~shutdown_sent

HasSession == session_state = "HAVE_SESSION"

\* AddSessionAction: the message type the session layer sets, or "NONE".
SessionAction ==
  CASE session_state = "NO_CLIENT_ID"              -> "INITIALIZE"
    [] session_state = "HAVE_CLIENT_ID_NO_SESSION" -> "REQUEST_SESSION"
    [] session_state = "SHUTDOWN" /\ ~shutdown_sent -> "SHUTDOWN"
    [] OTHER                                        -> "NONE"

(***************************************************************************)
(* Registration update manager (spec 4.4; source not in the repository).  *)
(***************************************************************************)
\* Register / Unregister: set desired; when it equals the confirmed state
\* no op is pending for the record (spec 3), else a fresh seqno and the
\* record becomes pending.
SetDesired(o, d) ==
  /\ desired' = [desired EXCEPT ![o] = d]
  /\ IF d = confirmed[o]
       THEN /\ pending' = [pending EXCEPT ![o] = FALSE]
            /\ UNCHANGED <<op_seqno, current_op_seqno>>
       ELSE /\ pending' = [pending EXCEPT ![o] = TRUE]
            /\ op_seqno' = [op_seqno EXCEPT ![o] = current_op_seqno]
            /\ current_op_seqno' = current_op_seqno + 1

ResetConfirmations ==
  /\ confirmed' = [o \in Objects |-> "UNKNOWN"]
  /\ pending' = [o \in Objects |-> desired[o] = "REGISTER"]

\* Oldest-seqno-first order of pending records (ties broken by object).
OlderOp(p, o) == op_seqno[p] < op_seqno[o] \/ (op_seqno[p] = op_seqno[o] /\ p < o)

\* Mutant: an off-by-one in the per-message limit.
OpsToSend_OffByOne ==
  LET P == {o \in Objects : pending[o]}
  IN  {o \in P : Cardinality({p \in P : OlderOp(p, o)}) < MaxOpsPerMessage - 1}

\* AddOutboundData: at most max_ops_per_message pending records, oldest first.
OpsToSend ==
  LET P == {o \in Objects : pending[o]}
  IN  {o \in P : Cardinality({p \in P : OlderOp(p, o)}) < MaxOpsPerMessage}

\* ProcessInboundMessage: a successful status confirms a matching seqno.
ProcessRegistrationStatus(o, seq) ==
  IF pending[o] /\ op_seqno[o] = seq
    THEN /\ confirmed' = [confirmed EXCEPT ![o] = desired[o]]
         /\ pending' = [pending EXCEPT ![o] = FALSE]
    ELSE UNCHANGED <<confirmed, pending>>

(***************************************************************************)
(* ForgetClientId (spec 4.7; declared in the header, body not in src).     *)
(***************************************************************************)
ForgetClientId ==
  /\ session_state' = "NO_CLIENT_ID"
  /\ uniquifier' = NoId
  /\ session_token' = NoToken
  /\ current_op_seqno' = kFirstSequenceNumber
  /\ maximum_op_seqno' = SeqnoBlockSize

\* NetworkManager::OutboundDataReady, the throttle abstracted away.
OutboundDataReady == signalled' = (signalled \/ outbound_listener)


(***************************************************************************)
(* InvalidationClientImpl: the constructor, run at first start and after   *)
(* every restart on the blob found in storage.                             *)
(***************************************************************************)
\* AllocateNewSequenceNumbers: the write that claims the next block.
AllocateNewSequenceNumbers(blob) ==
  [kind |-> "seqno",
   blob |-> [blob EXCEPT !.sequence_number_limit = @ + SeqnoBlockSize]]

\* The in-memory state the constructor builds from `blob'.
InvalidationClientImpl(blob) ==
  LET persistent == blob # NoBlob IN
  [session_state    |-> IF persistent THEN "HAVE_SESSION" ELSE "NO_CLIENT_ID",
   uniquifier       |-> blob.uniquifier,
   session_token    |-> blob.session_token,
   current_op_seqno |-> IF persistent THEN blob.sequence_number_limit
                                       ELSE kFirstSequenceNumber,
   \* only read once the writeback has returned
   maximum_op_seqno |-> IF persistent THEN blob.sequence_number_limit
                                       ELSE SeqnoBlockSize,
   awaiting         |-> persistent,
   write_queue      |-> IF persistent THEN << AllocateNewSequenceNumbers(blob) >>
                                       ELSE << >>]

\* The variables of the process take the values the constructor builds.
Boot(s) ==
  /\ session_state' = s.session_state
  /\ uniquifier' = s.uniquifier
  /\ session_token' = s.session_token
  /\ shutdown_sent' = FALSE
  /\ current_op_seqno' = s.current_op_seqno
  /\ maximum_op_seqno' = s.maximum_op_seqno
  /\ desired' = [o \in Objects |-> "UNREGISTER"]
  /\ confirmed' = [o \in Objects |-> "UNKNOWN"]
  /\ pending' = [o \in Objects |-> FALSE]
  /\ op_seqno' = [o \in Objects |-> 0]
  /\ awaiting_seqno_writeback' = s.awaiting
  /\ write_queue' = s.write_queue
  /\ pending_acks' = << >>
  /\ ack_tasks' = EmptyBag
  /\ at_listener' = {}
  /\ ran_callbacks' = {}
  /\ outbound_listener' = FALSE
  /\ signalled' = FALSE

Init ==
  LET s == InvalidationClientImpl(NoBlob) IN
  /\ session_state = s.session_state /\ uniquifier = s.uniquifier
  /\ session_token = s.session_token /\ shutdown_sent = FALSE
  /\ current_op_seqno = s.current_op_seqno
  /\ maximum_op_seqno = s.maximum_op_seqno
  /\ desired = [o \in Objects |-> "UNREGISTER"]
  /\ confirmed = [o \in Objects |-> "UNKNOWN"]
  /\ pending = [o \in Objects |-> FALSE]
  /\ op_seqno = [o \in Objects |-> 0]
  /\ awaiting_seqno_writeback = s.awaiting /\ write_queue = s.write_queue
  /\ pending_acks = << >> /\ ack_tasks = EmptyBag /\ at_listener = {}
  /\ ran_callbacks = {}
  /\ outbound_listener = FALSE /\ signalled = FALSE
  /\ persisted = NoBlob
  /\ wire_ops = {} /\ wire_acks = << >> /\ server_regs = {}
  /\ init_requested = FALSE /\ session_requests = {}
  /\ used_ids = {} /\ next_token = 1 /\ next_inv = 1 /\ failed_id = NoId
  /\ reg_calls = 0 /\ crashes = 0 /\ faults = 0 /\ dup_acks = 0
  /\ lost_msgs = 0

(***************************************************************************)
(* Persistence callbacks: the persistence thread commits the oldest write *)
(* (or fails to) and runs its callback under the lock.                     *)
(***************************************************************************)
\* Mutant: a failed claim keeps the id and carries on with the old limit.
HandleSeqnoWritebackResult_KeepId(success) ==
  LET w == Head(write_queue) IN
  /\ write_queue # << >> /\ w.kind = "seqno"
  /\ write_queue' = Tail(write_queue)
  /\ persisted' = IF success THEN w.blob ELSE persisted
  /\ awaiting_seqno_writeback' = FALSE
  /\ maximum_op_seqno' = IF success THEN w.blob.sequence_number_limit
                                     ELSE maximum_op_seqno
  /\ failed_id' = IF success THEN failed_id ELSE uniquifier
  /\ UNCHANGED <<session_state, uniquifier, session_token, current_op_seqno>>
  /\ UNCHANGED <<pending_acks, ack_tasks, at_listener, ran_callbacks,
                 shutdown_sent, desired, confirmed, pending, op_seqno, network,
                 wire_ops, wire_acks, server_regs, init_requested,
                 session_requests, used_ids, next_token, next_inv, bounds>>

\* A failed claim of the next block forgets the id (failed_id records it).
HandleSeqnoWritebackResult(success) ==
  LET w == Head(write_queue) IN
  /\ write_queue # << >> /\ w.kind = "seqno"
  /\ write_queue' = Tail(write_queue)
  /\ persisted' = IF success THEN w.blob ELSE persisted
  /\ awaiting_seqno_writeback' = FALSE
  /\ failed_id' = IF success THEN failed_id ELSE uniquifier
  /\ IF success
       THEN /\ maximum_op_seqno' = w.blob.sequence_number_limit
            /\ UNCHANGED <<session_state, uniquifier, session_token,
                           current_op_seqno>>
       ELSE ForgetClientId
  /\ UNCHANGED <<pending_acks, ack_tasks, at_listener, ran_callbacks,
                 shutdown_sent, desired, confirmed, pending, op_seqno, network,
                 wire_ops, wire_acks, server_regs, init_requested,
                 session_requests, used_ids, next_token, next_inv, bounds>>

HandleBestEffortWrite(success) ==
  LET w == Head(write_queue) IN
  /\ write_queue # << >> /\ w.kind = "besteffort"
  /\ write_queue' = Tail(write_queue)
  /\ persisted' = IF success THEN w.blob ELSE persisted
  /\ UNCHANGED <<client, session, registration, network, server, bounds>>

(***************************************************************************)
(* PeriodicTask: rescheduled on every exit (Finally), silent while the     *)
(* seqno writeback is outstanding.                                         *)
(***************************************************************************)
\* Mutant: the early return while the writeback is in flight is missing.
PeriodicTask_NoWritebackWait(heartbeat_due) ==
  /\ IF current_op_seqno > maximum_op_seqno
       THEN /\ ForgetClientId
            /\ OutboundDataReady
            /\ UNCHANGED <<shutdown_sent, desired, confirmed, pending, op_seqno>>
     ELSE /\ IF /\ HasDataToSend \/ HasSession
                /\ HasDataToSend \/ (\E o \in Objects : pending[o]) \/ heartbeat_due
              THEN OutboundDataReady
              ELSE UNCHANGED signalled
          /\ UNCHANGED <<session, registration>>
  /\ UNCHANGED <<client, outbound_listener, storage, server, bounds>>

\* Mutant: the network manager's heartbeat/poll check is ignored.
PeriodicTask_NoHeartbeat(heartbeat_due) ==
  /\ IF awaiting_seqno_writeback
       THEN UNCHANGED <<session, registration, signalled>>
     ELSE IF current_op_seqno > maximum_op_seqno
       THEN /\ ForgetClientId
            /\ OutboundDataReady
            /\ UNCHANGED <<shutdown_sent, desired, confirmed, pending, op_seqno>>
     ELSE /\ IF /\ HasDataToSend \/ HasSession
                /\ HasDataToSend \/ (\E o \in Objects : pending[o])
              THEN OutboundDataReady
              ELSE UNCHANGED signalled
          /\ UNCHANGED <<session, registration>>
  /\ UNCHANGED <<client, outbound_listener, storage, server, bounds>>

PeriodicTask(heartbeat_due) ==
  /\ IF awaiting_seqno_writeback
       THEN UNCHANGED <<session, registration, signalled>>
     ELSE IF current_op_seqno > maximum_op_seqno
       THEN \* exhausted: forget the id; the new session state has data
            /\ ForgetClientId
            /\ OutboundDataReady
            /\ UNCHANGED <<shutdown_sent, desired, confirmed, pending, op_seqno>>
     ELSE /\ IF /\ HasDataToSend \/ HasSession
                /\ HasDataToSend \/ (\E o \in Objects : pending[o]) \/ heartbeat_due
              THEN OutboundDataReady
              ELSE UNCHANGED signalled
          /\ UNCHANGED <<session, registration>>
  /\ UNCHANGED <<client, outbound_listener, storage, server, bounds>>


(***************************************************************************)
(* Application entry points.                                               *)
(***************************************************************************)
Register(o) ==
  /\ reg_calls < MaxRegCalls
  /\ reg_calls' = reg_calls + 1
  /\ SetDesired(o, "REGISTER")
  /\ UNCHANGED <<client, session, maximum_op_seqno, confirmed, network, storage,
                 server, crashes, faults, dup_acks, lost_msgs>>

Unregister(o) ==
  /\ reg_calls < MaxRegCalls
  /\ reg_calls' = reg_calls + 1
  /\ SetDesired(o, "UNREGISTER")
  /\ UNCHANGED <<client, session, maximum_op_seqno, confirmed, network, storage,
                 server, crashes, faults, dup_acks, lost_msgs>>

PermanentShutdown ==
  /\ session_state # "SHUTDOWN"
  /\ session_state' = "SHUTDOWN"
  /\ UNCHANGED <<client, uniquifier, session_token, shutdown_sent, registration,
                 network, storage, server, bounds>>

RegisterOutboundListener ==
  /\ ~outbound_listener
  /\ outbound_listener' = TRUE
  /\ UNCHANGED <<client, session, registration, signalled, storage, server,
                 bounds>>

(***************************************************************************)
(* HandleInboundMessage: one action per classification of the session      *)
(* manager.  Every message is dropped while the seqno writeback is in      *)
(* flight; a dropped or lost message is one the server did not send.       *)
(***************************************************************************)
\* Mutant: the new state blob is written without its uniquifier.
HandleNewSession_NoUniquifier(id, tok) ==
  /\ ResetConfirmations
  /\ write_queue' = Append(write_queue,
        [kind |-> "besteffort",
         blob |-> [session_token |-> tok,
                   sequence_number_limit |-> maximum_op_seqno]])

\* HandleNewSession: registrations resurface, best-effort write of the blob.
HandleNewSession(id, tok) ==
  /\ ResetConfirmations
  /\ write_queue' = Append(write_queue,
        [kind |-> "besteffort",
         blob |-> [uniquifier |-> id, session_token |-> tok,
                   sequence_number_limit |-> maximum_op_seqno]])

\* ACQUIRE_SESSION for a fresh client id (answer to INITIALIZE).
AcquireNewClientId(id) ==
  /\ ~awaiting_seqno_writeback
  /\ init_requested /\ id \notin used_ids
  /\ session_state = "NO_CLIENT_ID"
  /\ used_ids' = used_ids \cup {id}
  /\ next_token' = next_token + 1
  /\ session_state' = "HAVE_SESSION"
  /\ uniquifier' = id
  /\ session_token' = next_token
  /\ HandleNewSession(id, next_token)
  /\ UNCHANGED <<client, shutdown_sent, current_op_seqno, maximum_op_seqno,
                 desired, op_seqno, network, persisted, wire_ops, wire_acks,
                 server_regs, init_requested, session_requests, next_inv,
                 failed_id, bounds>>

\* ACQUIRE_SESSION for the current id (answer to a session request).
AcquireSession ==
  /\ ~awaiting_seqno_writeback
  /\ session_state = "HAVE_CLIENT_ID_NO_SESSION"
  /\ uniquifier \in session_requests
  /\ next_token' = next_token + 1
  /\ session_state' = "HAVE_SESSION"
  /\ session_token' = next_token
  /\ HandleNewSession(uniquifier, next_token)
  /\ UNCHANGED <<client, uniquifier, shutdown_sent, current_op_seqno,
                 maximum_op_seqno, desired, op_seqno, network, persisted,
                 wire_ops, wire_acks, server_regs, init_requested,
                 session_requests, used_ids, next_inv, failed_id, bounds>>

\* LOSE_SESSION: HandleLostSession.
LoseSession ==
  /\ ~awaiting_seqno_writeback
  /\ faults < MaxServerFaults /\ faults' = faults + 1
  /\ HasSession
  /\ session_state' = "HAVE_CLIENT_ID_NO_SESSION"
  /\ session_token' = NoToken
  /\ ResetConfirmations
  /\ UNCHANGED <<client, uniquifier, shutdown_sent, current_op_seqno,
                 maximum_op_seqno, desired, op_seqno, network, storage, server,
                 reg_calls, crashes, dup_acks, lost_msgs>>

\* LOSE_CLIENT_ID: ForgetClientId.
LoseClientId ==
  /\ ~awaiting_seqno_writeback
  /\ faults < MaxServerFaults /\ faults' = faults + 1
  /\ session_state \in {"HAVE_SESSION", "HAVE_CLIENT_ID_NO_SESSION"}
  /\ ForgetClientId
  /\ UNCHANGED <<client, shutdown_sent, desired, confirmed, pending, op_seqno,
                 network, storage, server, reg_calls, crashes, dup_acks, lost_msgs>>

\* PROCESS_OBJECT_CONTROL carrying a registration status for an op sent
\* in this session (the server may repeat or reorder its answers).
HandleRegistrationStatus(op) ==
  /\ ~awaiting_seqno_writeback
  /\ HasSession
  /\ op \in wire_ops /\ op.id = uniquifier /\ op.tok = session_token
  /\ ProcessRegistrationStatus(op.obj, op.seq)
  /\ UNCHANGED <<client, session, current_op_seqno, maximum_op_seqno, desired,
                 op_seqno, network, storage, server, bounds>>

\* PROCESS_OBJECT_CONTROL carrying an invalidation: ProcessInvalidation
\* hands it to the listener thread with a permanent ack callback.
ProcessInvalidation ==
  /\ ~awaiting_seqno_writeback
  /\ HasSession
  /\ next_inv <= MaxInvalidations
  /\ at_listener' = at_listener \cup {next_inv}
  /\ next_inv' = next_inv + 1
  /\ UNCHANGED <<awaiting_seqno_writeback, pending_acks, ack_tasks,
                 ran_callbacks, session, registration, network, storage,
                 wire_ops, wire_acks, server_regs,
                 init_requested, session_requests, used_ids, next_token, failed_id,
                 bounds>>

(***************************************************************************)
(* Acknowledgement path.  The listener gets a permanent callback; each run *)
(* of it is ScheduleAcknowledgeInvalidation, which queues one              *)
(* AcknowledgeInvalidation closure on the internal thread.                 *)
(***************************************************************************)
ScheduleAcknowledgeInvalidation(inv) ==
  ack_tasks' = ack_tasks (+) SetToBag({inv})

\* The listener runs the callback of an invalidation it was handed.
ListenerAcknowledges(inv) ==
  /\ inv \in at_listener
  /\ at_listener' = at_listener \ {inv}
  /\ ran_callbacks' = ran_callbacks \cup {inv}
  /\ ScheduleAcknowledgeInvalidation(inv)
  /\ UNCHANGED <<awaiting_seqno_writeback, pending_acks, session, registration,
                 network, storage, server, bounds>>

\* Nothing in the callback stops the listener from running it again.
ListenerAcknowledgesAgain(inv) ==
  /\ inv \in ran_callbacks
  /\ dup_acks < MaxDuplicateAcks /\ dup_acks' = dup_acks + 1
  /\ ScheduleAcknowledgeInvalidation(inv)
  /\ UNCHANGED <<awaiting_seqno_writeback, pending_acks, at_listener,
                 ran_callbacks, session, registration, network, storage,
                 server, reg_calls, crashes, faults, lost_msgs>>

AcknowledgeInvalidation(inv) ==
  /\ BagIn(inv, ack_tasks)
  /\ ack_tasks' = ack_tasks (-) SetToBag({inv})
  /\ pending_acks' = Append(pending_acks, inv)
  /\ OutboundDataReady
  /\ UNCHANGED <<awaiting_seqno_writeback, at_listener, ran_callbacks, session,
                 registration, outbound_listener, storage, server, bounds>>

(***************************************************************************)
(* TakeOutboundMessage: the transport drains one message after being       *)
(* signalled.  Session action first; otherwise an OBJECT_CONTROL message   *)
(* with registrations and then acks from the back of the queue.           *)
(***************************************************************************)
\* Mutant: the ack loop copies from the back but never pops.
AddAckedInvalidations_NoPop(n) ==
  LET keep == Len(pending_acks) - n IN
  /\ wire_acks' = wire_acks \o Reverse(SubSeq(pending_acks, keep + 1,
                                              Len(pending_acks)))
  /\ pending_acks' = pending_acks

\* The ack loop: n acks popped from the back, newest first.
AddAckedInvalidations(n) ==
  LET keep == Len(pending_acks) - n IN
  /\ wire_acks' = wire_acks \o Reverse(SubSeq(pending_acks, keep + 1,
                                              Len(pending_acks)))
  /\ pending_acks' = SubSeq(pending_acks, 1, keep)

\* The server applies the ops of a message to the registrations of the
\* session it was sent in.
ServerApplies(ops) ==
  LET key(o) == <<session_token, o>> IN
  (server_regs \ {key(o) : o \in ops})
    \cup {key(o) : o \in {p \in ops : desired[p] = "REGISTER"}}

\* The server receives a message of session action `type' carrying `ops'.
ServerReceives(type, ops) ==
  /\ wire_ops' = wire_ops \cup
       {[id |-> uniquifier, tok |-> session_token, obj |-> o, op |-> desired[o],
         seq |-> op_seqno[o]] : o \in ops}
  /\ server_regs' = ServerApplies(ops)
  /\ init_requested' = (init_requested \/ type = "INITIALIZE")
  /\ session_requests' = IF type = "REQUEST_SESSION"
                           THEN session_requests \cup {uniquifier}
                           ELSE session_requests

TakeOutboundMessage ==
  LET type == SessionAction
      ops  == IF type = "NONE" THEN OpsToSend ELSE {}
      room == MaxOpsPerMessage - Cardinality(ops)
      n    == IF type = "NONE"
                THEN IF Len(pending_acks) < room THEN Len(pending_acks) ELSE room
                ELSE 0
  IN
  /\ signalled
  /\ signalled' = FALSE
  /\ AddAckedInvalidations(n)
  /\ shutdown_sent' = (shutdown_sent \/ type = "SHUTDOWN")
  /\ \/ /\ ServerReceives(type, ops)
        /\ UNCHANGED lost_msgs
     \/ \* the transport loses the message (spec 7, error class 1)
        /\ lost_msgs < MaxLostMessages /\ lost_msgs' = lost_msgs + 1
        /\ UNCHANGED <<wire_ops, server_regs, init_requested, session_requests>>
  /\ UNCHANGED <<awaiting_seqno_writeback, ack_tasks, at_listener,
                 ran_callbacks, session_state, uniquifier, session_token, registration,
                 outbound_listener, storage, used_ids, next_token, next_inv,
                 failed_id,
                 reg_calls, crashes, faults, dup_acks>>

(***************************************************************************)
(* The process crashes; storage holds the last write the persistence       *)
(* thread committed, and the constructor runs on it.                       *)
(***************************************************************************)
CrashAndRestart ==
  /\ crashes < MaxCrashes
  /\ crashes' = crashes + 1
  /\ \E b \in {persisted} \cup {write_queue[i].blob : i \in DOMAIN write_queue} :
       /\ persisted' = b
       /\ Boot(InvalidationClientImpl(b))
  /\ failed_id' = NoId
  /\ UNCHANGED <<wire_ops, wire_acks, server_regs, init_requested,
                 session_requests, used_ids, next_token, next_inv,
                 reg_calls, faults, dup_acks, lost_msgs>>

Next ==
  \/ \E ok \in BOOLEAN : HandleSeqnoWritebackResult(ok)
  \/ \E ok \in BOOLEAN : HandleBestEffortWrite(ok)
  \/ \E hb \in BOOLEAN : PeriodicTask(hb)
  \/ \E o \in Objects : Register(o) \/ Unregister(o)
  \/ PermanentShutdown
  \/ RegisterOutboundListener
  \/ \E id \in ClientIds : AcquireNewClientId(id)
  \/ AcquireSession
  \/ LoseSession
  \/ LoseClientId
  \/ \E op \in wire_ops : HandleRegistrationStatus(op)
  \/ ProcessInvalidation
  \/ \E inv \in at_listener : ListenerAcknowledges(inv)
  \/ \E inv \in ran_callbacks : ListenerAcknowledgesAgain(inv)
  \/ \E inv \in BagToSet(ack_tasks) : AcknowledgeInvalidation(inv)
  \/ TakeOutboundMessage
  \/ CrashAndRestart

Spec == Init /\ [][Next]_vars

(***************************************************************************)
(* Fairness.  The periodic task always reschedules itself and the heartbeat *)
(* interval always elapses; scheduled tasks and persistence callbacks run;  *)
(* the transport drains a signalled message; the application registers its *)
(* outbound listener and its listener runs the ack callback; the server is *)
(* cooperative (spec 8): it answers requests and acknowledges registrations.*)
(* Application calls, crashes and server faults are never forced.          *)
(***************************************************************************)
Fairness ==
  /\ WF_vars(PeriodicTask(TRUE))
  /\ WF_vars(TakeOutboundMessage)
  /\ WF_vars(\E ok \in BOOLEAN : HandleSeqnoWritebackResult(ok))
  /\ WF_vars(\E ok \in BOOLEAN : HandleBestEffortWrite(ok))
  /\ WF_vars(RegisterOutboundListener)
  /\ \A i \in 1..MaxInvalidations : WF_vars(ListenerAcknowledges(i))
  /\ \A i \in 1..MaxInvalidations : WF_vars(AcknowledgeInvalidation(i))
  /\ WF_vars(\E id \in ClientIds : AcquireNewClientId(id))
  /\ WF_vars(AcquireSession)
  /\ WF_vars(\E op \in wire_ops : HandleRegistrationStatus(op))

FairSpec == Spec /\ Fairness

(***************************************************************************)
(* Invariants and properties.                                              *)
(***************************************************************************)
TypeOK ==
  /\ awaiting_seqno_writeback \in BOOLEAN
  /\ pending_acks \in Seq(1..MaxInvalidations)
  /\ IsABag(ack_tasks) /\ BagToSet(ack_tasks) \subseteq 1..MaxInvalidations
  /\ ran_callbacks \subseteq 1..MaxInvalidations
  /\ at_listener \subseteq 1..MaxInvalidations
  /\ session_state \in SessionStates
  /\ uniquifier \in ClientIds \cup {NoId}
  /\ session_token \in Nat /\ shutdown_sent \in BOOLEAN
  /\ current_op_seqno \in Nat /\ maximum_op_seqno \in Nat
  /\ desired \in [Objects -> {"REGISTER", "UNREGISTER"}]
  /\ confirmed \in [Objects -> {"REGISTER", "UNREGISTER", "UNKNOWN"}]
  /\ pending \in [Objects -> BOOLEAN]
  /\ op_seqno \in [Objects -> Nat]
  /\ outbound_listener \in BOOLEAN /\ signalled \in BOOLEAN
  /\ persisted \in Blob
  /\ write_queue \in Seq([kind: {"seqno", "besteffort"}, blob: Blob])
  /\ wire_ops \subseteq Op
  /\ wire_acks \in Seq(1..MaxInvalidations)
  /\ server_regs \subseteq Nat \X Objects
  /\ failed_id \in ClientIds \cup {NoId}


(* Sequence numbers are never reused: two different register/unregister    *)
(* operations sent under the same client id never carry the same op        *)
(* seqno.  The state blob's sequence_number_limit, read back by the        *)
(* constructor after a restart, and the reset of ForgetClientId must keep  *)
(* every op of an id on a number of its own (spec sections 1 and 8).       *)
SeqnoNeverReused ==
  \A a, b \in wire_ops :
    (a.id = b.id /\ a.id # NoId /\ a.seq = b.seq) => (a.obj = b.obj /\ a.op = b.op)

(* While the client has a session, every object whose record is settled   *)
(* (not pending) and confirmed as registered or unregistered is in that    *)
(* state at the server for this session: Register/Unregister may settle  *)
(* a record (spec 3) only when no op of the other kind can still reach    *)
(* the server, and a status may settle it only for the op last sent       *)
(* (spec 4.4, ProcessInboundMessage; spec 8, first bullet).                *)
ConfirmedMatchesServer ==
  HasSession =>
    \A o \in Objects :
      (~pending[o] /\ confirmed[o] # "UNKNOWN") =>
        (<<session_token, o>> \in server_regs <=> confirmed[o] = "REGISTER")

(* No message carries an op whose seqno lies beyond the block reserved by  *)
(* maximum_op_seqno_inclusive: Register hands out seqnos without a check,  *)
(* and only PeriodicTask compares current_op_seqno with the maximum.       *)
NoOpBeyondReservedBlock ==
  [][\A op \in wire_ops' \ wire_ops : op.seq <= maximum_op_seqno]_vars

(* While the writeback claiming a new block is in flight after a restart,  *)
(* TakeOutboundMessage never emits anything on behalf of the persisted id: *)
(* PeriodicTask returns early and HandleInboundMessage drops messages, so  *)
(* nothing may signal the transport (spec 5(d) and the last bullet of 8).  *)
NoEmissionDuringWriteback ==
  [][TakeOutboundMessage => ~awaiting_seqno_writeback]_vars

(* A claim of the next seqno block that fails after a restart makes the   *)
(* client start over with a new id: "the write must succeed for us to      *)
(* proceed, since otherwise we might end up reusing sequence numbers"      *)
(* (HandleSeqnoWritebackResult; spec 8).  So once the claim for the        *)
(* persisted id has failed, this process never emits a message under it.   *)
NothingSentUnderUnclaimedId ==
  [][TakeOutboundMessage => (uniquifier = NoId \/ uniquifier # failed_id)]_vars

(* PermanentShutdown is terminal: once the TYPE_SHUTDOWN message is out,   *)
(* the client emits no further message (spec 5, cancellation/shutdown).    *)
NothingAfterShutdown ==
  [][shutdown_sent => ~TakeOutboundMessage]_vars

(* Every invalidation delivered to the listener is acked on the wire at   *)
(* most once (spec 8), even though the callback handed to the listener is *)
(* a permanent closure and AcknowledgeInvalidation queues whatever it is   *)
(* given.                                                                  *)
AckSentAtMostOnce ==
  \A i \in 1..MaxInvalidations :
    Cardinality({k \in DOMAIN wire_acks : wire_acks[k] = i}) <= 1

(* The ack path implements AckPipeline: an invalidation goes from the     *)
(* listener to the scheduled AcknowledgeInvalidation closures and the      *)
(* pending ack queue (together: acknowledged, not sent) and from there to  *)
(* the wire exactly once, by the pop-from-the-back loop of                 *)
(* TakeOutboundMessage; a crash drops only what was not yet sent.          *)
AckAbstract == INSTANCE AckPipeline WITH
  Invalidations <- 1..MaxInvalidations,
  delivered     <- at_listener,
  acked         <- BagToSet(ack_tasks) \cup Range(pending_acks),
  sent          <- Range(wire_acks)

AckRefinement == AckAbstract!Spec

(* Every invalidation whose ack callback ran is eventually acked to the    *)
(* server, unless a crash loses it or the client has shut down: acks wait  *)
(* for an OBJECT_CONTROL message, share it with registrations up to        *)
(* max_ops_per_message, and a leftover is only flushed when a later        *)
(* heartbeat, registration or ack signals the transport again.             *)
InQueue(i) == BagIn(i, ack_tasks) \/ Contains(pending_acks, i)
AckEventuallySent ==
  \A i \in 1..MaxInvalidations :
    BagIn(i, ack_tasks) ~> (Contains(wire_acks, i) \/ ~InQueue(i)
                        \/ session_state = "SHUTDOWN")

(* Every registration or unregistration that diverges from the confirmed   *)
(* state is eventually confirmed by a cooperative server, across session   *)
(* loss, client id loss, seqno exhaustion and restarts (spec 8, first      *)
(* bullet), unless the client shuts down.                                  *)
RegistrationsConverge ==
  \A o \in Objects : pending[o] ~> (~pending[o] \/ session_state = "SHUTDOWN")

==============================================================================
