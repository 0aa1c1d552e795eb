------------------------------- MODULE Broker -------------------------------
(***************************************************************************)
(* RabbitMQ, as src/ uses it: one durable queue without a dead-letter      *)
(* exchange (QueueDeclare with nil arguments), messages published without  *)
(* a DeliveryMode (transient) and without publisher confirms, consumers    *)
(* with manual acknowledgement, no Qos call (unlimited prefetch).          *)
(*                                                                         *)
(* The queue is a set of places, not a sequence: every order of delivery   *)
(* is allowed, which includes FIFO and the reordering redelivery causes.   *)
(***************************************************************************)
EXTENDS Domain

VARIABLES
  place,       (* place[j]: "unpublished", "ready", the worker that holds  *)
               (* it unacknowledged, or how the broker was rid of it       *)
  body,        (* body[j]: what the message carries, once published        *)
  link,        (* link[w]: the broker sees w's connection as open          *)
  publisher,   (* the API's only channel: "open" or "closed"               *)
  deliveries   (* deliveries[j]: how often the broker handed j out         *)

brokerVars == <<place, body, link, publisher, deliveries>>

Places == Shelf \cup Workers

BrokerTypeOK ==
  /\ place \in [Jobs -> Places]
  /\ body \in [Jobs -> {"none", "json", "invalid"}]
  /\ link \in [Workers -> BOOLEAN]
  /\ publisher \in {"open", "closed"}
  /\ deliveries \in [Jobs -> Nat]

BrokerInit ==
  /\ place = [j \in Jobs |-> "unpublished"]
  /\ body = [j \in Jobs |-> "none"]
  /\ link = [w \in Workers |-> FALSE]
  /\ publisher = "open"
  /\ deliveries = [j \in Jobs |-> 0]

Unsettled(j) == place[j] = "ready" \/ place[j] \in Workers

(* What remains when w's connection goes away: its messages are requeued.  *)
Requeue(w) == [j \in Jobs |-> IF place[j] = w THEN "ready" ELSE place[j]]

(* basic.publish on an open channel: the frame reaches the queue ...       *)
Enqueue(j, b) ==
  /\ place' = [place EXCEPT ![j] = "ready"]
  /\ body' = [body EXCEPT ![j] = b]
  /\ UNCHANGED <<link, publisher, deliveries>>

(* ... or the connection breaks while it is still in the socket's buffer.  *)
LoseInTransit(j, b) ==
  /\ place' = [place EXCEPT ![j] = "lost"]
  /\ body' = [body EXCEPT ![j] = b]
  /\ publisher' = "closed"
  /\ UNCHANGED <<link, deliveries>>

(* basic.deliver: any consumer with an open connection, however much it    *)
(* already holds.                                                          *)
HandOut(w, j) ==
  /\ link[w]
  /\ place[j] = "ready"
  /\ place' = [place EXCEPT ![j] = w]
  /\ deliveries' = [deliveries EXCEPT ![j] = @ + 1]
  /\ UNCHANGED <<body, link, publisher>>

(* Ack(false) or Nack(false, false) from w for j.  On a dead connection it *)
(* is an error the worker ignores, and the broker has requeued j already.  *)
Settle(w, j, fate) ==
  /\ place' = IF place[j] = w THEN [place EXCEPT ![j] = fate] ELSE place
  /\ UNCHANGED <<body, link, publisher, deliveries>>

CloseLink(w) ==
  /\ link' = [link EXCEPT ![w] = FALSE]
  /\ place' = Requeue(w)
  /\ UNCHANGED <<body, publisher, deliveries>>

OpenLink(w) ==
  /\ link' = [link EXCEPT ![w] = TRUE]
  /\ UNCHANGED <<place, body, publisher, deliveries>>

(* The broker restarts: the durable queue survives, its transient messages *)
(* do not, and every connection is gone.                                   *)
Restart ==
  /\ place' = [j \in Jobs |-> IF Unsettled(j) THEN "lost" ELSE place[j]]
  /\ link' = [w \in Workers |-> FALSE]
  /\ publisher' = "closed"
  /\ UNCHANGED <<body, deliveries>>

ClosePublisher ==
  /\ publisher = "open"
  /\ publisher' = "closed"
  /\ UNCHANGED <<place, body, link, deliveries>>

(* PublisherFactory, run once when the API process starts.                 *)
OpenPublisher ==
  /\ publisher' = "open"
  /\ UNCHANGED <<place, body, link, deliveries>>
=============================================================================
