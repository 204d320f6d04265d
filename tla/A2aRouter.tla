----------------------------- MODULE A2aRouter -------------------------------
(***************************************************************************)
(* The router of crates/a2a: a registry of agent cards by name, and        *)
(* route_message.  Envelopes travel outside the program (external): the    *)
(* sender puts its card of the moment into one, and by the time it is      *)
(* routed the registry may say something else.  The router judges the card *)
(* in the envelope, never the registered one, and judges nothing when      *)
(* there is none.                                                          *)
(***************************************************************************)
EXTENDS Integers, FiniteSets

CONSTANTS Names,         (* agent names                                    *)
          Versions,      (* protocol versions cards and envelopes may carry*)
          OwnVersion,    (* A2A_PROTOCOL_VERSION                           *)
          NoCard,        (* not registered; no sender_card                 *)
          MaxInFlight    (* bound on the envelopes under way               *)

ASSUME RouterAssumption == OwnVersion \in Versions /\ MaxInFlight \in Nat

(* Unverified, Probationary, Standard, Elevated, Sovereign *)
Levels == 0 .. 4
Standard == 2

(* required_trust None asks no more than the lowest level. *)
AnyLevel == 0

VARIABLES registry,      (* Names -> card or NoCard                        *)
          inFlight       (* envelopes sent and not yet routed              *)

routerVars == << registry, inFlight >>

CardOf(level, version) == [level |-> level, version |-> version]

RouterInit ==
    /\ registry = [n \in Names |-> NoCard]
    /\ inFlight = {}

Known(n) == registry[n] # NoCard

Register(n, level, version) ==
    /\ registry' = [registry EXCEPT ![n] = CardOf(level, version)]
    /\ UNCHANGED inFlight

Unregister(n) ==
    /\ Known(n)
    /\ registry' = [registry EXCEPT ![n] = NoCard]
    /\ UNCHANGED inFlight

AgentsAtTrustLevel(level) == { n \in Names : Known(n) /\ registry[n].level >= level }

CanInitiate(level) == level >= Standard

(* External: an envelope with the sender's card of this moment, or none.   *)
SendEnvelope(from, to, required, version, withCard) ==
    /\ Cardinality(inFlight) < MaxInFlight
    /\ Known(from)
    /\ inFlight' = inFlight \cup
            {[recipient |-> to, required |-> required, version |-> version,
              card |-> IF withCard THEN registry[from] ELSE NoCard]}
    /\ UNCHANGED registry

(* Mutant: the sender must have exactly the required level. *)
VerifyTrustExactly(envelope) ==
    envelope.required # AnyLevel => envelope.card.level = envelope.required

VerifyTrust(envelope) == envelope.card.level >= envelope.required

(* The answers of route_message, in the order of its checks. *)
RouteAnswer(envelope) ==
    LET recipient == registry[envelope.recipient]
        card == envelope.card
    IN  IF recipient = NoCard THEN "RecipientNotFound"
        ELSE IF envelope.version # OwnVersion THEN "IncompatibleProtocol"
        ELSE IF card = NoCard THEN "Routed"
        ELSE IF card.version # recipient.version THEN "IncompatibleProtocol"
        ELSE IF ~VerifyTrust(envelope) THEN "InsufficientTrust"
        ELSE IF ~CanInitiate(card.level) THEN "CannotInitiate"
        ELSE "Routed"

(* Routing changes nothing in the router; the envelope has had its answer. *)
RouteMessage(envelope) ==
    /\ inFlight' = inFlight \ {envelope}
    /\ UNCHANGED registry

RouterNext ==
    \/ \E n \in Names : \/ Unregister(n)
                        \/ \E l \in Levels, v \in Versions : Register(n, l, v)
    \/ \E from, to \in Names, r \in Levels, v \in Versions, c \in BOOLEAN :
            SendEnvelope(from, to, r, v, c)
    \/ \E e \in inFlight : RouteMessage(e)

-----------------------------------------------------------------------------

(***************************************************************************)
(* Trust only helps: an envelope that is routed would be routed as well    *)
(* with a sender card of any higher level, and an agent listed at a level  *)
(* is listed at every lower one.                                           *)
(***************************************************************************)
TrustIsMonotone ==
    /\ \A e \in inFlight : e.card # NoCard =>
            \A l \in e.card.level .. 4 :
                RouteAnswer(e) = "Routed" => RouteAnswer([e EXCEPT !.card.level = l]) = "Routed"
    /\ \A l \in Levels \ {0} : AgentsAtTrustLevel(l) \subseteq AgentsAtTrustLevel(l - 1)
=============================================================================
