---------------------------- MODULE AuditLedger -----------------------------
(***************************************************************************)
(* The audit ledger of crates/kernel: entries chained by SHA-256.  The hash*)
(* is taken to be collision-free, so a digest IS the data hashed: nested   *)
(* through prev_hash, it holds the whole history.  compute_hash feeds the  *)
(* agent, action and target one after the other, with nothing in between;  *)
(* what follows (a digit, a severity byte, the time, the link) can be told *)
(* apart from its end.                                                     *)
(* entries_mut gives whoever tampers every field of every entry.           *)
(***************************************************************************)
EXTENDS Sequences, SequencesExt

CONSTANTS Agents,                (* AgentId is a string ...                  *)
          Actions, Targets,      (* ... and strings are sequences of parts   *)
          Severities,
          Junk,                  (* a string no digest equals                *)
          Metadata,              (* bound: values given to metadata          *)
          MaxEntries,            (* bound: entries                           *)
          MaxTampers             (* bound: fields overwritten                *)

ASSUME LedgerAssumption ==
    /\ MaxEntries \in Nat /\ MaxTampers \in Nat
    /\ "null" \in Metadata

VARIABLES entries,
          anchored,    (* history: the ledger when somebody last verified  *)
                       (* it and kept latest_hash                          *)
          tampers      (* history: writes through entries_mut              *)

ledgerVars == << entries, anchored, tampers >>

Genesis == << "ferris-aegis-genesis" >>

Text(e) == e.agent \o e.action \o e.target

(* Mutants: a hash without the link, one without the verdict. *)
DigestUnlinked(e) == << Text(e), e.allowed, e.severity, e.time >>
DigestWithoutVerdict(e) == << Text(e), e.severity, e.time, e.prevHash >>

(* What compute_hash covers: not the id, not the metadata. *)
Digest(e) == << Text(e), e.allowed, e.severity, e.time, e.prevHash >>

(* Mutant: hashed before the link is known. *)
SealedTooSoon(e) == [e EXCEPT !.hash = Digest([e EXCEPT !.prevHash = Genesis])]

Sealed(e) == [e EXCEPT !.hash = Digest(e)]

LatestHash(log) == IF log = << >> THEN Genesis ELSE Last(log).hash

VerifyHash(e) == e.hash = Digest(e)

VerifyChain(log) ==
    \A i \in DOMAIN log :
        /\ log[i].prevHash = LatestHash(SubSeq(log, 1, i - 1))
        /\ VerifyHash(log[i])

LedgerInit == entries = << >> /\ anchored = << >> /\ tampers = 0

-----------------------------------------------------------------------------

(* id and timestamp are fresh; the length of the ledger stands for both. *)
AppendEntry(agent, action, target, allowed, severity) ==
    LET e == Sealed([id |-> Len(entries) + 1, agent |-> agent, action |-> action,
                     target |-> target, allowed |-> allowed, severity |-> severity,
                     time |-> Len(entries) + 1, hash |-> << >>,
                     prevHash |-> LatestHash(entries), metadata |-> "null"])
    IN  /\ Len(entries) < MaxEntries
        /\ entries' = Append(entries, e)
        /\ UNCHANGED << anchored, tampers >>

(* Somebody calls verify_chain, and keeps latest_hash if it answers true. *)
Verify ==
    /\ anchored' = IF VerifyChain(entries) THEN entries ELSE anchored
    /\ UNCHANGED << entries, tampers >>

Overwrite(i, e) ==
    /\ tampers < MaxTampers
    /\ entries' = [entries EXCEPT ![i] = e]
    /\ tampers' = tampers + 1
    /\ UNCHANGED anchored

TamperContent(i) ==
    LET e == entries[i] IN
    \/ \E v \in Agents : Overwrite(i, [e EXCEPT !.agent = v])
    \/ \E v \in Actions : Overwrite(i, [e EXCEPT !.action = v])
    \/ \E v \in Targets : Overwrite(i, [e EXCEPT !.target = v])
    \/ Overwrite(i, [e EXCEPT !.allowed = ~@])
    \/ \E v \in Severities : Overwrite(i, [e EXCEPT !.severity = v])
    \/ Overwrite(i, [e EXCEPT !.time = @ + 1])

(* Hashes may be overwritten too, with junk or so as to fit again. *)
TamperHash(i) ==
    LET e == entries[i] IN
    \/ \E v \in {Junk, Digest(e)} : Overwrite(i, [e EXCEPT !.hash = v])
    \/ \E v \in {Junk, LatestHash(SubSeq(entries, 1, i - 1))} :
           Overwrite(i, [e EXCEPT !.prevHash = v])

(* The fields outside the hash. *)
TamperRest(i) ==
    LET e == entries[i] IN
    \/ Overwrite(i, [e EXCEPT !.id = @ + 1])
    \/ \E v \in Metadata : Overwrite(i, [e EXCEPT !.metadata = v])

LedgerNext ==
    \/ \E agent \in Agents, action \in Actions, target \in Targets,
          allowed \in BOOLEAN, severity \in Severities :
              AppendEntry(agent, action, target, allowed, severity)
    \/ Verify
    \/ \E i \in DOMAIN entries : TamperContent(i) \/ TamperHash(i) \/ TamperRest(i)

LedgerSpec == LedgerInit /\ [][LedgerNext]_ledgerVars

-----------------------------------------------------------------------------

Covered(e) == [text |-> Text(e), allowed |-> e.allowed,
               severity |-> e.severity, time |-> e.time]

(***************************************************************************)
(* INV-006.  A ledger nobody touched verifies, whatever was appended.      *)
(***************************************************************************)
UntouchedVerifies == tampers = 0 => VerifyChain(entries)

(***************************************************************************)
(* A kept latest_hash commits to the whole history: as long as the chain   *)
(* verifies and the entry at that place still has that hash, every entry   *)
(* up to it says what it said then, however many fields, hashes included,  *)
(* were overwritten and whatever was appended since.                       *)
(***************************************************************************)
TipCommits ==
    LET kept == SubSeq(entries, 1, Len(anchored)) IN
    VerifyChain(entries) /\ LatestHash(kept) = LatestHash(anchored)
        => \A i \in DOMAIN anchored : Covered(entries[i]) = Covered(anchored[i])

(***************************************************************************)
(* Overwriting one covered field, or one hash, of one entry anywhere breaks*)
(* verification: a write that keeps it alters nothing a digest covers.     *)
(***************************************************************************)
Rewrites == Len(entries') = Len(entries) /\ entries' # entries

OneWriteIsDetected ==
    [][Rewrites /\ VerifyChain(entries) /\ VerifyChain(entries')
          => \A i \in DOMAIN entries : Covered(entries'[i]) = Covered(entries[i])]_ledgerVars
=============================================================================
