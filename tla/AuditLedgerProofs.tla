------------------------- MODULE AuditLedgerProofs --------------------------
(***************************************************************************)
(* Proofs about the audit ledger, for ledgers of every length and any      *)
(* number of writes.                                                       *)
(***************************************************************************)
EXTENDS AuditLedger, ListLemmas

Entry(S) == [id : S, agent : S, action : S, target : S, allowed : S,
             severity : S, time : S, hash : S, prevHash : S, metadata : S]

LogInv ==
    /\ \E S : entries \in Seq(Entry(S)) /\ anchored \in Seq(Entry(S))
    /\ tampers \in Nat
    /\ Len(anchored) <= Len(entries)
    /\ VerifyChain(anchored)
    /\ UntouchedVerifies

(* The hash an entry's link must repeat. *)
HashBefore(log, i) == IF i = 1 THEN Genesis ELSE log[i - 1].hash

LEMMA LatestHashBefore ==
    ASSUME NEW S, NEW log \in Seq(S), NEW i \in 1 .. Len(log) + 1
    PROVE  LatestHash(SubSeq(log, 1, i - 1)) = HashBefore(log, i)
<1>1. CASE i = 1
  <2>1. SubSeq(log, 1, 0) = << >>
    BY SubSeqEmpty
  <2> QED BY <1>1, <2>1 DEF LatestHash, HashBefore
<1>2. CASE i # 1
  <2>1. /\ SubSeq(log, 1, i - 1) \in Seq(S)
        /\ Len(SubSeq(log, 1, i - 1)) = i - 1
        /\ SubSeq(log, 1, i - 1)[i - 1] = log[i - 1]
    BY <1>2, SubSeqProperties
  <2>2. SubSeq(log, 1, i - 1) # << >>
    BY <1>2, <2>1
  <2> QED BY <1>2, <2>1, <2>2 DEF LatestHash, HashBefore, Last
<1> QED BY <1>1, <1>2

LEMMA LatestHashIsLast ==
    ASSUME NEW S, NEW log \in Seq(S)
    PROVE  LatestHash(log) = HashBefore(log, Len(log) + 1)
<1>1. Len(log) \in Nat /\ (log = << >> <=> Len(log) = 0)
  BY EmptySeq
<1> QED BY <1>1 DEF LatestHash, HashBefore, Last

LEMMA ChainIsLinked ==
    ASSUME NEW S, NEW log \in Seq(S)
    PROVE  VerifyChain(log) <=> \A i \in 1 .. Len(log) :
               log[i].prevHash = HashBefore(log, i) /\ log[i].hash = Digest(log[i])
<1>1. DOMAIN log = 1 .. Len(log) /\ Len(log) \in Nat
  OBVIOUS
<1>2. \A i \in 1 .. Len(log) :
         LatestHash(SubSeq(log, 1, i - 1)) = HashBefore(log, i)
  BY LatestHashBefore
<1> QED BY <1>1, <1>2 DEF VerifyChain, VerifyHash

(* Equal digests are digests of equal contents with equal links. *)
LEMMA DigestsTell ==
    ASSUME NEW e, NEW f, Digest(e) = Digest(f)
    PROVE  Covered(e) = Covered(f) /\ e.prevHash = f.prevHash
BY DEF Digest, Covered

(***************************************************************************)
(* What a write does: it replaces one entry by one that kept its hash, or  *)
(* by one with the same content.                                           *)
(***************************************************************************)
LEMMA TamperIsWrite ==
    ASSUME NEW S, entries \in Seq(Entry(S)), NEW i \in DOMAIN entries,
           TamperContent(i) \/ TamperHash(i) \/ TamperRest(i)
    PROVE  \E e, R : /\ S \subseteq R /\ e \in Entry(R) /\ Overwrite(i, e)
                     /\ \/ e.hash = entries[i].hash
                        \/ Covered(e) = Covered(entries[i])
<1> DEFINE d == entries[i]
           Kept(e) == e.hash = d.hash \/ Covered(e) = Covered(d)
           Goal == \E e, R : S \subseteq R /\ e \in Entry(R) /\ Overwrite(i, e) /\ Kept(e)
<1>1. d \in Entry(S)
  OBVIOUS
<1> SUFFICES Goal
  OBVIOUS
<1>2. ASSUME NEW v, NEW e, e \in Entry(S \union {v}), Overwrite(i, e), Kept(e)
      PROVE  Goal
  <2>1. S \subseteq S \union {v}
    OBVIOUS
  <2> QED BY <1>2, <2>1
<1> HIDE DEF Goal
<1>3. CASE TamperContent(i)
  <2>1. ASSUME NEW v, Overwrite(i, [d EXCEPT !.agent = v]) PROVE Goal
    <3>1. LET e == [d EXCEPT !.agent = v] IN e \in Entry(S \union {v}) /\ e.hash = d.hash
      BY <1>1 DEF Entry
    <3> QED BY <2>1, <3>1, <1>2
  <2>2. ASSUME NEW v, Overwrite(i, [d EXCEPT !.action = v]) PROVE Goal
    <3>1. LET e == [d EXCEPT !.action = v] IN e \in Entry(S \union {v}) /\ e.hash = d.hash
      BY <1>1 DEF Entry
    <3> QED BY <2>2, <3>1, <1>2
  <2>3. ASSUME NEW v, Overwrite(i, [d EXCEPT !.target = v]) PROVE Goal
    <3>1. LET e == [d EXCEPT !.target = v] IN e \in Entry(S \union {v}) /\ e.hash = d.hash
      BY <1>1 DEF Entry
    <3> QED BY <2>3, <3>1, <1>2
  <2>4. ASSUME NEW v, Overwrite(i, [d EXCEPT !.allowed = v]) PROVE Goal
    <3>1. LET e == [d EXCEPT !.allowed = v] IN e \in Entry(S \union {v}) /\ e.hash = d.hash
      BY <1>1 DEF Entry
    <3> QED BY <2>4, <3>1, <1>2
  <2>5. ASSUME NEW v, Overwrite(i, [d EXCEPT !.severity = v]) PROVE Goal
    <3>1. LET e == [d EXCEPT !.severity = v] IN e \in Entry(S \union {v}) /\ e.hash = d.hash
      BY <1>1 DEF Entry
    <3> QED BY <2>5, <3>1, <1>2
  <2>6. ASSUME NEW v, Overwrite(i, [d EXCEPT !.time = v]) PROVE Goal
    <3>1. LET e == [d EXCEPT !.time = v] IN e \in Entry(S \union {v}) /\ e.hash = d.hash
      BY <1>1 DEF Entry
    <3> QED BY <2>6, <3>1, <1>2
  <2> QED BY <1>3, <2>1, <2>2, <2>3, <2>4, <2>5, <2>6 DEF TamperContent
<1>4. CASE TamperHash(i)
  <2>1. ASSUME NEW v, Overwrite(i, [d EXCEPT !.hash = v]) PROVE Goal
    <3>1. LET e == [d EXCEPT !.hash = v]
          IN  e \in Entry(S \union {v}) /\ Covered(e) = Covered(d)
      BY <1>1 DEF Entry, Covered, Text
    <3> QED BY <2>1, <3>1, <1>2
  <2>2. ASSUME NEW v, Overwrite(i, [d EXCEPT !.prevHash = v]) PROVE Goal
    <3>1. LET e == [d EXCEPT !.prevHash = v]
          IN  e \in Entry(S \union {v}) /\ e.hash = d.hash
      BY <1>1 DEF Entry
    <3> QED BY <2>2, <3>1, <1>2
  <2> QED BY <1>4, <2>1, <2>2 DEF TamperHash
<1>5. CASE TamperRest(i)
  <2>1. ASSUME NEW v, Overwrite(i, [d EXCEPT !.id = v]) PROVE Goal
    <3>1. LET e == [d EXCEPT !.id = v] IN e \in Entry(S \union {v}) /\ e.hash = d.hash
      BY <1>1 DEF Entry
    <3> QED BY <2>1, <3>1, <1>2
  <2>2. ASSUME NEW v, Overwrite(i, [d EXCEPT !.metadata = v]) PROVE Goal
    <3>1. LET e == [d EXCEPT !.metadata = v] IN e \in Entry(S \union {v}) /\ e.hash = d.hash
      BY <1>1 DEF Entry
    <3> QED BY <2>2, <3>1, <1>2
  <2> QED BY <1>5, <2>1, <2>2 DEF TamperRest
<1> QED BY <1>3, <1>4, <1>5

LEMMA SeqGrows ==
    ASSUME NEW S, NEW R, S \subseteq R, NEW log \in Seq(Entry(S))
    PROVE  log \in Seq(Entry(R))
<1>1. Entry(S) \subseteq Entry(R)
  BY DEF Entry
<1> QED BY <1>1

LEMMA AppendKeeps ==
    ASSUME LogInv, NEW agent \in Agents, NEW action \in Actions, NEW target \in Targets,
           NEW allowed \in BOOLEAN, NEW severity \in Severities,
           AppendEntry(agent, action, target, allowed, severity)
    PROVE  LogInv'
<1>1. PICK S : entries \in Seq(Entry(S)) /\ anchored \in Seq(Entry(S))
  BY DEF LogInv
<1> DEFINE link == LatestHash(entries)
           n == Len(entries)
           raw == [id |-> n + 1, agent |-> agent, action |-> action,
                   target |-> target, allowed |-> allowed, severity |-> severity,
                   time |-> n + 1, hash |-> << >>, prevHash |-> link, metadata |-> "null"]
           h == Digest(raw)
           e == Sealed(raw)
           R == S \union {n + 1, agent, action, target, allowed, severity, h, link, "null"}
<1>2. e = [id |-> n + 1, agent |-> agent, action |-> action,
           target |-> target, allowed |-> allowed, severity |-> severity,
           time |-> n + 1, hash |-> h, prevHash |-> link, metadata |-> "null"]
  BY DEF Sealed
<1>3. e.prevHash = link /\ e.hash = Digest(e)
  <2>1. /\ e.agent = raw.agent /\ e.action = raw.action /\ e.target = raw.target
        /\ e.allowed = raw.allowed /\ e.severity = raw.severity
        /\ e.time = raw.time /\ e.prevHash = raw.prevHash
    BY <1>2
  <2>2. e.hash = h /\ e.prevHash = link
    BY <1>2
  <2> HIDE DEF e, raw
  <2>3. Digest(e) = Digest(raw)
    BY <2>1 DEF Digest, Text
  <2> QED BY <2>2, <2>3
<1>4. e \in Entry(R)
  BY <1>2 DEF Entry
<1>5. entries' = Append(entries, e) /\ anchored' = anchored /\ tampers' = tampers
  BY DEF AppendEntry
<1> HIDE DEF e, R, h, raw, link
<1>6. /\ entries \in Seq(Entry(S \union R)) /\ anchored \in Seq(Entry(S \union R))
      /\ e \in Entry(S \union R)
  <2>1. S \subseteq S \union R /\ Entry(R) \subseteq Entry(S \union R)
    BY DEF Entry
  <2> QED BY <1>1, <1>4, <2>1, SeqGrows
<1>7. /\ entries' \in Seq(Entry(S \union R)) /\ Len(entries') = n + 1
      /\ \A i \in 1 .. n : entries'[i] = entries[i]
      /\ entries'[n + 1] = e
  BY <1>5, <1>6, AppendProperties
<1>8. n \in Nat /\ Len(anchored') <= Len(entries')
  BY <1>1, <1>5, <1>7 DEF LogInv
<1>9. UntouchedVerifies'
  <2> SUFFICES ASSUME tampers' = 0
               PROVE  VerifyChain(entries')
    BY DEF UntouchedVerifies
  <2>1. VerifyChain(entries)
    BY <1>5 DEF LogInv, UntouchedVerifies
  <2>2. link = HashBefore(entries', n + 1)
    <3>1. link = HashBefore(entries, n + 1)
      BY <1>1, LatestHashIsLast DEF link
    <3> QED BY <3>1, <1>7, <1>8 DEF HashBefore
  <2>3. \A i \in 1 .. n : HashBefore(entries', i) = HashBefore(entries, i)
    BY <1>7, <1>8 DEF HashBefore
  <2>4. \A i \in 1 .. n : entries[i].prevHash = HashBefore(entries, i)
                          /\ entries[i].hash = Digest(entries[i])
    BY <2>1, <1>1, ChainIsLinked
  <2>5. \A i \in 1 .. n + 1 : entries'[i].prevHash = HashBefore(entries', i)
                              /\ entries'[i].hash = Digest(entries'[i])
    <3> SUFFICES ASSUME NEW i \in 1 .. n + 1
                 PROVE  entries'[i].prevHash = HashBefore(entries', i)
                        /\ entries'[i].hash = Digest(entries'[i])
      OBVIOUS
    <3>1. CASE i = n + 1
      BY <3>1, <1>3, <1>7, <2>2
    <3>2. CASE i # n + 1
      <4>1. i \in 1 .. n
        BY <3>2, <1>8
      <4> QED BY <4>1, <1>7, <2>3, <2>4
    <3> QED BY <3>1, <3>2
  <2> QED BY <2>5, <1>7, ChainIsLinked
<1>10. VerifyChain(anchored')
  BY <1>5 DEF LogInv
<1> QED BY <1>5, <1>6, <1>7, <1>8, <1>9, <1>10 DEF LogInv

LEMMA LogInvHolds == LedgerSpec => []LogInv
<1>1. LedgerInit => LogInv
  <2> SUFFICES ASSUME LedgerInit
               PROVE  LogInv
    OBVIOUS
  <2>1. entries = << >> /\ anchored = << >> /\ tampers = 0
    BY DEF LedgerInit
  <2>2. << >> \in Seq(Entry({})) /\ Len(<< >>) = 0
    BY EmptySeq
  <2>3. VerifyChain(<< >>)
    BY <2>2, DOMAIN << >> = {} DEF VerifyChain
  <2> QED BY <2>1, <2>2, <2>3 DEF LogInv, UntouchedVerifies
<1>2. LogInv /\ [LedgerNext]_ledgerVars => LogInv'
  <2> SUFFICES ASSUME LogInv, [LedgerNext]_ledgerVars
               PROVE  LogInv'
    OBVIOUS
  <2>1. ASSUME NEW agent \in Agents, NEW action \in Actions, NEW target \in Targets,
               NEW allowed \in BOOLEAN, NEW severity \in Severities,
               AppendEntry(agent, action, target, allowed, severity)
        PROVE  LogInv'
    BY <2>1, AppendKeeps
  <2>2. CASE Verify
    <3>1. entries' = entries /\ tampers' = tampers
      BY <2>2 DEF Verify
    <3>2. CASE VerifyChain(entries)
      <4>1. anchored' = entries
        BY <2>2, <3>2 DEF Verify
      <4>2. PICK S : entries \in Seq(Entry(S))
        BY DEF LogInv
      <4>3. Len(anchored') <= Len(entries')
        BY <3>1, <4>1, <4>2
      <4> QED BY <3>1, <3>2, <4>1, <4>2, <4>3 DEF LogInv, UntouchedVerifies
    <3>3. CASE ~VerifyChain(entries)
      <4>1. anchored' = anchored
        BY <2>2, <3>3 DEF Verify
      <4> QED BY <3>1, <4>1 DEF LogInv, UntouchedVerifies
    <3> QED BY <3>2, <3>3
  <2>3. ASSUME NEW i \in DOMAIN entries,
               TamperContent(i) \/ TamperHash(i) \/ TamperRest(i)
        PROVE  LogInv'
    <3>1. PICK S : entries \in Seq(Entry(S)) /\ anchored \in Seq(Entry(S))
      BY DEF LogInv
    <3>2. PICK e, R : S \subseteq R /\ e \in Entry(R) /\ Overwrite(i, e)
      BY <2>3, <3>1, TamperIsWrite
    <3>3. entries \in Seq(Entry(R)) /\ anchored \in Seq(Entry(R))
      BY <3>1, <3>2, SeqGrows
    <3>4. /\ entries' = [entries EXCEPT ![i] = e] /\ tampers' = tampers + 1
          /\ anchored' = anchored
      BY <3>2 DEF Overwrite
    <3>5. entries' \in Seq(Entry(R)) /\ Len(entries') = Len(entries)
      BY <3>2, <3>3, <3>4, ExceptSeq
    <3>6. tampers' \in Nat /\ tampers' # 0
      BY <3>4 DEF LogInv
    <3> QED BY <3>3, <3>4, <3>5, <3>6 DEF LogInv, UntouchedVerifies
  <2>4. CASE UNCHANGED ledgerVars
    BY <2>4 DEF LogInv, UntouchedVerifies, ledgerVars
  <2> QED BY <2>1, <2>2, <2>3, <2>4 DEF LedgerNext
<1> QED BY <1>1, <1>2, PTL DEF LedgerSpec

(***************************************************************************)
(* INV-006 for every ledger: what only append touched verifies.            *)
(***************************************************************************)
THEOREM UntouchedLedgersVerify == LedgerSpec => []UntouchedVerifies
<1>1. LogInv => UntouchedVerifies
  BY DEF LogInv
<1> QED BY <1>1, LogInvHolds, PTL

(* Two chains that verify and share a hash share everything before it. *)
LEMMA HashesCommit ==
    ASSUME NEW S, NEW log \in Seq(Entry(S)), NEW old \in Seq(Entry(S)),
           VerifyChain(log), VerifyChain(old), Len(old) <= Len(log),
           Len(old) # 0, log[Len(old)].hash = old[Len(old)].hash
    PROVE  \A i \in 1 .. Len(old) : log[i].hash = old[i].hash
<1> DEFINE n == Len(old)
           T == {k \in Nat : k < n /\ log[n - k].hash # old[n - k].hash}
<1>1. n \in Nat /\ Len(log) \in Nat
  OBVIOUS
<1>2. T = {}
  <2> SUFFICES ASSUME T # {}
               PROVE  FALSE
    OBVIOUS
  <2>1. T \subseteq Nat
    OBVIOUS
  <2>2. PICK k \in T : \A y \in T : k <= y
    BY <2>1, LeastNatural
  <2>3. k \in Nat /\ k < n /\ log[n - k].hash # old[n - k].hash
    OBVIOUS
  <2>4. k # 0
    BY <2>3, <1>1
  <2>5. k - 1 \in Nat /\ k - 1 \notin T
    BY <2>1, <2>2, <2>3, <2>4
  <2> DEFINE m == n - (k - 1)
  <2>6. m \in 1 .. n /\ m \in 1 .. Len(log) /\ m # 1 /\ m - 1 = n - k
    BY <1>1, <2>3, <2>4
  <2>7. log[m].hash = old[m].hash
    BY <1>1, <2>3, <2>5
  <2> HIDE DEF m, T
  <2>8. /\ log[m].prevHash = log[m - 1].hash /\ log[m].hash = Digest(log[m])
        /\ old[m].prevHash = old[m - 1].hash /\ old[m].hash = Digest(old[m])
    BY <2>6, ChainIsLinked DEF HashBefore
  <2>9. log[m].prevHash = old[m].prevHash
    BY <2>7, <2>8, DigestsTell
  <2> QED BY <2>3, <2>6, <2>8, <2>9
<1>3. ASSUME NEW i \in 1 .. n
      PROVE  log[i].hash = old[i].hash
  <2>1. n - i \in Nat /\ n - i < n /\ n - (n - i) = i
    BY <1>1
  <2>2. n - i \notin T
    BY <1>2
  <2> QED BY <2>1, <2>2
<1> QED BY <1>3

(***************************************************************************)
(* A kept tip commits to the content of everything before it, for ledgers  *)
(* of any length and any number of writes.                                 *)
(***************************************************************************)
THEOREM TipsCommit == LedgerSpec => []TipCommits
<1>1. LogInv => TipCommits
  <2> SUFFICES ASSUME LogInv, VerifyChain(entries),
                      LatestHash(SubSeq(entries, 1, Len(anchored))) = LatestHash(anchored),
                      NEW i \in DOMAIN anchored
               PROVE  Covered(entries[i]) = Covered(anchored[i])
    BY DEF TipCommits
  <2>1. PICK S : entries \in Seq(Entry(S)) /\ anchored \in Seq(Entry(S))
    BY DEF LogInv
  <2> DEFINE n == Len(anchored)
  <2>2. n \in Nat /\ Len(entries) \in Nat /\ n <= Len(entries)
        /\ VerifyChain(anchored) /\ i \in 1 .. n
    BY <2>1 DEF LogInv
  <2>3. entries[n].hash = anchored[n].hash
    <3>1. n + 1 \in 1 .. Len(entries) + 1 /\ n + 1 # 1 /\ (n + 1) - 1 = n
      BY <2>2
    <3>2. LatestHash(SubSeq(entries, 1, n)) = HashBefore(entries, n + 1)
      BY <2>1, <3>1, LatestHashBefore
    <3>3. LatestHash(anchored) = HashBefore(anchored, n + 1)
      BY <2>1, LatestHashIsLast
    <3> QED BY <3>1, <3>2, <3>3 DEF HashBefore
  <2>4. entries[i].hash = anchored[i].hash
    BY <2>1, <2>2, <2>3, HashesCommit
  <2>5. entries[i].hash = Digest(entries[i]) /\ anchored[i].hash = Digest(anchored[i])
    BY <2>1, <2>2, ChainIsLinked
  <2> QED BY <2>4, <2>5, DigestsTell
<1> QED BY <1>1, LogInvHolds, PTL

(***************************************************************************)
(* One write after which the chain still verifies altered nothing a digest *)
(* covers, wherever in a ledger of any length it fell.                     *)
(***************************************************************************)
THEOREM WritesAreDetected == LedgerSpec => OneWriteIsDetected
<1> DEFINE Detected == Rewrites /\ VerifyChain(entries) /\ VerifyChain(entries')
                => \A i \in DOMAIN entries : Covered(entries'[i]) = Covered(entries[i])
<1>1. LogInv /\ [LedgerNext]_ledgerVars => [Detected]_ledgerVars
  <2> SUFFICES ASSUME LogInv, LedgerNext, Rewrites, VerifyChain(entries), VerifyChain(entries'),
                      NEW j \in DOMAIN entries
               PROVE  Covered(entries'[j]) = Covered(entries[j])
    OBVIOUS
  <2>1. PICK S : entries \in Seq(Entry(S))
    BY DEF LogInv
  <2>2. ASSUME NEW agent \in Agents, NEW action \in Actions, NEW target \in Targets,
               NEW allowed \in BOOLEAN, NEW severity \in Severities,
               AppendEntry(agent, action, target, allowed, severity)
        PROVE  FALSE
    <3>1. PICK e : entries' = Append(entries, e)
      BY <2>2 DEF AppendEntry
    <3>2. Len(entries') = Len(entries) + 1 /\ Len(entries) \in Nat
      BY <2>1, <3>1
    <3> QED BY <3>2 DEF Rewrites
  <2>3. ~Verify
    BY DEF Verify, Rewrites
  <2>4. PICK i \in DOMAIN entries : TamperContent(i) \/ TamperHash(i) \/ TamperRest(i)
    BY <2>2, <2>3 DEF LedgerNext
  <2>5. PICK e, R : /\ S \subseteq R /\ e \in Entry(R) /\ Overwrite(i, e)
                    /\ \/ e.hash = entries[i].hash
                       \/ Covered(e) = Covered(entries[i])
    BY <2>1, <2>4, TamperIsWrite
  <2>6. entries \in Seq(Entry(R)) /\ entries' = [entries EXCEPT ![i] = e]
    BY <2>1, <2>5, SeqGrows DEF Overwrite
  <2>7. entries' \in Seq(Entry(R)) /\ Len(entries') = Len(entries)
        /\ i \in 1 .. Len(entries) /\ entries'[i] = e
    BY <2>5, <2>6, ExceptSeq
  <2>8. CASE j # i
    BY <2>6, <2>8
  <2>9. CASE j = i /\ e.hash = entries[i].hash
    <3>1. entries[i].hash = Digest(entries[i]) /\ e.hash = Digest(e)
      BY <2>1, <2>7, ChainIsLinked
    <3> QED BY <2>7, <2>9, <3>1, DigestsTell
  <2> QED BY <2>5, <2>7, <2>8, <2>9
<1> QED BY <1>1, LogInvHolds, PTL DEF LedgerSpec, OneWriteIsDetected
=============================================================================
