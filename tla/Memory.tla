------------------------------- MODULE Memory --------------------------------
(***************************************************************************)
(* Episodic and semantic memory (crates/memory, crates/semantic-memory):   *)
(* tables in SQLite (external).  A statement is atomic, but record takes   *)
(* its timestamp before it awaits the insert, and timestamps are stored    *)
(* and compared as TEXT.  Nothing ties the semantic tables to the episodes *)
(* they name, and nothing ever deletes from them.                          *)
(***************************************************************************)
EXTENDS Integers, Sequences, FiniteSets, FiniteSetsExt

CONSTANTS Writers,       (* agents whose turns are recorded                *)
          Episodes,      (* episode identifiers, fresh for every record    *)
          Instants,      (* the instants a clock may show: the second and  *)
                         (* its milli-, micro- and nanoseconds             *)
          Keywords,      (* the dictionary of extract_concepts             *)
          RowLimit,      (* the LIMIT of list_summaries, 50 in the code    *)
          MaxRows        (* bound on the rows of the semantic tables       *)

ASSUME MemoryAssumption ==
    RowLimit \in Nat /\ MaxRows \in Nat /\ Instants \subseteq (Nat \X Nat \X Nat \X Nat)

VARIABLES issued,        (* identifiers given out                          *)
          pending,       (* records timestamped and not yet inserted       *)
          episodes,      (* table episodes                                 *)
          concepts,      (* table concepts                                 *)
          embeddings,    (* table embeddings                               *)
          summaries      (* table summaries                                *)

memoryVars == << issued, pending, episodes, concepts, embeddings, summaries >>

-----------------------------------------------------------------------------
(* to_rfc3339: the fraction has no digits, three, six or nine, as few as   *)
(* say it exactly; then the offset "+00:00".  In ASCII '+' < '.' < '0'.    *)

Plus == -2
Dot == -1

Fraction(t) ==
    IF t[4] # 0 THEN << Dot, t[2], t[3], t[4] >>
    ELSE IF t[3] # 0 THEN << Dot, t[2], t[3] >>
    ELSE IF t[2] # 0 THEN << Dot, t[2] >>
    ELSE << >>

(* Mutant: the offset written as "Z", which follows the digits. *)
Rfc3339WithZ(t) == << t[1] >> \o Fraction(t) \o << 1000 >>

Rfc3339(t) == << t[1] >> \o Fraction(t) \o << Plus >>

(* Two different texts differ before either ends. *)
TextBefore(x, y) ==
    \E i \in DOMAIN x \cap DOMAIN y :
        x[i] < y[i] /\ \A j \in 1 .. i - 1 : x[j] = y[j]

TextUpTo(x, y) == x = y \/ TextBefore(x, y)

(* ORDER BY ... DESC LIMIT n: every set of rows that can come first.       *)
Newest(rows, n) ==
    { top \in kSubset(IF n < Cardinality(rows) THEN n ELSE Cardinality(rows), rows) :
        \A r \in top, other \in rows \ top : TextUpTo(Rfc3339(other.at), Rfc3339(r.at)) }

-----------------------------------------------------------------------------

EpisodicInit == issued = {} /\ pending = {} /\ episodes = {}

SemanticInit == concepts = {} /\ embeddings = {} /\ summaries = {}

MemoryInit == EpisodicInit /\ SemanticInit

BeginRecord(a, id, t) ==
    /\ id \notin issued
    /\ issued' = issued \cup {id}
    /\ pending' = pending \cup {[agent |-> a, id |-> id, at |-> t]}
    /\ UNCHANGED << episodes, concepts, embeddings, summaries >>

InsertEpisode(e) ==
    /\ pending' = pending \ {e}
    /\ episodes' = episodes \cup {e}
    /\ UNCHANGED << issued, concepts, embeddings, summaries >>

(* The statement failed, or the caller went away before it was sent.       *)
RecordFails(e) ==
    /\ pending' = pending \ {e}
    /\ UNCHANGED << issued, episodes, concepts, embeddings, summaries >>

EpisodesOf(a) == { e \in episodes : e.agent = a }

Recent(a, limit) == Newest(EpisodesOf(a), limit)

(* found: the episodes whose content is like the pattern *)
Search(a, found, limit) == Newest(EpisodesOf(a) \cap found, limit)

InRange(a, start, end) ==
    { e \in EpisodesOf(a) : /\ TextUpTo(Rfc3339(start), Rfc3339(e.at))
                            /\ TextUpTo(Rfc3339(e.at), Rfc3339(end)) }

ClearMemory(a) ==
    /\ episodes' = episodes \ EpisodesOf(a)
    /\ UNCHANGED << issued, pending, concepts, embeddings, summaries >>

(* extract_concepts of a text and store_concept of each: one row per       *)
(* keyword in the text, for an episode the caller names.                   *)
StoreConcepts(a, id, found) ==
    /\ concepts' = concepts \cup { [agent |-> a, episode |-> id, name |-> k] : k \in found }
    /\ UNCHANGED << issued, pending, episodes, embeddings, summaries >>

StoreEmbedding(a, id) ==
    /\ embeddings' = embeddings \cup {[agent |-> a, episode |-> id]}
    /\ UNCHANGED << issued, pending, episodes, concepts, summaries >>

StoreSummary(a, t) ==
    /\ summaries' = summaries \cup
            {[agent |-> a, at |-> t, covered |-> { e.id : e \in EpisodesOf(a) }]}
    /\ UNCHANGED << issued, pending, episodes, concepts, embeddings >>

ListSummaries(a) == Newest({ s \in summaries : s.agent = a }, RowLimit)

HasRows == Cardinality(concepts) + Cardinality(embeddings) + Cardinality(summaries) < MaxRows

SemanticNext ==
    \E a \in Writers :
        \/ \E t \in Instants : StoreSummary(a, t)
        \/ \E id \in issued : \/ StoreEmbedding(a, id)
                              \/ StoreConcepts(a, id, Keywords)

MemoryNext ==
    \/ \E a \in Writers :
        \/ \E id \in Episodes, t \in Instants : BeginRecord(a, id, t)
        \/ ClearMemory(a)
    \/ \E e \in pending : InsertEpisode(e) \/ RecordFails(e)
    \/ HasRows /\ SemanticNext

-----------------------------------------------------------------------------

Before(s, t) ==
    \E i \in 1 .. 4 : s[i] < t[i] /\ \A j \in 1 .. i - 1 : s[j] = t[j]

(***************************************************************************)
(* Comparing the stored texts compares the instants, although their        *)
(* lengths vary: recent, search and list_summaries leave out only rows that*)
(* are no later than every row they return, and range answers with exactly *)
(* the episodes of its interval, in whatever order the inserts came.       *)
(***************************************************************************)
QueriesFollowTime ==
    \A a \in Writers :
        /\ \A limit \in 1 .. Cardinality(Episodes) :
              /\ \A top \in Recent(a, limit), other \in EpisodesOf(a) :
                    other \notin top => \A r \in top : ~Before(r.at, other.at)
              /\ \A found \in SUBSET EpisodesOf(a) : \A top \in Search(a, found, limit) :
                    \A r \in top, other \in found \ top : ~Before(r.at, other.at)
        /\ \A top \in ListSummaries(a) : \A r \in top, other \in summaries \ top :
              other.agent = a => ~Before(r.at, other.at)
        /\ \A s, t \in Instants :
              InRange(a, s, t) = { e \in EpisodesOf(a) : ~Before(e.at, s) /\ ~Before(t, e.at) }
=============================================================================
